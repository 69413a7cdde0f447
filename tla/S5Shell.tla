------------------------------- MODULE S5Shell -------------------------------
(***************************************************************************)
(* The command handlers of the fsmaker shell (fsmaker/sh.py) over the      *)
(* engine of S5FS, as operators: path resolution (os.path.normpath,        *)
(* Inode.lookup, Inode.open, FsmakerShell.open and get_parentdir), and     *)
(* cd, touch, mkdir, rmdir, rm (with _dir_clear), getfile and format.      *)
(*                                                                         *)
(* A path argument is a record [abs, segs]: whether it begins with "/",    *)
(* and its components.  The current directory _curdir is kept as the       *)
(* components of the normalised absolute path it holds.  Each handler     *)
(* returns [fs, cwd, err, exit]: the image and current directory after the *)
(* command, the error it reported, and whether an exception escaped the    *)
(* handler (cmd.Cmd.onecmd catches none, so fsmaker ends).                 *)
(***************************************************************************)
EXTENDS S5FSSpec

CONSTANTS
  Chunk,      \* bytes getfile reads from the host file at a time (20000)
  HostTree    \* the host directory of format -d, in the order its queue visits it

ShResult(fs, cwd, err, exit) == [fs |-> fs, cwd |-> cwd, err |-> err, exit |-> exit]

Front(s) == SubSeq(s, 1, Len(s) - 1)
Last(s)  == s[Len(s)]

(***************************************************************************)
(* os.path.normpath, on components: "." is dropped; ".." cancels the       *)
(* component before it, is dropped at the root of an absolute path, and    *)
(* is kept at the start of a relative one.                                 *)
(***************************************************************************)
RECURSIVE NormFrom(_, _, _)
NormFrom(segs, acc, abs) ==
  IF segs = <<>> THEN acc
  ELSE NormFrom(Tail(segs),
                CASE Head(segs) = "."                                  -> acc
                  [] Head(segs) = ".." /\ acc # <<>> /\ Last(acc) # ".." -> Front(acc)
                  [] Head(segs) = ".." /\ abs                           -> acc
                  [] OTHER                                              -> Append(acc, Head(segs)),
                abs)

Normpath(p) == NormFrom(p.segs, <<>>, p.abs)

\* Inode.lookup, api.py lines 430-439: the inode of the first live entry
\* with the name, NIL when there is none; getdents raises on a file that is
\* not a well-formed directory.
Lookup(fs, dir, name) ==
  IF DirError(fs, dir) # "none" THEN [ino |-> NIL, err |-> DirError(fs, dir)]
  ELSE LET k == FindDirent(fs, dir, name)
       IN [ino |-> IF k = 0 THEN NIL ELSE fs.dents[dir][k].ino, err |-> "none"]

\* The loop of Inode.open over all components but the last (lines 444-452).
RECURSIVE WalkDirs(_, _, _)
WalkDirs(fs, cur, segs) ==
  IF segs = <<>> THEN [ino |-> cur, err |-> "none"]
  ELSE Bind(Lookup(fs, cur, Head(segs)), LAMBDA l :
         IF l.err # "none" \/ l.ino = NIL THEN l ELSE WalkDirs(fs, l.ino, Tail(segs)))

(***************************************************************************)
(* Inode.open, api.py lines 441-459, on a normalised path: a missing       *)
(* directory gives None, or raises when create is asked; an empty last     *)
(* component gives the directory itself; a missing last component is      *)
(* created as a data file when create is asked.                            *)
(***************************************************************************)
OpenPath(fs, start, segs, create) ==
  IF segs = <<>> THEN [fs |-> fs, ino |-> start, err |-> "none"]
  ELSE Bind(WalkDirs(fs, start, Front(segs)), LAMBDA w :
    CASE w.err # "none"          -> [fs |-> fs, ino |-> NIL, err |-> w.err]
      [] w.ino = NIL /\ create   -> [fs |-> fs, ino |-> NIL, err |-> "NoSegment"]
      [] w.ino = NIL             -> [fs |-> fs, ino |-> NIL, err |-> "none"]
      [] OTHER ->
           Bind(Lookup(fs, w.ino, Last(segs)), LAMBDA l :
             CASE l.err # "none"          -> [fs |-> fs, ino |-> NIL, err |-> l.err]
               [] l.ino = NIL /\ create   ->
                    Bind(Create(fs, w.ino, Last(segs)), LAMBDA c :
                      [fs |-> c.fs, ino |-> IF c.err = "none" THEN fs.fi ELSE NIL, err |-> c.err])
               [] OTHER                   -> [fs |-> fs, ino |-> l.ino, err |-> "none"]))

(***************************************************************************)
(* FsmakerShell.open, sh.py lines 74-78, and Simdisk.open, api.py lines    *)
(* 650-651: a relative path is appended to _curdir, and the whole path is  *)
(* normalised and opened from the root.                                    *)
(***************************************************************************)
ShOpen(fs, cwd, p, create) ==
  OpenPath(fs, Root, NormFrom(IF p.abs THEN p.segs ELSE cwd \o p.segs, <<>>, TRUE), create)

CurDir == [abs |-> FALSE, segs |-> <<>>]

(***************************************************************************)
(* get_parentdir, sh.py lines 156-167: the normalised path is split at its *)
(* last "/".  With no "/" before the last component (a relative name, "/"  *)
(* or "/name") the part before it is "" or absent, and self.open of it     *)
(* opens _curdir; otherwise the part before it is opened.  An empty last   *)
(* part ("/") gives the name ".".                                          *)
(***************************************************************************)
GetParentdir(fs, cwd, p) ==
  LET n == Normpath(p) IN
  Bind(IF Len(n) <= 1 THEN ShOpen(fs, cwd, CurDir, FALSE)
       ELSE ShOpen(fs, cwd, [abs |-> p.abs, segs |-> Front(n)], FALSE), LAMBDA o :
    [dir  |-> o.ino,
     name |-> IF n = <<>> THEN "." ELSE Last(n),
     err  |-> IF o.err # "none" THEN o.err ELSE IF o.ino = NIL THEN "NoSuchDir" ELSE "none"])

\* Seeded fault: the new _curdir is not normalised, so "." and ".." stay in
\* it (ShellTypeOK catches it).
CdNoNormpath(fs, cwd, p) ==
  Bind(ShOpen(fs, cwd, p, FALSE), LAMBDA o :
    CASE o.err # "none"              -> ShResult(fs, cwd, o.err, TRUE)
      [] o.ino = NIL                 -> ShResult(fs, cwd, "NoSuchFile", FALSE)
      [] fs.ino[o.ino].type # TDIR   -> ShResult(fs, cwd, "NotDir", FALSE)
      [] OTHER -> ShResult(fs, cwd \o p.segs, "none", FALSE))

(***************************************************************************)
(* do_cd, sh.py lines 228-245: the path is opened (an exception escapes:   *)
(* do_cd has no try); a missing path or a non-directory is reported;       *)
(* otherwise _curdir becomes normpath(_curdir + "/" + path), the argument  *)
(* appended as written, "/" and all.                                       *)
(***************************************************************************)
Cd(fs, cwd, p) ==
  Bind(ShOpen(fs, cwd, p, FALSE), LAMBDA o :
    CASE o.err # "none"              -> ShResult(fs, cwd, o.err, TRUE)
      [] o.ino = NIL                 -> ShResult(fs, cwd, "NoSuchFile", FALSE)
      [] fs.ino[o.ino].type # TDIR   -> ShResult(fs, cwd, "NotDir", FALSE)
      [] OTHER -> ShResult(fs, NormFrom(cwd \o p.segs, <<>>, TRUE), "none", FALSE))

\* The try/except S5fsException around one argument of a handler.
Caught(fs, cwd, r) == ShResult(r.fs, cwd, r.err, FALSE)

\* do_touch, sh.py lines 501-517: create the file when the parent has no
\* entry of that name.
Touch(fs, cwd, p) ==
  Bind(GetParentdir(fs, cwd, p), LAMBDA g :
    IF g.err # "none" THEN ShResult(fs, cwd, g.err, FALSE)
    ELSE Bind(Lookup(fs, g.dir, g.name), LAMBDA l :
           CASE l.err # "none" -> ShResult(fs, cwd, l.err, FALSE)
             [] l.ino = NIL    -> Caught(fs, cwd, Create(fs, g.dir, g.name))
             [] OTHER          -> ShResult(fs, cwd, "none", FALSE)))

\* do_mkdir and do_rmdir, sh.py lines 525-540 and 478-493.
MkdirCmd(fs, cwd, p) ==
  Bind(GetParentdir(fs, cwd, p), LAMBDA g :
    IF g.err # "none" THEN ShResult(fs, cwd, g.err, FALSE)
    ELSE Caught(fs, cwd, Mkdir(fs, g.dir, g.name)))

RmdirCmd(fs, cwd, p) ==
  Bind(GetParentdir(fs, cwd, p), LAMBDA g :
    IF g.err # "none" THEN ShResult(fs, cwd, g.err, FALSE)
    ELSE Caught(fs, cwd, Rmdir(fs, g.dir, g.name)))

(***************************************************************************)
(* _dir_clear, sh.py lines 440-448: walk the slots of the directory as     *)
(* getdents yields them (over the size it had when the walk began, reading *)
(* each slot when it is reached); clear and rmdir each subdirectory,       *)
(* unlink each other entry, and stop at the first exception.               *)
(***************************************************************************)
RECURSIVE DirClear(_, _, _), ClearFrom(_, _, _, _, _)
ClearFrom(fs, dir, k, n, fuel) ==
  IF k > n THEN FSResult(fs, "none")
  ELSE LET e == fs.dents[dir][k] IN
       CASE e.name \in {"", ".", ".."} -> ClearFrom(fs, dir, k + 1, n, fuel)
         [] fs.ino[e.ino].type = TDIR  ->
              Bind(DirClear(fs, e.ino, fuel - 1), LAMBDA c :
                IF c.err # "none" THEN c
                ELSE Bind(Rmdir(c.fs, dir, e.name), LAMBDA r :
                       IF r.err # "none" THEN r ELSE ClearFrom(r.fs, dir, k + 1, n, fuel)))
         [] OTHER ->
              Bind(Unlink(fs, dir, e.name), LAMBDA u :
                IF u.err # "none" THEN u ELSE ClearFrom(u.fs, dir, k + 1, n, fuel))

DirClear(fs, dir, fuel) ==
  CASE fuel = 0                   -> FSResult(fs, "Depth")
    [] DirError(fs, dir) # "none" -> FSResult(fs, DirError(fs, dir))
    [] OTHER                      -> ClearFrom(fs, dir, 1, Len(fs.dents[dir]), fuel)

(***************************************************************************)
(* do_rm, sh.py lines 450-470: look the name up in its parent; with -r a   *)
(* directory is cleared and then removed; anything else is unlinked.  With *)
(* -r a missing name makes inode.get_type() raise AttributeError, which no *)
(* except clause catches.                                                  *)
(***************************************************************************)
Rm(fs, cwd, p, recursive) ==
  Bind(GetParentdir(fs, cwd, p), LAMBDA g :
    IF g.err # "none" THEN ShResult(fs, cwd, g.err, FALSE)
    ELSE Bind(Lookup(fs, g.dir, g.name), LAMBDA l :
      CASE l.err # "none"                  -> ShResult(fs, cwd, l.err, FALSE)
        [] recursive /\ l.ino = NIL        -> ShResult(fs, cwd, "AttributeError", TRUE)
        [] recursive /\ fs.ino[l.ino].type = TDIR ->
             Bind(DirClear(fs, l.ino, NInodes), LAMBDA c :
               IF c.err # "none" THEN Caught(fs, cwd, c)
               ELSE Caught(fs, cwd, Rmdir(c.fs, g.dir, g.name)))
        [] OTHER -> Caught(fs, cwd, Unlink(fs, g.dir, g.name))))

(***************************************************************************)
(* getfile, sh.py lines 548-557: truncate the destination to 0 (whatever   *)
(* its type), then write the host file Chunk bytes at a time.  A           *)
(* directory's entries go with its bytes; the data written after them is   *)
(* no entry.                                                               *)
(***************************************************************************)
\* Seeded fault: every write is a whole chunk, the short last read included
\* (FormatCopiesHost catches the wrong size).
RECURSIVE CopyFromFullChunks(_, _, _, _)
CopyFromFullChunks(fs, f, loc, len) ==
  IF loc >= len THEN FSResult(fs, "none")
  ELSE Bind(FileWrite(fs, f, loc, Chunk), LAMBDA w :
         IF w.err # "none" THEN w ELSE CopyFromFullChunks(w.fs, f, loc + Chunk, len))

RECURSIVE CopyFrom(_, _, _, _)
CopyFrom(fs, f, loc, len) ==
  IF loc >= len THEN FSResult(fs, "none")
  ELSE Bind(FileWrite(fs, f, loc, IF len - loc < Chunk THEN len - loc ELSE Chunk), LAMBDA w :
         IF w.err # "none" THEN w ELSE CopyFrom(w.fs, f, loc + Chunk, len))

GetFile(fs, f, len) ==
  Bind(FileTruncate(fs, f, 0), LAMBDA t :
    IF t.err # "none" THEN t ELSE CopyFrom([t.fs EXCEPT !.dents[f] = <<>>], f, 0, len))

\* do_getfile, sh.py lines 559-578: open the destination with create=True
\* and copy the host file into it.
GetFileCmd(fs, cwd, p, len) ==
  Bind(ShOpen(fs, cwd, p, TRUE), LAMBDA o :
    IF o.err # "none" THEN ShResult(o.fs, cwd, o.err, FALSE)
    ELSE Caught(fs, cwd, GetFile(o.fs, o.ino, len)))

(***************************************************************************)
(* do_truncate, sh.py lines 412-432: a missing path or one that is not a   *)
(* data file is reported; otherwise the file is truncated.  A growing      *)
(* truncate raises TypeError, which is no S5fsException and ends fsmaker,  *)
(* or never returns (Hang).                                                *)
(***************************************************************************)
TruncateCmd(fs, cwd, p, size) ==
  Bind(ShOpen(fs, cwd, p, FALSE), LAMBDA o :
    CASE o.err # "none"              -> ShResult(fs, cwd, o.err, FALSE)
      [] o.ino = NIL                 -> ShResult(fs, cwd, "NoSuchFile", FALSE)
      [] fs.ino[o.ino].type # TDATA  -> ShResult(fs, cwd, "NotData", FALSE)
      [] OTHER -> Bind(FileTruncate(fs, o.ino, size), LAMBDA t :
                    ShResult(t.fs, cwd, t.err, t.err = TypeError)))

(***************************************************************************)
(* do_putfile, sh.py lines 593-625, as far as the image and the shell are  *)
(* concerned: it only reads the image, and its errors are caught, but a   *)
(* missing source is reported and then read all the same, and None.read   *)
(* raises AttributeError, which ends fsmaker.                              *)
(***************************************************************************)
PutfileCmd(fs, cwd, p) ==
  Bind(ShOpen(fs, cwd, p, FALSE), LAMBDA o :
    IF o.err = "none" /\ o.ino = NIL THEN ShResult(fs, cwd, "AttributeError", TRUE)
    ELSE ShResult(fs, cwd, o.err, FALSE))

(***************************************************************************)
(* The -d part of do_format, sh.py lines 651-669: the host directory is    *)
(* walked through a queue from "."; each directory's parent is found with  *)
(* get_parentdir("/" + path) and the directory made there (the root "."   *)
(* is skipped), and each file is opened with create=True from "/" + path   *)
(* and filled by getfile.  Nothing here catches an exception.              *)
(***************************************************************************)
RECURSIVE Populate(_, _, _)
Populate(fs, cwd, k) ==
  IF k > Len(HostTree) THEN ShResult(fs, cwd, "none", FALSE)
  ELSE LET h == HostTree[k]
           p == [abs |-> TRUE, segs |-> <<".">> \o h.segs]
       IN IF h.dir
          THEN Bind(GetParentdir(fs, cwd, p), LAMBDA g :
                 CASE g.err # "none" -> ShResult(fs, cwd, g.err, TRUE)
                   [] g.name = "."   -> Populate(fs, cwd, k + 1)
                   [] OTHER ->
                        Bind(Mkdir(fs, g.dir, g.name), LAMBDA m :
                          IF m.err # "none" THEN ShResult(m.fs, cwd, m.err, TRUE)
                          ELSE Populate(m.fs, cwd, k + 1)))
          ELSE Bind(ShOpen(fs, cwd, p, TRUE), LAMBDA o :
                 IF o.err # "none" THEN ShResult(o.fs, cwd, o.err, TRUE)
                 ELSE Bind(GetFile(o.fs, o.ino, h.len), LAMBDA r :
                        IF r.err # "none" THEN ShResult(r.fs, cwd, r.err, TRUE)
                        ELSE Populate(r.fs, cwd, k + 1)))

(***************************************************************************)
(* do_format, sh.py lines 633-669: with valid options the image is         *)
(* formatted (Simdisk.format); with missing or conflicting options the     *)
(* error is printed (OptionParser.exit is overridden not to exit) and the  *)
(* image is left alone.  Either way -d then fills the image.  _curdir is   *)
(* not reset.                                                              *)
(***************************************************************************)
FormatCmd(fs, cwd, valid, fill) ==
  LET f0 == IF valid THEN Format ELSE fs IN
  IF fill THEN Populate(f0, cwd, 1)
  ELSE ShResult(f0, cwd, IF valid THEN "none" ELSE "BadOptions", FALSE)

(***************************************************************************)
(* do_inode, sh.py lines 274-317, given a path: string.atoi raises         *)
(* ValueError, and the except clause opens the path with self.open, which  *)
(* no try surrounds, so an S5fsException of a lookup (through a file or a  *)
(* malformed directory) escapes.  A missing path is reported; the summary, *)
(* indirect table, contents and listing are printed inside a try.  A      *)
(* number out of range is opened as a relative name the same way.          *)
(***************************************************************************)
InodeCmd(fs, cwd, p) ==
  Bind(ShOpen(fs, cwd, p, FALSE), LAMBDA o : ShResult(fs, cwd, o.err, o.err # "none"))

(***************************************************************************)
(* do_ls and do_cat, sh.py lines 357-404: every engine call is inside a    *)
(* try that catches S5fsException, the only exception the engine raises on *)
(* an image; they print and change nothing.                                *)
(***************************************************************************)
ReadCmd(fs, cwd) == ShResult(fs, cwd, "none", FALSE)

(***************************************************************************)
(* Simdisk.format, api.py lines 556-564, refuses fewer than one inode, a   *)
(* size that is no multiple of the block size, and a size with no room     *)
(* for a data block, before it writes anything; do_format calls it outside *)
(* every try (sh.py line 651), so the S5fsException ends fsmaker.          *)
(***************************************************************************)
FormatRejected(fs, cwd) == ShResult(fs, cwd, "FormatError", TRUE)
=============================================================================
