----------------------------- MODULE S5ShellSpec -----------------------------
(***************************************************************************)
(* The fsmaker shell driving a formatted image: any sequence of cd, touch, *)
(* mkdir, rmdir, rm [-r], getfile, truncate, putfile and format [-d]       *)
(* commands, one argument each, as the -e options or the interactive loop *)
(* give them.  A command runs to completion before the next; an exception *)
(* that escapes a handler ends fsmaker (exited), after which nothing      *)
(* happens.                                                                *)
(***************************************************************************)
EXTENDS S5Shell

CONSTANTS
  Paths,      \* the path arguments commands are given
  HostLens,   \* sizes of the host files getfile copies
  MaxDepth    \* model bound: components of _curdir

VARIABLES
  cwd,        \* FsmakerShell._curdir, as the components of the normalised path
  exited,     \* an exception escaped a handler and ended fsmaker
  filled,     \* history: the last command was format -d
  blank       \* the image file is empty: nothing has formatted it yet

shell_vars == <<disk, inodes, free_inode, dents, hung, cwd, exited, filled, blank>>

\* sh.py lines 699-708: fsmaker opens the image file it is given, creates
\* it empty when it does not exist, and uses an empty temporary file when
\* it is given none.
StartsBlank == BOOLEAN

ShellInit ==
  /\ Init /\ cwd = <<>> /\ exited = FALSE /\ filled = FALSE /\ blank \in StartsBlank

\* Store the outcome of one command.
Run(x) ==
  /\ ~exited
  /\ Apply(x)
  /\ cwd' = x.cwd
  /\ exited' = x.exit

\* Failed mkdirs raise link counts without end; the model stops at MaxLinks.
Bounded(x) ==
  /\ Len(x.cwd) <= MaxDepth
  /\ \A i \in Inodes : x.fs.ino[i].link_count <= MaxLinks

DoAs(res, fill, b) ==
  \E x \in {res} : Bounded(x) /\ Run(x) /\ filled' = fill /\ blank' = b

(***************************************************************************)
(* On an empty image file every Simdisk getter unpacks a short read        *)
(* (struct.unpack("I", "") in get_root_inode, get_num_inodes, ...), and    *)
(* struct.error is caught by no handler: the first command that reads the  *)
(* image ends fsmaker.                                                     *)
(***************************************************************************)
OnImage(res) == IF blank THEN ShResult(FS, cwd, "StructError", TRUE) ELSE res

Do(res) == DoAs(OnImage(res), FALSE, blank)

DoCd      == \E p \in Paths : Do(Cd(FS, cwd, p))
DoTouch   == \E p \in Paths : Do(Touch(FS, cwd, p))
DoMkdir   == \E p \in Paths : Do(MkdirCmd(FS, cwd, p))
DoRmdir   == \E p \in Paths : Do(RmdirCmd(FS, cwd, p))
DoRm      == \E p \in Paths, r \in BOOLEAN : Do(Rm(FS, cwd, p, r))
DoGetfile == \E p \in Paths, len \in HostLens : Do(GetFileCmd(FS, cwd, p, len))
DoTruncate == \E p \in Paths, size \in TruncSizes : Do(TruncateCmd(FS, cwd, p, size))
DoPutfile  == \E p \in Paths : Do(PutfileCmd(FS, cwd, p))
DoInode   == \E p \in Paths : Do(InodeCmd(FS, cwd, p))
DoRead    == Do(ReadCmd(FS, cwd))

\* format with options do_format accepts ("ok") or refuses ("badopts"), or
\* that it accepts and Simdisk.format refuses ("rejected").  Only a format
\* that runs makes the image file non-empty; -d on an empty file reads it.
DoFormat  ==
  \E opt \in {"ok", "badopts", "rejected"}, fill \in BOOLEAN :
    DoAs(CASE opt = "rejected"          -> FormatRejected(FS, cwd)
           [] opt = "badopts" /\ fill   -> OnImage(FormatCmd(FS, cwd, FALSE, TRUE))
           [] OTHER                     -> FormatCmd(FS, cwd, opt = "ok", fill),
         fill /\ opt # "rejected", blank /\ opt # "ok")

ShellNext ==
  \/ DoCd \/ DoTouch \/ DoMkdir \/ DoRmdir \/ DoRm \/ DoGetfile \/ DoTruncate
  \/ DoPutfile \/ DoInode \/ DoRead \/ DoFormat

ShellSpec == ShellInit /\ [][ShellNext]_shell_vars

\* Type invariant: the image has the on-disk fields; a directory's size is
\* its entries times the entry size, or it holds the bytes getfile wrote
\* over it and no entry; _curdir is a path of names.
ShellTypeOK ==
  /\ disk.alloc \in AllocState
  /\ inodes \in [Inodes -> InodeRec]
  /\ \A i \in Inodes : inodes[i].type # TFREE => inodes[i].size \in FileSizes
  /\ \A i \in Inodes : inodes[i].type = TDIR =>
       \/ inodes[i].size = Len(dents[i]) * DirentSize
       \/ dents[i] = <<>>
  /\ free_inode \in Inodes \cup {NIL}
  /\ dents \in [Inodes -> Seq([ino: Inodes, name: AllNames \cup {""}])]
  /\ cwd \in Seq(Names) /\ exited \in BOOLEAN /\ filled \in BOOLEAN /\ blank \in BOOLEAN

\* The inode _curdir opens to (NIL when it names nothing).
CwdDir == ShOpen(FS, cwd, CurDir, FALSE).ino

(***************************************************************************)
(* do_cd sets _curdir only after self.open(path) found a directory, so the *)
(* current directory is meant to name a directory of the image: every      *)
(* relative path, and get_parentdir of every name, is opened from it.      *)
(***************************************************************************)
CwdIsDirectory ==
  ~exited => CwdDir # NIL /\ inodes[CwdDir].type = TDIR

(***************************************************************************)
(* The shell reports every failure of a command and reads the next one:    *)
(* each handler catches S5fsException around the engine calls and prints  *)
(* it through OptionParser.error, which is overridden not to exit.         *)
(***************************************************************************)
ShellSurvivesErrors == ~exited

\* mkdir of an absolute path of one name (get_parentdir("/name")).
MkdirAtRoot == \E p \in {q \in Paths : q.abs /\ Len(q.segs) = 1} : Do(MkdirCmd(FS, cwd, p))

(***************************************************************************)
(* "mkdir /name" makes the directory in the root: the directory it creates *)
(* has the root as its "..", whatever the current directory is.            *)
(***************************************************************************)
AbsoluteMkdirAtRoot ==
  [][MkdirAtRoot =>
       \A x \in Inodes : inodes[x].type = TFREE /\ inodes'[x].type = TDIR =>
         dents'[x][2].ino = Root]_shell_vars

\* rm -r of "." or "..".
RmDotDot == \E p \in {q \in Paths : ~q.abs /\ q.segs \in {<<".">>, <<"..">>}} :
              Do(Rm(FS, cwd, p, TRUE))

(***************************************************************************)
(* Inode.rmdir refuses "." and ".." (api.py lines 338-339), so "rm -r ." and    *)
(* "rm -r .." are meant to be refused; a refused command leaves every      *)
(* entry and inode as it was.                                              *)
(***************************************************************************)
RmDotRefused ==
  [][RmDotDot => UNCHANGED <<inodes, dents>>]_shell_vars

\* Every entry of the host tree opens, from the root, to a directory or to
\* a data file of the host file's size.
HostCopied ==
  \A k \in DOMAIN HostTree :
    Bind(ShOpen(FS, <<>>, [abs |-> TRUE, segs |-> HostTree[k].segs], FALSE), LAMBDA o :
      /\ o.err = "none" /\ o.ino # NIL
      /\ IF HostTree[k].dir THEN inodes[o.ino].type = TDIR
         ELSE inodes[o.ino].type = TDATA /\ inodes[o.ino].size = HostTree[k].len)

(***************************************************************************)
(* format -d run at the root copies the host directory: when it returns,   *)
(* every directory and file of the host tree is in the image, each file    *)
(* with all of its bytes (getfile's read loop copies the last, short chunk *)
(* too, and the queue makes each directory before its children); a        *)
(* failure part way raises out of do_format and ends fsmaker.              *)
(***************************************************************************)
FormatCopiesHost == filled /\ ~exited /\ cwd = <<>> => HostCopied

(***************************************************************************)
(* The same from any current directory: format -d builds the host tree    *)
(* under "/" (it passes "/" + path to get_parentdir and self.open).        *)
(***************************************************************************)
FormatAnywhereCopiesHost == filled /\ ~exited => HostCopied
=============================================================================
