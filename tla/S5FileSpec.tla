----------------------------- MODULE S5FileSpec -----------------------------
(***************************************************************************)
(* One regular file of a freshly formatted image, written and truncated by *)
(* any sequence of Inode.write and Inode.truncate calls (the calls the     *)
(* shell's putfile, getfile and truncate commands make).  The file starts  *)
(* as Inode.create leaves it: DATA, size 0, no blocks.                     *)
(*                                                                         *)
(* content is a history variable: the bytes the file holds by the spec     *)
(* (section 4.4), where a write stores its bytes and grows the file with   *)
(* zeros, and a truncate cuts the file or pads it with zeros.  A call that *)
(* raises leaves content as it was.  err is what the last call raised     *)
(* ("none" if nothing); after a call that never returns (Hang) nothing     *)
(* happens.                                                                *)
(***************************************************************************)
EXTENDS S5File

VARIABLES disk, inode, content, err

vars == <<disk, inode, content, err>>

FreshImage ==
  [alloc |-> FormatFree,
   data  |-> [b \in DataBlocks |-> ZeroData],
   ind   |-> [b \in DataBlocks |-> ZeroInd]]

\* The inode as Inode.create initialises it (lines 379-384).
NewFile ==
  [size |-> 0, type |-> TDATA, link_count |-> 1,
   direct |-> [k \in 0 .. NDirect - 1 |-> 0], indirect |-> 0]

\* Type invariant: the image and the inode have their on-disk shapes, and
\* the stored size is the length the spec gives the file's content (the
\* size grows only to the end of a successful write).
TypeOK ==
  /\ disk.alloc \in AllocState
  /\ disk.data \in [DataBlocks -> [ByteIdx -> {0, 1}]]
  /\ disk.ind \in [DataBlocks -> [IndIdx -> {0} \cup DataBlocks]]
  /\ inode.size \in FileSizes
  /\ inode.direct \in [0 .. NDirect - 1 -> {0} \cup DataBlocks]
  /\ inode.indirect \in {0} \cup DataBlocks
  /\ content \in Seq({0, 1}) /\ Len(content) = inode.size
  /\ err \in {"none", NoSpace, Corrupt, WrongType, TooLarge, OutOfBlock, TypeError, Hang}

(***************************************************************************)
(* The image as the model stores it: the bytes of a block the file does    *)
(* not address, and the table view of a block that is not its indirect     *)
(* table, are dead (write zeroes a block when it allocates it), and are    *)
(* stored as zeros.                                                        *)
(***************************************************************************)
LiveDisk(d, n) ==
  [alloc |-> LiveAlloc(d.alloc),
   data  |-> [b \in DataBlocks |-> IF b \in Addressed(d, n) THEN d.data[b] ELSE ZeroData],
   ind   |-> [b \in DataBlocks |-> IF b = n.indirect THEN d.ind[b] ELSE ZeroInd]]

Init ==
  /\ disk = LiveDisk(FreshImage, NewFile)
  /\ inode = NewFile
  /\ content = <<>>
  /\ err = "none"

\* The bytes of a file after a successful write or truncate, by the spec.
Written(c, offset, len) ==
  LET size == IF offset + len > Len(c) THEN offset + len ELSE Len(c) IN
  [p \in 1 .. size |-> IF p > offset /\ p <= offset + len THEN 1
                       ELSE IF p <= Len(c) THEN c[p] ELSE 0]

Resized(c, size) == [p \in 1 .. size |-> IF p <= Len(c) THEN c[p] ELSE 0]

\* Inode.write(offset, data) with len(data) = len.
WriteOp(offset, len) ==
  /\ err # Hang
  /\ \E r \in {Write(disk, inode, offset, len)} :
       /\ disk' = LiveDisk(r.d, r.n)
       /\ inode' = r.n
       /\ content' = IF r.err = "none" THEN Written(content, offset, len) ELSE content
       /\ err' = r.err

\* Inode.truncate(size).
TruncateOp(size) ==
  /\ err # Hang
  /\ \E r \in {Truncate(disk, inode, size)} :
       /\ disk' = LiveDisk(r.d, r.n)
       /\ inode' = r.n
       /\ content' = IF r.err = "none" THEN Resized(content, size) ELSE content
       /\ err' = r.err

Next ==
  \/ \E off \in FileSizes, len \in 0 .. BlockSize + 1 : WriteOp(off, len)
  \/ \E size \in FileSizes : TruncateOp(size)

Spec == Init /\ [][Next]_vars

(***************************************************************************)
(* Free-list conservation with a live file (spec section 8): through any   *)
(* sequence of writes (allocating the indirect table and data blocks on    *)
(* demand, failing part way when the disk is full) and truncates (freeing  *)
(* blocks and the table), every data block is either free exactly once or  *)
(* addressed by the file exactly once, after every call that returns.      *)
(***************************************************************************)
BlocksAccounted ==
  /\ Accounts(disk.alloc, Addressed(disk, inode))
  /\ RefCount(disk, inode) = Cardinality(Addressed(disk, inode))

Conservation == err # Hang => BlocksAccounted

(***************************************************************************)
(* The image a hung truncate leaves when fsmaker is killed still accounts  *)
(* for every block: the growing loop of Inode.truncate (lines 296-302)     *)
(* writes only table entries past the end of the file.                     *)
(***************************************************************************)
HungTruncateKeepsBlocks == err = Hang => BlocksAccounted

(***************************************************************************)
(* Round trip (spec section 8): every byte that a successful write stored  *)
(* and no later truncate cut off reads back as written, through direct     *)
(* pointers, the indirect table and across the boundary between them,     *)
(* after every call that returns.                                          *)
(***************************************************************************)
WrittenBytesReadBack ==
  err # Hang =>
    LET r == Read(disk, inode, 0, inode.size) IN
    \A p \in 1 .. Len(content) : content[p] = 1 => r[p] = 1

(***************************************************************************)
(* Sparse holes and no stale data (spec sections 8 and 9): a read of the   *)
(* whole file returns exactly the bytes the spec says it holds, so every   *)
(* byte never written since the last cut reads as zero.                    *)
(***************************************************************************)
ReadMatchesContent == Read(disk, inode, 0, inode.size) = content

(***************************************************************************)
(* Growing truncate (spec section 4.4): truncate to a larger size simply   *)
(* raises the size; it neither raises an error nor fails to return.        *)
(***************************************************************************)
TruncateGrowsFile == err \notin {TypeError, Hang}

(***************************************************************************)
(* Truncate of a file of the maximum size (S5_MAX_FILE_SIZE) frees its     *)
(* blocks like that of any other file, instead of raising.                 *)
(***************************************************************************)
TruncateOfFullFile == err # OutOfBlock
=============================================================================
