------------------------------ MODULE FileAccess ------------------------------
(***************************************************************************)
(* The POSIX view of an entry (src/data/FileMetaData.cpp):               *)
(* FileMetaData::FileAccess(uid, gid, amode), the permission check for    *)
(* access(2) against the uid, gid and mode bits of an entry, and the      *)
(* st_mode that stat(2) reports for a node made by Drive::MakeFile,       *)
(* Drive::MakeDir or Drive::SymLink (FileMetaData::ToStat).  Both are     *)
(* pure functions; the state machine around them is an entry with some   *)
(* mode and the calls made against it, each recording its answer.        *)
(***************************************************************************)
EXTENDS Naturals, Sequences, Bitwise

CONSTANTS
  Owner,     \* the entry's uid (not root)
  Group,     \* the entry's gid (not root's group)
  Stranger,  \* a uid that is neither root nor the owner
  StrangerG, \* a gid that is neither 0 nor the entry's
  DefineFileMode, \* Configure::GetDefineFileMode, permission bits only
  DefineDirMode   \* Configure::GetDefineDirMode, permission bits only

(* <unistd.h> and <sys/stat.h> *)
F_OK == 0
X_OK == 1
W_OK == 2
R_OK == 4
S_IRUSR == 256
S_IWUSR == 128
S_IXUSR == 64
S_IRGRP == 32
S_IWGRP == 16
S_IXGRP == 8
S_IROTH == 4
S_IWOTH == 2
S_IXOTH == 1
S_IFMT   == 61440   \* 0170000
S_IFSOCK == 49152   \* 0140000
S_IFLNK  == 40960   \* 0120000
S_IFREG  == 32768   \* 0100000
S_IFBLK  == 24576   \* 0060000
S_IFDIR  == 16384   \* 0040000
S_IFCHR  == 8192    \* 0020000
S_IFIFO  == 4096    \* 0010000

Has(x, bit) == (x & bit) # 0

Uids == {0, Owner, Stranger}
Gids == {0, Group, StrangerG}
AModes == 0..7
Modes == 0..511

VARIABLES
  meta,  \* the entry: its uid, gid, mode and whether it has a path
  last,  \* the last access call and its answer
  made   \* the last node creation: the mode asked for and what came of it

vars == <<meta, last, made>>

NoCall == [uid |-> 0, gid |-> 0, amode |-> 0, granted |-> FALSE, done |-> FALSE]

(* FileType and the type code GetFileTypeAndMode ORs in for each.         *)
TypeBits == [File |-> S_IFREG, Directory |-> S_IFDIR, SymLink |-> S_IFLNK,
             Block |-> S_IFBLK, Character |-> S_IFCHR, FIFO |-> S_IFIFO,
             Socket |-> S_IFSOCK]
FileTypes == DOMAIN TypeBits

(* The node types mknod(2) may ask for; the kernel refuses the others.    *)
MknodKinds == {S_IFREG, S_IFCHR, S_IFBLK, S_IFIFO, S_IFSOCK}
(* The device numbers mknod(2) may pass (0 for a non-device).             *)
Devs == {0, 1}

NoNode == [type |-> "none", mode |-> 0, dev |-> 0]
NoStat == [st_mode |-> 0, st_dev |-> 0, st_rdev |-> 0]
NoMade == [op |-> "none", req |-> 0, dev |-> 0, node |-> NoNode, put |-> FALSE,
           failed |-> FALSE, stat |-> NoStat]

TypeOK ==
  /\ meta \in [uid : {Owner}, gid : {Group}, mode : Modes, named : BOOLEAN]
  /\ last \in [uid : Uids, gid : Gids, amode : AModes, granted : BOOLEAN,
               done : BOOLEAN]
  /\ made \in [op : {"none", "mknod", "mkdir", "symlink"}, req : Nat, dev : Devs,
               node : [type : FileTypes, mode : Nat, dev : Devs] \cup {NoNode},
               put : BOOLEAN, failed : BOOLEAN,
               stat : [st_mode : Nat, st_dev : Devs, st_rdev : Devs]]

Init ==
  /\ meta \in [uid : {Owner}, gid : {Group}, mode : Modes, named : BOOLEAN]
  /\ last = NoCall
  /\ made = NoMade

(* The read branch: owner or root with S_IRUSR, the group or gid 0 with   *)
(* S_IRGRP, anyone with S_IROTH.                                          *)
ReadGranted(m, uid, gid) ==
  \/ (uid = m.uid \/ uid = 0) /\ Has(m.mode, S_IRUSR)
  \/ (gid = m.gid \/ gid = 0) /\ Has(m.mode, S_IRGRP)
  \/ Has(m.mode, S_IROTH)

(* The write branch, the same with the write bits.                        *)
WriteGranted(m, uid, gid) ==
  \/ (uid = m.uid \/ uid = 0) /\ Has(m.mode, S_IWUSR)
  \/ (gid = m.gid \/ gid = 0) /\ Has(m.mode, S_IWGRP)
  \/ Has(m.mode, S_IWOTH)

(* The execute branch: root with any execute bit, the owner with S_IXUSR, *)
(* the group with S_IXGRP, anyone with S_IXOTH.                           *)
ExecGranted(m, uid, gid) ==
  \/ uid = 0 /\ (Has(m.mode, S_IXUSR) \/ Has(m.mode, S_IXGRP) \/ Has(m.mode, S_IXOTH))
  \/ uid = m.uid /\ Has(m.mode, S_IXUSR)
  \/ gid = m.gid /\ Has(m.mode, S_IXGRP)
  \/ Has(m.mode, S_IXOTH)

(* FileAccess: an entry without a path is refused; then the first branch  *)
(* whose bit amode has decides.  The execute branch is tested with W_OK,  *)
(* as in the code, so a W_OK request never reaches it.                    *)
FileAccess(m, uid, gid, amode) ==
  IF ~m.named THEN FALSE
  ELSE IF Has(amode, F_OK) THEN TRUE
  ELSE IF Has(amode, R_OK) THEN ReadGranted(m, uid, gid)
  ELSE IF Has(amode, W_OK) THEN WriteGranted(m, uid, gid)
  ELSE IF Has(amode, W_OK) THEN ExecGranted(m, uid, gid)
  ELSE FALSE

(* An access(2) call on the entry by some user of some group.            *)
Access(uid, gid, amode) ==
  /\ last' = [uid |-> uid, gid |-> gid, amode |-> amode,
              granted |-> FileAccess(meta, uid, gid, amode), done |-> TRUE]
  /\ UNCHANGED <<meta, made>>

(* GetFileTypeAndMode: the node's type code ORed with its stored mode,    *)
(* the st_mode that ToStat reports.                                       *)
GetFileTypeAndMode(n) == TypeBits[n.type] | n.mode

(* FileMetaData::ToStat: st_mode from GetFileTypeAndMode and st_dev from  *)
(* m_dev, in a struct stat that is not initialised; st_rdev is never set  *)
(* and keeps whatever the stack held, here junk.                          *)
ToStat(n, junk) == [st_mode |-> GetFileTypeAndMode(n), st_dev |-> n.dev,
                    st_rdev |-> junk]

(* A creation's outcome: the node grown (none on failure) and its stat.   *)
Made(op, mode, dev, n, put, ok) ==
  \E junk \in Devs :
    made' = [op |-> op, req |-> mode, dev |-> dev, failed |-> ~ok,
             put |-> ok /\ put, node |-> IF ok THEN n ELSE NoNode,
             stat |-> IF ok THEN ToStat(n, junk) ELSE NoStat]

(* The type MakeFile decodes from mode: the first of these codes that     *)
(* shares a bit with mode, or "none" (a directory or link is refused).    *)
DecodeOrder == <<"File", "Block", "Character", "FIFO", "Socket">>
MakeFileType(mode) ==
  LET hits == {i \in 1..Len(DecodeOrder) : Has(mode, TypeBits[DecodeOrder[i]])}
  IN  IF hits = {} THEN "none"
      ELSE DecodeOrder[CHOOSE i \in hits : \A j \in hits : i <= j]

(* Drive::MakeFile(path, mode, dev).  A File is created on the store (a   *)
(* PUT) and its node grows from the asynchronous Stat with the default    *)
(* file mode; any other type is grown locally with mode as given.  A      *)
(* failed create returns without a node.                                  *)
MakeFile(mode, dev) ==
  LET type == MakeFileType(mode) IN
  /\ type # "none"
  /\ \E ok \in BOOLEAN :
       IF type = "File"
       THEN Made("mknod", mode, dev,
                 [type |-> "File", mode |-> DefineFileMode, dev |-> 0], TRUE, ok)
       ELSE Made("mknod", mode, dev,
                 [type |-> type, mode |-> mode, dev |-> dev], FALSE, TRUE)
  /\ UNCHANGED <<meta, last>>

(* Drive::MakeDir(path, mode): refused unless mode has S_IFDIR; the       *)
(* directory object is created on the store and its node grows from the   *)
(* asynchronous Stat with the default directory mode.                     *)
MakeDir(mode) ==
  /\ Has(mode, S_IFDIR)
  /\ \E ok \in BOOLEAN :
       Made("mkdir", mode, 0,
            [type |-> "Directory", mode |-> DefineDirMode, dev |-> 0], TRUE, ok)
  /\ UNCHANGED <<meta, last>>

(* Drive::SymLink(target, link): a SymLink node is grown locally with the *)
(* default file mode; nothing is written to the store.                    *)
SymLink ==
  /\ Made("symlink", S_IFLNK | DefineFileMode, 0,
          [type |-> "SymLink", mode |-> DefineFileMode, dev |-> 0], FALSE, TRUE)
  /\ UNCHANGED <<meta, last>>

Next ==
  \/ \E uid \in Uids, gid \in Gids, amode \in AModes : Access(uid, gid, amode)
  \/ \E k \in MknodKinds, d \in Devs : MakeFile(k | DefineFileMode, d)
  \/ MakeDir(S_IFDIR | DefineDirMode)
  \/ SymLink

Spec == Init /\ [][Next]_vars

-----------------------------------------------------------------------------
(* The check as spec section 6 states it: the execute branch tests X_OK,  *)
(* and, as the code's comment says, an existence check (F_OK) of an entry *)
(* is always allowed.                                                     *)
SpecAccess(m, uid, gid, amode) ==
  IF ~m.named THEN FALSE
  ELSE IF amode = F_OK THEN TRUE
  ELSE IF Has(amode, R_OK) THEN ReadGranted(m, uid, gid)
  ELSE IF Has(amode, W_OK) THEN WriteGranted(m, uid, gid)
  ELSE IF Has(amode, X_OK) THEN ExecGranted(m, uid, gid)
  ELSE FALSE

(***************************************************************************)
(* Spec section 6 and the code's own comment: every access(2) check is    *)
(* answered as SpecAccess answers it: the execute bits decide an X_OK     *)
(* request and an existence check (F_OK) of an entry is always allowed.   *)
(* About the branch order of FileAccess, the F_OK test `amode & F_OK`    *)
(* with F_OK = 0, and the execute branch gated by W_OK.                   *)
(***************************************************************************)
AccessAsSpecified ==
  last.done => last.granted = SpecAccess(meta, last.uid, last.gid, last.amode)

(* The file type a POSIX st_mode encodes: S_ISxxx(m) is (m & S_IFMT) = S_IFxxx. *)
StatType(m) == m & S_IFMT

(***************************************************************************)
(* Spec section 4.5 (makeFile: a regular file is created on the store,    *)
(* a device, FIFO or socket only locally) and stat(2): a node that was   *)
(* made reports in st_mode the type that was asked for, and only regular *)
(* files and directories are written to the store; a device node reports *)
(* in st_rdev the device number mknod was given.  About MakeFile's       *)
(* decoding of mode with mode & S_IFxxx, GetFileTypeAndMode ORing the    *)
(* type code into the stored mode, and ToStat filling st_dev, not        *)
(* st_rdev, from the node's device number.                               *)
(***************************************************************************)
MadeAsRequested ==
  made.op # "none" /\ ~made.failed =>
    /\ StatType(made.stat.st_mode) = StatType(made.req)
    /\ made.put = (StatType(made.req) \in {S_IFREG, S_IFDIR})
    /\ StatType(made.req) \in {S_IFCHR, S_IFBLK} => made.stat.st_rdev = made.dev

(* What the entry answers through access(2) and stat(2) agrees with the   *)
(* spec: both checks above.                                               *)
EntryAnswersAsSpecified == AccessAsSpecified /\ MadeAsRequested
=============================================================================
