----------------------------- MODULE FileServer -----------------------------
(***************************************************************************)
(* The file server: FileServer (connections), FileSession (one upload or   *)
(* download at a time, through the one FILE* m_fp of the session) and      *)
(* FileManager (the list of files that are complete), over the directory   *)
(* filecache/.                                                             *)
(*                                                                         *)
(* The unit of data is the 512 * 1024 bytes of one download reply; clients *)
(* upload in the same unit.  Sessions run on the main loop only (the       *)
(* thread pool of main.cpp is not given to the TcpServer), so a request is *)
(* one step.  What interleaves is the requests of different connections,   *)
(* closed connections and restarts.                                        *)
(*                                                                         *)
(* Clients are external.  A client sends the blocks of the file it names,  *)
(* in order, the next one after the reply to the last; it asks for the     *)
(* next block of a download after the reply.  See `Requests': Process has  *)
(* no such guard, and what the code does with a block that follows an      *)
(* unanswered one is not modelled.                                         *)
(***************************************************************************)
EXTENDS Integers, Sequences, FiniteSets

CONSTANTS
  Conns,       \* connections
  Md5s,        \* file names (upload names are MD5 sums, so content follows)
  Size,        \* Size[f]: number of blocks of the file of that name
  CwdFiles,    \* names that exist in the working directory of the process
  Faults,      \* "open" if fopen may fail, "write" if the disk may refuse data
  Restarts,    \* TRUE if the process may end and start again
  Cancels,     \* TRUE if clients may stop a transfer and keep the connection
  MaxOpened    \* bound: how often a process opens one file for writing

ASSUME SizeAssumption == Size \in [Md5s -> Nat]
ASSUME CwdAssumption == CwdFiles \subseteq Md5s
ASSUME FaultsAssumption == Faults \subseteq {"open", "write"}
ASSUME SwitchesAssumption == {Restarts, Cancels} \subseteq BOOLEAN

VARIABLES
  disk,        \* disk[f]: the blocks of filecache/f, or Absent
  m_listFiles, \* FileManager: names that uploads and downloads find
  opened,      \* how often this process opened filecache/f for writing
  unflushed,   \* files listed although the fclose of their upload failed
  orphans,     \* writes in the buffers of FILE*s that no session owns
  sess,        \* the FileSession of each connection
  client,      \* what the client of each connection is doing
  reply        \* the reply that the last step sent, or NoReply

vars == <<disk, m_listFiles, opened, unflushed, orphans, sess, client, reply>>

-----------------------------------------------------------------------------
(* Files *)

\* Block k of file f; a block that is not complete, because of a write beyond
\* the end or of one that the disk refused.
Block(f, k) == <<f, k>>
Hole == <<>>
Blocks == {Hole} \cup (Md5s \X Nat)

Absent == [exists |-> FALSE, blocks |-> <<>>]
Present(blocks) == [exists |-> TRUE, blocks |-> blocks]

Whole(f) == [i \in 1..Size[f] |-> Block(f, i - 1)]

\* A block written at a position of a file.
Write(f, k, block) == [file |-> f, at |-> k, block |-> block]
Writes == [file : Md5s, at : Nat, block : Blocks]

\* The blocks of a file after some writes to different positions of it.
Written(blocks, writes) ==
  LET ends == {Len(blocks)} \cup {w.at + 1 : w \in writes}
  IN  [i \in 1..(CHOOSE n \in ends : \A m \in ends : m <= n) |->
         IF \E w \in writes : w.at = i - 1
         THEN (CHOOSE w \in writes : w.at = i - 1).block
         ELSE IF i <= Len(blocks) THEN blocks[i] ELSE Hole]

Flushed(d, writes) ==
  [f \in Md5s |->
     LET own == {w \in writes : w.file = f}
     IN  IF own = {} THEN d[f] ELSE Present(Written(d[f].blocks, own))]

\* What a write that the disk refuses leaves: nothing, or a part of the block.
\* A block that is already there holds the same bytes and stays.
Refused(d, w) ==
  {d, IF w.at < Len(d[w.file].blocks) THEN d
      ELSE Flushed(d, {[w EXCEPT !.block = Hole]})}

(***************************************************************************)
(* A FILE*.  fwrite may leave the end of a block in the buffer of the      *)
(* stream until the next fseek, fclose or exit(); until then the block is  *)
(* not on disk.  `pending' is the set of such writes, at most one.         *)
(***************************************************************************)
NoFile == [file |-> "none", mode |-> "closed", pos |-> 0, pending |-> {}]

Stream(f, mode) == [file |-> f, mode |-> mode, pos |-> 0, pending |-> {}]

FileStar == [file : Md5s \cup {"none"}, mode : {"closed", "w", "r+"}, pos : Nat,
             pending : SUBSET Writes]

-----------------------------------------------------------------------------
(* Sessions *)

Closed == [state |-> "none", m_fp |-> NoFile, m_offset |-> 0, m_filesize |-> 0]

\* Mutated: m_offset has no initialiser.
FreshUnset == [Closed EXCEPT !.state = "kConnected", !.m_offset = -1]

\* The constructor sets m_fp; m_offset and m_filesize are {} in the class.
Fresh == [Closed EXCEPT !.state = "kConnected"]

ResetFile(s) ==
  IF s.m_fp = NoFile THEN s
  ELSE [s EXCEPT !.m_fp = NoFile, !.m_offset = 0, !.m_filesize = 0]

\* What the fclose of ResetFile may bring to the disk.
Closings(fp) == {fp.pending} \cup (IF "write" \in Faults THEN {{}} ELSE {})

Idle == [op |-> "idle", file |-> "none", next |-> 0]

NoReply == [op |-> "none", file |-> "none", offset |-> 0, filesize |-> 0,
            data |-> {}]

Reply(op, f, offset, filesize, data) ==
  [op |-> op, file |-> f, offset |-> offset, filesize |-> filesize, data |-> data]

\* The reply to an upload that is complete: offset = filesize = -1.
Finished(f) == Reply("up", f, -1, -1, {})

\* FileManager::IsFileExsit looks into the list and then for a file of that
\* name in the working directory (not in filecache/), which it adds.
IsFileExsitUnlisted(f) == f \in CwdFiles     \* Mutated: without the list.

IsFileExsit(f) == f \in m_listFiles \cup CwdFiles
ListedBy(f) == IF IsFileExsit(f) THEN m_listFiles \cup {f} ELSE m_listFiles

Listing(d) == {f \in Md5s : d[f].exists}

-----------------------------------------------------------------------------
(* Processes and connections *)

Init ==
  /\ disk = [f \in Md5s |-> Absent]
  /\ m_listFiles = {}
  /\ opened = [f \in Md5s |-> 0]
  /\ unflushed = {}
  /\ orphans = {}
  /\ sess = [c \in Conns |-> Closed]
  /\ client = [c \in Conns |-> Idle]
  /\ reply = NoReply

Buffered == orphans \cup UNION {sess[c].m_fp.pending : c \in Conns}

\* The process ends and starts again.  exit(), also called by the signal
\* handler, writes the buffers of open streams; SIGKILL, or an abort in a
\* handler, does not.  FileManager::Init lists what is in filecache/.
NewProcess ==
  \E d \in {disk, Flushed(disk, Buffered)} :
    /\ disk' = d
    /\ m_listFiles' = Listing(d)
    /\ opened' = [f \in Md5s |-> 0]
    /\ unflushed' = {}
    /\ orphans' = {}
    /\ sess' = [c \in Conns |-> Closed]
    /\ client' = [c \in Conns |-> Idle]
    /\ reply' = NoReply

Restart == Restarts /\ NewProcess

OnConnection(c) ==
  /\ sess[c].state = "none"
  /\ sess' = [sess EXCEPT ![c] = Fresh]
  /\ reply' = NoReply
  /\ UNCHANGED <<disk, m_listFiles, opened, unflushed, orphans, client>>

\* Process returns FALSE: forceClose only schedules the close, and OnRead goes
\* on with the packets that are in the buffer.
OnUndecodable(c) ==
  /\ sess[c].state = "kConnected"
  /\ sess' = [sess EXCEPT ![c].state = "kDisconnecting"]
  /\ reply' = NoReply
  /\ UNCHANGED <<disk, m_listFiles, opened, unflushed, orphans, client>>

\* The session is destroyed; its destructor does not close m_fp.
OnClose(c) ==
  /\ sess[c].state # "none"
  /\ sess' = [sess EXCEPT ![c] = Closed]
  /\ orphans' = orphans \cup sess[c].m_fp.pending
  /\ client' = [client EXCEPT ![c] = Idle]
  /\ reply' = NoReply
  /\ UNCHANGED <<disk, m_listFiles, opened, unflushed>>

\* The client stops its transfer without closing the connection.
Cancel(c) ==
  /\ Cancels
  /\ client[c] # Idle
  /\ client' = [client EXCEPT ![c] = Idle]
  /\ reply' = NoReply
  /\ UNCHANGED <<disk, m_listFiles, opened, unflushed, orphans, sess>>

-----------------------------------------------------------------------------
(* Requests: the reply, or none, decides what the client does next. *)

\* External: the next request of a client that runs one transfer at a time.
Requests(c, op, f) ==
  /\ sess[c].state # "none"
  /\ client[c] = Idle \/ (client[c].op = op /\ client[c].file = f)

\* A client that gets no reply waits: "refused" if the disk is the reason.
Unanswered(c, waits) ==
  /\ reply' = NoReply
  /\ client' = [client EXCEPT ![c] = [Idle EXCEPT !.op = waits]]

\* TcpConnection::send drops the reply if the connection is being closed.
Answer(c, r, next) ==
  IF sess[c].state = "kConnected"
  THEN /\ reply' = r
       /\ client' = [client EXCEPT ![c] = next]
  ELSE Unanswered(c, "waits")

\* IsFileExsit: nothing is written, m_fp stays as it is.
UploadKnown(c, f) ==
  /\ Requests(c, "up", f)
  /\ IsFileExsit(f)
  /\ m_listFiles' = m_listFiles \cup {f}
  /\ Answer(c, Finished(f), Idle)
  /\ UNCHANGED <<disk, opened, unflushed, orphans, sess>>

\* Mutated: no return after the failed fopen.
UploadNotOpenedGoesOn(c, f) ==
  /\ "open" \in Faults
  /\ Requests(c, "up", f)
  /\ ~IsFileExsit(f)
  /\ client[c].next = 0
  /\ sess' = [sess EXCEPT ![c].m_fp = NoFile]
  /\ Answer(c, Reply("up", f, 0, Size[f], {}), [op |-> "up", file |-> f, next |-> 1])
  /\ UNCHANGED <<disk, m_listFiles, opened, unflushed, orphans>>

\* The fopen of the first block fails; the stream m_fp held is lost.
UploadNotOpened(c, f) ==
  /\ "open" \in Faults
  /\ Requests(c, "up", f)
  /\ ~IsFileExsit(f)
  /\ client[c].next = 0
  /\ sess' = [sess EXCEPT ![c].m_fp = NoFile]
  /\ orphans' = orphans \cup sess[c].m_fp.pending
  /\ Unanswered(c, "waits")
  /\ UNCHANGED <<disk, m_listFiles, opened, unflushed>>

(***************************************************************************)
(* OnUploadFileResponse for a file that is not known.  Block 0 opens and   *)
(* truncates the file (a stream m_fp already held is lost), later blocks   *)
(* use m_fp.  fwrite of no bytes counts as an error, without a reply.      *)
(***************************************************************************)
UploadStreamReused(c, f) ==     \* Mutated: an open m_fp is used again.
  IF sess[c].m_fp = NoFile THEN Stream(f, "w") ELSE sess[c].m_fp

UploadStream(c, f) ==
  IF client[c].next = 0 THEN Stream(f, "w") ELSE sess[c].m_fp

UploadDisk(c, f) ==
  IF client[c].next = 0
  THEN [disk EXCEPT ![f] = Present(<<>>)]
  ELSE Flushed(disk, sess[c].m_fp.pending)

Opening(c, f) ==
  IF client[c].next = 0
  THEN /\ opened[f] < MaxOpened
       /\ opened' = [opened EXCEPT ![f] = @ + 1]
       /\ orphans' = orphans \cup sess[c].m_fp.pending
  ELSE UNCHANGED <<opened, orphans>>

UploadEmpty(c, f) ==
  /\ Requests(c, "up", f)
  /\ ~IsFileExsit(f)
  /\ Size[f] = 0
  /\ Opening(c, f)
  /\ disk' = UploadDisk(c, f)
  /\ sess' = [sess EXCEPT ![c].m_fp = UploadStream(c, f)]
  /\ Unanswered(c, "waits")
  /\ UNCHANGED <<m_listFiles, unflushed>>

\* The block of a request, for a file that is not known.
UploadWrite(c, f) == Write(UploadStream(c, f).file, client[c].next, Block(f, client[c].next))

CanUpload(c, f) ==
  /\ Requests(c, "up", f)
  /\ ~IsFileExsit(f)
  /\ UploadStream(c, f) # NoFile
  /\ Opening(c, f)

\* fwrite fails: no reply, and m_fp stays open.  If the fseek before it could
\* not write the buffer either, which is not tested, the buffer is kept.
UploadRefused(c, f) ==
  LET fp == UploadStream(c, f)
  IN  /\ "write" \in Faults
      /\ CanUpload(c, f)
      /\ client[c].next < Size[f]
      /\ \E kept \in {{}, fp.pending} :
           /\ disk' \in IF kept = {} THEN Refused(UploadDisk(c, f), UploadWrite(c, f))
                        ELSE {disk}
           /\ sess' = [sess EXCEPT ![c].m_fp = [fp EXCEPT !.pending = kept]]
      /\ Unanswered(c, "refused")
      /\ UNCHANGED <<m_listFiles, unflushed>>

\* A block that is not the last; it reaches the disk now or at the next flush.
UploadBlock(c, f) ==
  LET k  == client[c].next
      fp == UploadStream(c, f)
      w  == UploadWrite(c, f)
  IN  /\ CanUpload(c, f)
      /\ k + 1 < Size[f]
      /\ \E late \in SUBSET {w} :
           /\ disk' = Flushed(UploadDisk(c, f), {w} \ late)
           /\ sess' = [sess EXCEPT ![c].m_fp =
                         [fp EXCEPT !.pos = k + 1, !.pending = late]]
      /\ Answer(c, Reply("up", f, k, Size[f], {}),
                [op |-> "up", file |-> f, next |-> k + 1])
      /\ UNCHANGED <<m_listFiles, unflushed>>

\* The last block: addFile, then ResetFile, which ignores what fclose returns
\* when it cannot write the buffer.
UploadEnds(c, f) ==
  /\ CanUpload(c, f)
  /\ \/ /\ disk' = Flushed(UploadDisk(c, f), {UploadWrite(c, f)})
        /\ UNCHANGED unflushed
     \/ /\ "write" \in Faults
        /\ disk' \in Refused(UploadDisk(c, f), UploadWrite(c, f))
        /\ unflushed' = unflushed \cup {f}
  /\ sess' = [sess EXCEPT ![c] = ResetFile([@ EXCEPT !.m_fp = UploadStream(c, f)])]
  /\ m_listFiles' = m_listFiles \cup {f}
  /\ Answer(c, Finished(f), Idle)

\* Mutated: the end of the file is compared with the wrong offset: one block
\* too early, or with the offset before the block is added.
UploadLastEarly(c, f) == client[c].next + 2 = Size[f] /\ UploadEnds(c, f)

UploadLastLate(c, f) == client[c].next = Size[f] /\ Size[f] # 0 /\ UploadEnds(c, f)

UploadLast(c, f) == client[c].next + 1 = Size[f] /\ UploadEnds(c, f)

-----------------------------------------------------------------------------
(* OnDownloadFileResponse.  The offset in the request is not used. *)

\* The file is not known, or known and not in filecache/, or does not open.
DownloadNotFound(c, f) ==
  /\ Requests(c, "down", f)
  /\ \/ ~IsFileExsit(f)
     \/ sess[c].m_fp = NoFile /\ ("open" \in Faults \/ ~disk[f].exists)
  /\ m_listFiles' = ListedBy(f)
  /\ Unanswered(c, "waits")
  /\ UNCHANGED <<disk, opened, unflushed, orphans, sess>>

\* An empty file is opened and not answered; m_fp stays open.
DownloadEmpty(c, f) ==
  /\ Requests(c, "down", f)
  /\ IsFileExsit(f)
  /\ sess[c].m_fp = NoFile
  /\ disk[f].exists /\ disk[f].blocks = <<>>
  /\ sess' = [sess EXCEPT ![c].m_fp = Stream(f, "r+"), ![c].m_filesize = 0]
  /\ m_listFiles' = ListedBy(f)
  /\ Unanswered(c, "waits")
  /\ UNCHANGED <<disk, opened, unflushed, orphans>>

\* The session when the reply is made: m_fp is opened unless it is open.
DownloadSession(c, f) ==
  IF sess[c].m_fp = NoFile
  THEN [sess[c] EXCEPT !.m_fp = Stream(f, "r+"),
                       !.m_filesize = Len(disk[f].blocks)]
  ELSE sess[c]

CanDownload(c, f) ==
  /\ Requests(c, "down", f)
  /\ IsFileExsit(f)
  /\ sess[c].m_fp = NoFile => disk[f].exists /\ disk[f].blocks # <<>>

\* currentSendSize, in blocks.
SendSize(s) ==
  IF s.m_filesize <= s.m_offset + 1 THEN s.m_filesize - s.m_offset ELSE 1

\* fread; if it fails the zeros of `buffer' are sent and the stream stays
\* where it is, while m_offset advances.
Readable(fp) == fp.mode = "r+" /\ fp.pos < Len(disk[fp.file].blocks)

ReadBlock(fp) ==
  IF Readable(fp) THEN disk[fp.file].blocks[fp.pos + 1] ELSE Hole

DownloadBlock(c, f) ==
  LET s    == DownloadSession(c, f)
      n    == SendSize(s)
      sent == [s EXCEPT !.m_offset = @ + n,
                        !.m_fp.pos = IF Readable(s.m_fp) THEN @ + n ELSE @]
      done == sent.m_offset = sent.m_filesize
  IN  /\ CanDownload(c, f)
      /\ n >= 0
      /\ Answer(c, Reply("down", f, s.m_offset, s.m_filesize,
                         IF n = 0 THEN {} ELSE {ReadBlock(s.m_fp)}),
                IF done THEN Idle
                ELSE [op |-> "down", file |-> f, next |-> client[c].next + 1])
      /\ sess' = [sess EXCEPT ![c] = IF done THEN ResetFile(sent) ELSE sent]
      /\ disk' \in {Flushed(disk, writes) :
                     writes \in IF done THEN Closings(s.m_fp) ELSE {{}}}
      /\ m_listFiles' = ListedBy(f)
      /\ UNCHANGED <<opened, unflushed, orphans>>

\* m_offset of an earlier transfer is beyond the end of the file: filedata is
\* given a negative length, and append throws.
DownloadAborts(c, f) ==
  /\ CanDownload(c, f)
  /\ SendSize(DownloadSession(c, f)) < 0
  /\ NewProcess

\* Process, for the two commands it knows.
Upload(c) ==
  \E f \in Md5s :
    \/ UploadKnown(c, f)
    \/ UploadEmpty(c, f)
    \/ UploadBlock(c, f)
    \/ UploadLast(c, f)

UploadFails(c) == \E f \in Md5s : UploadNotOpened(c, f) \/ UploadRefused(c, f)

Download(c) ==
  \E f \in Md5s :
    \/ DownloadNotFound(c, f)
    \/ DownloadEmpty(c, f)
    \/ DownloadBlock(c, f)
    \/ DownloadAborts(c, f)

Next ==
  \/ \E c \in Conns :
       \/ OnConnection(c)
       \/ OnUndecodable(c)
       \/ OnClose(c)
       \/ Cancel(c)
       \/ Upload(c)
       \/ UploadFails(c)
       \/ Download(c)
  \/ Restart

Spec == Init /\ [][Next]_vars

\* A client that has begun a transfer goes on with it, the loop handles every
\* request that arrives, and it runs the close that forceClose has queued.  No
\* fault is ever due: a request that fails disables Continues.
Continues(c) == client[c] # Idle /\ (Upload(c) \/ Download(c))
Disconnects(c) == sess[c].state = "kDisconnecting" /\ OnClose(c)

FairSpec ==
  /\ Spec
  /\ \A c \in Conns : WF_vars(Continues(c)) /\ WF_vars(Disconnects(c))

-----------------------------------------------------------------------------
(* Properties *)

\* Files, streams, sessions and clients are well typed.
TypeOK ==
  /\ disk \in [Md5s -> [exists : BOOLEAN, blocks : Seq(Blocks)]]
  /\ m_listFiles \subseteq Md5s
  /\ opened \in [Md5s -> Nat]
  /\ unflushed \subseteq m_listFiles
  /\ orphans \subseteq Writes
  /\ sess \in [Conns -> [state : {"none", "kConnected", "kDisconnecting"},
                         m_fp : FileStar, m_offset : Nat, m_filesize : Nat]]
  /\ client \in [Conns -> [op : {"idle", "up", "down", "waits", "refused"},
                           file : Md5s \cup {"none"}, next : Nat]]

\* A client that runs one transfer at a time and waits for every reply never
\* gets OnUploadFileResponse to its fseek and fwrite with a null pointer or the
\* stream of another file: in the middle of an upload m_fp is the stream its
\* first block opened, whatever was cancelled or left open on the connection
\* before.  A client that goes on after an unanswered block is not covered.
UploadHasStream ==
  \A c \in Conns :
    client[c].op = "up" =>
      /\ sess[c].m_fp.file = client[c].file
      /\ sess[c].m_fp.mode = "w"

\* A file that is listed and that this process opened for writing only once is
\* whole, unless the fclose of that upload failed: a single uploader that
\* reaches the last block leaves nothing in a buffer and no hole, whatever other
\* transfers do and whichever fwrite the disk refused before.
SingleUploadWhole ==
  \A f \in Md5s \ CwdFiles :
    f \in m_listFiles \ unflushed /\ opened[f] = 1
      => disk[f] = Present(Whole(f))

\* Every block of a file is the one of that name and position, or incomplete:
\* uploads of different files never get into each other's file, not even by
\* buffers that are written when a later transfer closes the stream or at exit.
BlocksBelong ==
  \A f \in Md5s : \A i \in DOMAIN disk[f].blocks :
    disk[f].blocks[i] \in {Block(f, i - 1), Hole}

\* A file that is whole and listed stays so for ever: neither a second uploader
\* that was in the middle of it, nor a write the disk refuses, nor the buffer of
\* a stream that a closed session leaked, nor a restart damages it.
WholeFilesStay ==
  [][\A f \in m_listFiles :
       disk[f] = Present(Whole(f)) => f \in m_listFiles' /\ disk'[f] = disk[f]]_vars

\* A transfer in its middle, of which a request was answered, does not go on for
\* ever and does not get stuck: the offsets of the session reach the size of the
\* file, or the connection is closed or the process ends.  The one exception is
\* an fwrite that the disk refuses, which is not answered.  (First requests that
\* are never answered, for files that do not open, are empty, unknown or only in
\* the working directory, are no transfer in its middle.)
TransfersEnd ==
  \A c \in Conns :
    client[c].op \in {"up", "down"} ~> client[c].op \in {"idle", "refused"}

-----------------------------------------------------------------------------
(* What comments of the source say, and the code does not ensure. *)

\* offset = filesize = -1 means that the upload is complete.
FinishedMeansWhole ==
  reply.op = "up" /\ reply.offset = -1
    => disk[reply.file] = Present(Whole(reply.file))

\* The data of a download reply is data of the file it names.
DataOfNamedFile ==
  reply.op = "down" => reply.data \subseteq {Block(reply.file, reply.offset)}
=============================================================================
