------------------------------- MODULE LogSync ------------------------------
(***************************************************************************)
(* The app's copies of the device's log files (LogRepository.kt), the      *)
(* device's answers about them (FileBrowser.cpp), and the link between.    *)
(* A sync lists the directory page by page, compares the sizes with those  *)
(* it saved and reads what is new in chunks.  The device appends to the    *)
(* files meanwhile, deletes and recreates them; requests and answers may   *)
(* be lost; and a request is registered as ours only after it was sent, so *)
(* that its answer may come too early and be taken for somebody else's.    *)
(*                                                                         *)
(* One directory, that of the system log, the only one with a delete       *)
(* command; power and toggle logs go through the same statements.          *)
(*                                                                         *)
(* The device counts bytes, the app the characters it made of them.  In a  *)
(* file of ASCII text they are the same, and a byte is <<generation of the *)
(* file, its place>>.  Of other text the model keeps how many characters   *)
(* the bytes of a chunk became, any number up to theirs, and of which file *)
(* they are: <<generation, 0>>.                                            *)
(***************************************************************************)
EXTENDS Integers, Sequences, FiniteSets, SequencesExt

CONSTANTS Files,        \* the names in the directory, numbered in its order
          Lasting,      \* the names of files that exist and that nobody deletes
          Ascii,        \* the names of files that hold nothing but ASCII text
          PageLimit,    \* DIR_LIST_PAGE_LIMIT
          ChunkLimit,   \* bytes in a chunk, 1024
          MaxSize,      \* bound, per file: the bytes of each file that has the name in turn
          MaxMishaps,   \* bound: losses, early answers, timeouts that hit a later sync,
                        \* syncs begun over a download
          MaxTimers     \* bound: timeouts of ended syncs still running

ASSUME SyncAssumption ==
  /\ Files \subseteq Nat /\ IsFiniteSet(Files) /\ Lasting \subseteq Files /\ Ascii \subseteq Files
  /\ {PageLimit, ChunkLimit} \subseteq Nat \ {0}
  /\ MaxSize \in [Files -> Seq(Nat \ {0})] /\ \A f \in Files : MaxSize[f] # <<>>
  /\ {MaxMishaps, MaxTimers} \subseteq Nat

VARIABLES file,         \* the device's files: generation and size, 0 when absent
          asked,        \* commands on their way to the device, in order
          answers,      \* responses on their way to the app, in order
          unregistered, \* requests sent whose id is not yet remembered
          syncing,      \* _isSyncing
          timers,       \* thirty-second timeouts still running
          active,       \* activeListDirReqIds
          page,         \* pendingDirPages: of each file the sizes of its entries so far,
                        \* the total expected and the offset
          session,      \* activeReadFileSessions: id and offset awaited
          buffer,       \* pendingFileBuffers
          copy,         \* raw content in the preferences
          saved,        \* raw size in the preferences, -1 when there is none
          mishaps,
          doubtful      \* history: see NoteOverlaps and Create

deviceVars == file
linkVars   == <<asked, answers, unregistered>>
listVars   == <<syncing, timers, active, page>>
readVars   == <<session, buffer>>
copyVars   == <<copy, saved>>
vars == <<file, linkVars, listVars, readVars, copyVars, mishaps, doubtful>>

None == <<>>
Absent(f) == file[f].size = 0
Text(g, n) == [i \in 1..n |-> <<g, i>>]
Present == {f \in Files : ~Absent(f)}

UnderWay == ToSet(asked) \cup ToSet(answers) \cup unregistered
Aimed(f) == {m \in UnderWay : m.kind \in {"read", "chunk"} /\ m.file = f}
Listing  == {m \in UnderWay : m.kind \in {"list", "entries"}}

\* generateReqId(): an id that nothing still remembers, and the k-th of those asked for at once.
NewId(used) == CHOOSE i \in 1..Cardinality(used) + 1 : i \notin used
ListId    == NewId(active \cup {m.id : m \in Listing})
ReadId(f, k) ==
  LET used == {m.id : m \in Aimed(f)} \cup (IF session[f] = None THEN {} ELSE {session[f].id})
  IN  NewId(used \cup 1..(k - 1) * (Cardinality(used) + 1))

ListFrom(o)       == [kind |-> "list", from |-> o, id |-> ListId]
ReadFrom(f, o, k) == [kind |-> "read", file |-> f, from |-> o, id |-> ReadId(f, k)]

\* The requests rs are sent, each by a coroutine of its own, and not yet remembered.
Send(rs) ==
  /\ asked' = asked \o SetToSeq(rs)
  /\ unregistered' = unregistered \cup rs

-----------------------------------------------------------------------------
(* The device *)

Append1(f) ==
  /\ ~Absent(f) /\ file[f].size < MaxSize[f][file[f].gen]
  /\ file' = [file EXCEPT ![f].size = @ + 1]
  /\ UNCHANGED <<linkVars, listVars, readVars, copyVars, mishaps, doubtful>>

\* A file is written under a name of which the app still holds something.
Create(f) ==
  /\ Absent(f) /\ file[f].gen < Len(MaxSize[f])
  /\ file' = [file EXCEPT ![f] = [gen |-> @.gen + 1, size |-> 1]]
  /\ doubtful' = IF saved[f] # -1 \/ buffer[f] # None \/ Aimed(f) # {}
                 THEN doubtful \cup {f} ELSE doubtful
  /\ UNCHANGED <<linkVars, listVars, readVars, copyVars, mishaps>>

\* The oldest log makes room.
CleanUp(f) ==
  /\ ~Absent(f) /\ f \notin Lasting
  /\ file' = [file EXCEPT ![f].size = 0]
  /\ UNCHANGED <<linkVars, listVars, readVars, copyVars, mishaps, doubtful>>

\* FileBrowser::listDir: the files in order from the offset on, at most a page.
Place(f) == Cardinality({g \in Present : g < f})
ListDir(m) ==
  LET listed == {f \in Present : m.from <= Place(f) /\ Place(f) < m.from + PageLimit}
      total  == Cardinality(Present)
  IN  [kind |-> "entries", id |-> m.id, sizes |-> [f \in listed |-> file[f].size],
       total |-> total, more |-> m.from + PageLimit < total]

\* FileBrowser::readFile: a chunk of the file as it is now, of which the app makes n characters.
ChunkBytes(f, o) ==
  IF file[f].size <= o THEN 0
  ELSE IF file[f].size <= o + ChunkLimit THEN file[f].size - o ELSE ChunkLimit

Characters(f, bytes) == IF f \in Ascii \/ bytes = 0 THEN {bytes} ELSE 1..bytes

ReadFile(m, n) ==
  LET f == m.file IN
  IF Absent(f) THEN [kind |-> "missing", file |-> f]
  ELSE [kind |-> "chunk", id |-> m.id, file |-> f, from |-> m.from,
        data |-> [i \in 1..n |-> <<file[f].gen, IF f \in Ascii THEN m.from + i ELSE 0>>],
        size |-> file[f].size,
        more |-> m.from + ChunkBytes(f, m.from) < file[f].size]

DeleteItem(m) == [kind |-> "deleted", file |-> m.file, ok |-> ~Absent(m.file)]

Respond ==
  /\ asked # <<>> /\ asked' = Tail(asked)
  /\ LET m == Head(asked) IN
       \/ m.kind = "list" /\ answers' = Append(answers, ListDir(m)) /\ UNCHANGED file
       \/ /\ m.kind = "read" /\ UNCHANGED file
          /\ \E n \in Characters(m.file, ChunkBytes(m.file, m.from)) :
               answers' = Append(answers, ReadFile(m, n))
       \/ /\ m.kind = "delete" /\ answers' = Append(answers, DeleteItem(m))
          /\ file' = [file EXCEPT ![m.file].size = 0]
  /\ UNCHANGED <<unregistered, listVars, readVars, copyVars, mishaps, doubtful>>

\* A command or a response is lost (QoS 0, a reconnection, a full buffer).
Lose ==
  /\ mishaps < MaxMishaps
  /\ mishaps' = mishaps + 1
  /\ \/ asked # <<>> /\ asked' = Tail(asked) /\ UNCHANGED answers
     \/ answers # <<>> /\ answers' = Tail(answers) /\ UNCHANGED asked
  /\ UNCHANGED <<file, unregistered, listVars, readVars, copyVars, doubtful>>

-----------------------------------------------------------------------------
(* The app: a sync and its timeout *)

NoEntries == [f \in Files |-> <<>>]

SyncSysLogs ==
  /\ ~syncing
  /\ timers < MaxTimers
  /\ IF UnderWay = {} THEN UNCHANGED mishaps
     ELSE mishaps < MaxMishaps /\ mishaps' = mishaps + 1
  /\ syncing' = TRUE
  /\ timers' = timers + 1
  /\ Send({ListFrom(0)})
  /\ UNCHANGED <<file, answers, active, page, readVars, copyVars, doubtful>>

\* The timeout of a sync that ended, or that waits in vain, or (a mishap) that
\* of an earlier one, while the present sync still has something under way.
Timeout ==
  /\ timers > 0
  /\ timers' = timers - 1
  /\ IF syncing
       THEN /\ IF Listing = {} THEN UNCHANGED mishaps
               ELSE mishaps < MaxMishaps /\ mishaps' = mishaps + 1
            /\ syncing' = FALSE /\ active' = {} /\ page' = None
       ELSE UNCHANGED <<syncing, active, page, mishaps>>
  /\ UNCHANGED <<file, linkVars, readVars, copyVars, doubtful>>

\* Bound: one command to delete a file at a time.
DeleteSysLogFile(f) ==
  /\ ~Absent(f) /\ f \notin Lasting
  /\ [kind |-> "delete", file |-> f] \notin UnderWay
  /\ asked' = Append(asked, [kind |-> "delete", file |-> f])
  /\ UNCHANGED <<file, answers, unregistered, listVars, readVars, copyVars, mishaps, doubtful>>

\* The request was sent: its id is remembered, and with the first page a new listing begins.
Register ==
  \E r \in unregistered :
    /\ unregistered' = unregistered \ {r}
    /\ \/ /\ r.kind = "list"
          /\ active' = active \cup {r.id}
          /\ page' = IF r.from = 0 THEN [entries |-> NoEntries, total |-> 0, from |-> 0] ELSE page
          /\ UNCHANGED session
       \/ /\ r.kind = "read"
          /\ session' = [session EXCEPT ![r.file] = [id |-> r.id, from |-> r.from]]
          /\ UNCHANGED <<active, page>>
    /\ UNCHANGED <<file, asked, answers, syncing, timers, buffer, copyVars, mishaps, doubtful>>

-----------------------------------------------------------------------------
(* The app: an answer arrives *)

\* It is the answer to a request that is not yet remembered: a mishap.
Early(m) == \E r \in unregistered :
  /\ r.id = m.id
  /\ \/ r.kind = "list" /\ m.kind = "entries"
     \/ r.kind = "read" /\ m.kind = "chunk" /\ r.file = m.file

Received(m) ==
  /\ answers # <<>> /\ m = Head(answers)
  /\ answers' = Tail(answers)

IgnoreList(m) ==
  /\ Received(m) /\ m.kind = "entries"
  /\ m.id \notin active \/ page = None
  /\ IF Early(m) THEN mishaps < MaxMishaps /\ mishaps' = mishaps + 1 ELSE UNCHANGED mishaps
  /\ active' = active \ {m.id}
  /\ UNCHANGED <<file, asked, unregistered, syncing, timers, page, readVars, copyVars, doubtful>>

\* Ours: a page of the listing under way.
ListAccepted(m) == Received(m) /\ m.kind = "entries" /\ m.id \in active /\ page # None
TotalChanged(m) == page.total # 0 /\ m.total > 0 /\ m.total # page.total

RestartListing(m) ==
  /\ ListAccepted(m) /\ TotalChanged(m)
  /\ active' = active \ {m.id}
  /\ page' = [entries |-> NoEntries, total |-> m.total, from |-> 0]
  /\ LET r == ListFrom(0) IN asked' = Append(asked, r) /\ unregistered' = unregistered \cup {r}
  /\ UNCHANGED <<file, syncing, timers, readVars, copyVars, mishaps, doubtful>>

\* pendingEntries with those of this page.  A file is listed again when the files moved
\* by a page between two pages, or when two listings feed one list.
Entries(m) ==
  [f \in Files |-> IF f \in DOMAIN m.sizes THEN Append(page.entries[f], m.sizes[f]) ELSE page.entries[f]]

\* The page after the one of which the offset was never advanced.
NextPageAgain(m) ==
  /\ ListAccepted(m) /\ ~TotalChanged(m) /\ m.more
  /\ active' = active \ {m.id}
  /\ page' = [page EXCEPT !.entries = Entries(m), !.total = m.total]
  /\ Send({ListFrom(page.from)})
  /\ UNCHANGED <<file, syncing, timers, readVars, copyVars, mishaps, doubtful>>

NextPage(m) ==
  /\ ListAccepted(m) /\ ~TotalChanged(m) /\ m.more
  /\ active' = active \ {m.id}
  /\ page' = [entries |-> Entries(m),
              total |-> IF page.total = 0 THEN m.total ELSE page.total,
              from  |-> page.from + PageLimit]
  /\ Send({ListFrom(page.from + PageLimit)})
  /\ UNCHANGED <<file, syncing, timers, readVars, copyVars, mishaps, doubtful>>

\* processDirEntries goes through the entries es of a file in their order: an entry that is
\* smaller than what is saved removes it, for those behind it too, and one that is not of
\* the size saved has its download begun.
SavedAt(f, es, i) == IF \E j \in 1..(i - 1) : es[j] < saved[f] THEN -1 ELSE saved[f]
Wanted(f, es)   == {i \in 1..Len(es) : es[i] # SavedAt(f, es, i)}
Replaced(f, es) == \E i \in 1..Len(es) : es[i] < saved[f]
ReadStart(f, es, i) ==
  LET s == SavedAt(f, es, i) IN IF s = -1 \/ es[i] < s THEN 0 ELSE s
Reads(f, es) == {ReadFrom(f, ReadStart(f, es, i), i) : i \in Wanted(f, es)}

\* A download that is begun over one that never ended, or with another of the same file.
NoteOverlaps(entries) ==
  doubtful' = doubtful \cup
    {f \in Files : /\ Wanted(f, entries[f]) # {}
                   /\ \/ buffer[f] # None \/ Aimed(f) # {}
                      \/ \E i, j \in Wanted(f, entries[f]) : i # j}

ProcessDirEntries(m) ==
  /\ ListAccepted(m) /\ ~TotalChanged(m) /\ ~m.more
  /\ active' = active \ {m.id}
  /\ page' = None
  /\ LET entries == Entries(m) IN
       /\ Send(UNION {Reads(f, entries[f]) : f \in Files})
       /\ copy'  = [f \in Files |-> IF Replaced(f, entries[f]) THEN <<>> ELSE copy[f]]
       /\ saved' = [f \in Files |-> IF Replaced(f, entries[f]) THEN -1 ELSE saved[f]]
       /\ NoteOverlaps(entries)
  /\ syncing' = FALSE
  /\ UNCHANGED <<file, timers, readVars, mishaps>>

ReadMissing(m) ==
  /\ Received(m) /\ m.kind = "missing"
  /\ session' = [session EXCEPT ![m.file] = None]
  /\ buffer' = [buffer EXCEPT ![m.file] = None]
  /\ UNCHANGED <<file, asked, unregistered, listVars, copyVars, mishaps, doubtful>>

Expected(m) == session[m.file] = [id |-> m.id, from |-> m.from]

IgnoreRead(m) ==
  /\ Received(m) /\ m.kind = "chunk" /\ ~Expected(m)
  /\ IF Early(m) THEN mishaps < MaxMishaps /\ mishaps' = mishaps + 1 ELSE UNCHANGED mishaps
  /\ UNCHANGED <<file, asked, unregistered, listVars, readVars, copyVars, doubtful>>

\* A buffer that begins empty wherever the download does.
KeptNothing(f, o) == <<>>

\* Where a buffer begins: with the part of the copy before the offset.
Kept(f, o) ==
  CASE o = 0 -> <<>>
    [] o > 0 /\ saved[f] > 0 /\ saved[f] <= Len(copy[f]) -> SubSeq(copy[f], 1, saved[f])
    [] o > 0 /\ ~(saved[f] > 0 /\ saved[f] <= Len(copy[f])) ->
         IF o <= Len(copy[f]) THEN SubSeq(copy[f], 1, o) ELSE copy[f]

Buffered(m) == (IF buffer[m.file] = None THEN Kept(m.file, m.from) ELSE buffer[m.file].text) \o m.data

ReadMore(m) ==
  /\ Received(m) /\ m.kind = "chunk" /\ Expected(m) /\ m.more
  /\ buffer' = [buffer EXCEPT ![m.file] = [text |-> Buffered(m)]]
  /\ Send({ReadFrom(m.file, m.from + Len(m.data), 1)})
  /\ UNCHANGED <<file, listVars, session, copyVars, mishaps, doubtful>>

\* The size is that of the answer, not the listed one.
ReadLast(m) ==
  /\ Received(m) /\ m.kind = "chunk" /\ Expected(m) /\ ~m.more
  /\ session' = [session EXCEPT ![m.file] = None]
  /\ buffer' = [buffer EXCEPT ![m.file] = None]
  /\ copy' = [copy EXCEPT ![m.file] = Buffered(m)]
  /\ saved' = [saved EXCEPT ![m.file] = m.size]
  /\ UNCHANGED <<file, asked, unregistered, listVars, mishaps, doubtful>>

HandleDeleteItemResult(m) ==
  /\ Received(m) /\ m.kind = "deleted"
  /\ IF m.ok
       THEN /\ copy' = [copy EXCEPT ![m.file] = <<>>]
            /\ saved' = [saved EXCEPT ![m.file] = -1]
       ELSE UNCHANGED copyVars
  /\ UNCHANGED <<file, asked, unregistered, listVars, readVars, mishaps, doubtful>>

Arrival ==
  /\ answers # <<>>
  /\ LET m == Head(answers) IN
       \/ IgnoreList(m) \/ RestartListing(m) \/ NextPage(m) \/ ProcessDirEntries(m)
       \/ ReadMissing(m) \/ IgnoreRead(m) \/ ReadMore(m) \/ ReadLast(m)
       \/ HandleDeleteItemResult(m)

-----------------------------------------------------------------------------

SyncInit ==
  /\ file \in [Files -> {[gen |-> 0, size |-> 0], [gen |-> 1, size |-> 1]}]
  /\ Lasting \subseteq Present
  /\ asked = <<>> /\ answers = <<>> /\ unregistered = {}
  /\ syncing = FALSE /\ timers = 0 /\ active = {} /\ page = None
  /\ session = [f \in Files |-> None] /\ buffer = [f \in Files |-> None]
  /\ copy = [f \in Files |-> <<>>] /\ saved = [f \in Files |-> -1]
  /\ mishaps = 0 /\ doubtful = {}

SyncNext ==
  \/ \E f \in Files : Append1(f) \/ Create(f) \/ CleanUp(f) \/ DeleteSysLogFile(f)
  \/ Respond \/ Lose
  \/ SyncSysLogs \/ Timeout \/ Register \/ Arrival

SyncSafety == SyncInit /\ [][SyncNext]_vars

\* The device answers, the link delivers, coroutines and timeouts run, and the
\* log screen is opened again and again.
SyncSpec ==
  /\ SyncSafety
  /\ WF_vars(Respond) /\ WF_vars(Arrival) /\ WF_vars(Register)
  /\ WF_vars(Timeout) /\ WF_vars(SyncSysLogs)

-----------------------------------------------------------------------------
(* Properties *)

\* The copy of a file of ASCII text is its text up to the size saved with it, however
\* the file grew between the listing and the chunks, syncs overlapped and messages were
\* lost; unless a download was begun over one that had not ended, or with another one
\* for a second entry of the file, or the device recreated a file of which the app
\* still held something.  Of other text it is not so: offsets fall behind the bytes read.
CopyIsTheFile ==
  \A f \in (Present \cap Ascii) \ doubtful :
    saved[f] # -1 => copy[f] = Text(file[f].gen, saved[f])

\* When the files and the link are quiet, syncs bring every copy up to the size of the
\* file, also where characters are counted for bytes: no lost answer, early answer or
\* misplaced timeout blocks later syncs, and no offset that falls behind keeps a download
\* from its end.
CopiesCatchUp == <>[](\A f \in Present : saved[f] = file[f].size)
=============================================================================
