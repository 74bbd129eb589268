---------------------------- MODULE LogSync_proofs --------------------------
(***************************************************************************)
(* Copies are true: what the app holds of a file of ASCII text is the      *)
(* file's text up to the size saved with it, for any number of files,      *)
(* sizes and generations, any length of a page and of a chunk and any      *)
(* number of mishaps.  It is a matter of each file by itself: of a file    *)
(* that is neither recreated under the app's hands nor downloaded twice at *)
(* once, one request or chunk is under way at most, and what is buffered   *)
(* is the text before it.                                                  *)
(***************************************************************************)
EXTENDS LogSync, FiniteSetTheorems, SequenceTheorems, TLAPS

LEMMA Constants ==
  /\ Files \subseteq Nat /\ IsFiniteSet(Files) /\ Lasting \subseteq Files /\ Ascii \subseteq Files
  /\ PageLimit \in Nat \ {0} /\ ChunkLimit \in Nat \ {0}
BY SyncAssumption

USE Constants

Units == Nat \X Nat
Listings == UNION {[S -> Nat \ {0}] : S \in SUBSET Files}
Lists == [Files -> Seq(Nat \ {0})]

Requests ==
  [kind : {"list"}, from : Nat, id : Nat]
  \cup [kind : {"read"}, file : Files, from : Nat, id : Nat]
  \cup [kind : {"delete"}, file : Files]

Answers ==
  [kind : {"entries"}, id : Nat, sizes : Listings, total : Nat, more : BOOLEAN]
  \cup [kind : {"chunk"}, id : Nat, file : Files, from : Nat, data : Seq(Units), size : Nat, more : BOOLEAN]
  \cup [kind : {"missing"}, file : Files]
  \cup [kind : {"deleted"}, file : Files, ok : BOOLEAN]

FileTyped == file \in [Files -> [gen : Nat, size : Nat]]

LinkTyped ==
  /\ asked \in Seq(Requests) /\ answers \in Seq(Answers)
  /\ unregistered \subseteq Requests /\ IsFiniteSet(unregistered)
  /\ \A r \in unregistered : r.kind # "delete"

ListTyped ==
  /\ IsFiniteSet(active)
  /\ page # None => page.from \in Nat /\ page.entries \in Lists

ReadTyped == DOMAIN session = Files /\ DOMAIN buffer = Files

CopyTyped == DOMAIN copy = Files /\ saved \in [Files -> Nat \cup {-1}]

SyncTypeOK == FileTyped /\ LinkTyped /\ ListTyped /\ ReadTyped /\ CopyTyped

-----------------------------------------------------------------------------
(* Messages, queues and ids *)

\* The fields of a message are those of its kind.
LEMMA RequestIs ==
  ASSUME NEW m \in Requests
  PROVE  /\ m.kind \in {"list", "read", "delete"}
         /\ m.kind = "list" => m.from \in Nat /\ m.id \in Nat
         /\ m.kind = "read" => m.file \in Files /\ m.from \in Nat /\ m.id \in Nat
         /\ m.kind = "delete" => m.file \in Files
BY DEF Requests

LEMMA AnswerIs ==
  ASSUME NEW m \in Answers
  PROVE  /\ m.kind \in {"entries", "chunk", "missing", "deleted"}
         /\ m.kind = "entries" => m.id \in Nat /\ m.sizes \in Listings
         /\ m.kind = "chunk" => /\ m.file \in Files /\ m.from \in Nat /\ m.id \in Nat
                                /\ m.data \in Seq(Units) /\ m.size \in Nat /\ m.more \in BOOLEAN
         /\ m.kind = "missing" => m.file \in Files
         /\ m.kind = "deleted" => m.file \in Files /\ m.ok \in BOOLEAN
BY DEF Answers

LEMMA Popped ==
  ASSUME NEW S, NEW s \in Seq(S), s # <<>>
  PROVE  /\ Head(s) = s[1] /\ Head(s) \in S /\ 1 \in 1..Len(s)
         /\ Tail(s) \in Seq(S) /\ Len(Tail(s)) = Len(s) - 1 /\ Len(s) \in Nat
         /\ \A i \in 1..Len(Tail(s)) : i + 1 \in 1..Len(s) /\ Tail(s)[i] = s[i + 1]
OBVIOUS

LEMMA Pushed ==
  ASSUME NEW S, NEW s \in Seq(S), NEW m \in S
  PROVE  /\ Append(s, m) \in Seq(S) /\ Len(Append(s, m)) = Len(s) + 1 /\ Len(s) \in Nat
         /\ \A i \in 1..Len(s) : Append(s, m)[i] = s[i]
         /\ Append(s, m)[Len(s) + 1] = m
OBVIOUS

\* A finite set has an enumeration without repetitions.
LEMMA Enumerated ==
  ASSUME NEW S, IsFiniteSet(S)
  PROVE  /\ SetToSeq(S) \in Seq(S)
         /\ \A i, j \in 1..Len(SetToSeq(S)) : SetToSeq(S)[i] = SetToSeq(S)[j] => i = j
<1>1. Cardinality(S) \in Nat /\ ExistsBijection(1..Cardinality(S), S)
  BY FS_CardinalityType
<1>2. \E e \in [1..Cardinality(S) -> S] : IsInjective(e)
  BY <1>1 DEF ExistsBijection, Bijection, Injection
<1>3. SetToSeq(S) \in [1..Cardinality(S) -> S] /\ IsInjective(SetToSeq(S))
  BY <1>2 DEF SetToSeq
<1>4. SetToSeq(S) \in Seq(S)
  BY <1>1, <1>3, SeqDef
<1>5. Len(SetToSeq(S)) = Cardinality(S)
  BY <1>1, <1>3, <1>4
<1> QED  BY <1>3, <1>4, <1>5 DEF IsInjective

\* The requests that are sent join the queue, each once.
LEMMA SendIs ==
  ASSUME LinkTyped, NEW S, S \subseteq Requests, IsFiniteSet(S), Send(S)
  PROVE  /\ asked' \in Seq(Requests) /\ Len(asked') \in Nat
         /\ \A i \in 1..Len(asked) : asked'[i] = asked[i]
         /\ \A i \in 1..Len(asked') : i \in 1..Len(asked) \/ (i > Len(asked) /\ asked'[i] \in S)
         /\ \A i, j \in 1..Len(asked') : i > Len(asked) /\ j > Len(asked) /\ asked'[i] = asked'[j] => i = j
         /\ unregistered' = unregistered \cup S
<1> DEFINE e == SetToSeq(S)
<1>1. e \in Seq(S) /\ \A i, j \in 1..Len(e) : e[i] = e[j] => i = j
  BY Enumerated
<1>2. e \in Seq(Requests)
  BY <1>1, SeqMonotonic
<1>3. asked \in Seq(Requests) /\ asked' = asked \o e /\ unregistered' = unregistered \cup S
  BY DEF LinkTyped, Send
<1>4. Len(asked) \in Nat /\ Len(e) \in Nat
  BY <1>2, <1>3, LenProperties
<1>5. \A i \in 1..Len(e) : e[i] \in S
  BY <1>1, ElementOfSeq
<1> HIDE DEF e
<1>6. /\ asked' \in Seq(Requests) /\ Len(asked') = Len(asked) + Len(e)
      /\ \A i \in 1..Len(asked) + Len(e) : asked'[i] = IF i <= Len(asked) THEN asked[i] ELSE e[i - Len(asked)]
  BY <1>2, <1>3, ConcatProperties
<1>7. \A i \in 1..Len(asked') : i > Len(asked) => i - Len(asked) \in 1..Len(e) /\ asked'[i] = e[i - Len(asked)]
  BY <1>4, <1>6
<1>8. \A i \in 1..Len(asked) : asked'[i] = asked[i]
  BY <1>4, <1>6
<1>9. ASSUME NEW i \in 1..Len(asked')
      PROVE  i \in 1..Len(asked) \/ (i > Len(asked) /\ asked'[i] \in S)
  <2>1. i > Len(asked) => asked'[i] \in S
    BY <1>5, <1>7
  <2>2. i > Len(asked) \/ i \in 1..Len(asked)
    BY <1>4, <1>6
  <2> QED  BY <2>1, <2>2
<1>10. ASSUME NEW i \in 1..Len(asked'), NEW j \in 1..Len(asked'), i > Len(asked), j > Len(asked),
              asked'[i] = asked'[j]
       PROVE  i = j
  <2>1. i - Len(asked) = j - Len(asked)
    BY <1>1, <1>7, <1>10
  <2> QED  BY <1>4, <1>6, <2>1
<1> QED  BY <1>3, <1>4, <1>6, <1>8, <1>9, <1>10

\* The ids of finitely many messages are finitely many.
LEMMA IdsFinite ==
  ASSUME NEW M, IsFiniteSet(M)
  PROVE  IsFiniteSet({m.id : m \in M})
<1> DEFINE g == [m \in M |-> m.id]
<1>1. g \in Surjection(M, {m.id : m \in M})
  BY DEF Surjection
<1> QED  BY <1>1, FS_Surjection

LEMMA ToSetFinite ==
  ASSUME NEW S, NEW s \in Seq(S)
  PROVE  IsFiniteSet(ToSet(s))
<1>1. IsFiniteSet(DOMAIN s)
  BY FS_Interval, LenProperties
<1>2. s \in Surjection(DOMAIN s, ToSet(s))
  BY DEF Surjection, ToSet
<1> QED  BY <1>1, <1>2, FS_Surjection

LEMMA UnderWayFinite == LinkTyped => IsFiniteSet(UnderWay)
BY ToSetFinite, FS_Union DEF LinkTyped, UnderWay

LEMMA NewIdIs ==
  ASSUME NEW used, IsFiniteSet(used)
  PROVE  NewId(used) \in Nat /\ NewId(used) \notin used
<1> DEFINE n == Cardinality(used)
<1>1. n \in Nat
  BY FS_CardinalityType
<1>2. \E i \in 1..n + 1 : i \notin used
  <2>1. SUFFICES ASSUME 1..n + 1 \subseteq used PROVE FALSE
    OBVIOUS
  <2>2. Cardinality(1..n + 1) = n + 1
    BY <1>1, FS_Interval
  <2>3. Cardinality(1..n + 1) <= n
    BY <2>1, FS_Subset
  <2> QED  BY <1>1, <2>2, <2>3
<1> QED  BY <1>2 DEF NewId

LEMMA ListIdIs ==
  ASSUME LinkTyped, ListTyped
  PROVE  ListId \in Nat
<1>1. IsFiniteSet(Listing)
  BY UnderWayFinite, FS_Subset DEF Listing
<1> QED  BY <1>1, IdsFinite, FS_Union, NewIdIs DEF ListTyped, ListId

\* The id of a new request is not awaited.
LEMMA ReadIdIs ==
  ASSUME LinkTyped, NEW f, NEW k \in Nat \ {0}
  PROVE  ReadId(f, k) \in Nat /\ (session[f] = None \/ session[f].id # ReadId(f, k))
<1> DEFINE awaited == IF session[f] = None THEN {} ELSE {session[f].id}
           used == {m.id : m \in Aimed(f)} \cup awaited
           taken == 1..(k - 1) * (Cardinality(used) + 1)
<1>1. IsFiniteSet(Aimed(f))
  BY UnderWayFinite, FS_Subset DEF Aimed
<1>2. IsFiniteSet({m.id : m \in Aimed(f)})
  BY <1>1, IdsFinite
<1>3. IsFiniteSet(awaited)
  BY FS_EmptySet, FS_Singleton
<1>4. IsFiniteSet(used)
  BY <1>2, <1>3, FS_Union
<1>5. IsFiniteSet(used \cup taken)
  <2>1. Cardinality(used) \in Nat
    BY <1>4, FS_CardinalityType
  <2> HIDE DEF used
  <2>2. (k - 1) * (Cardinality(used) + 1) \in Int
    BY <2>1
  <2>3. IsFiniteSet(taken)
    BY <2>2, FS_Interval
  <2> QED  BY <1>4, <2>3, FS_Union
<1>6. ReadId(f, k) = NewId(used \cup taken)
  BY DEF ReadId
<1> HIDE DEF taken
<1>7. ReadId(f, k) \in Nat /\ ReadId(f, k) \notin used \cup taken
  BY <1>5, <1>6, NewIdIs
<1> QED  BY <1>7

-----------------------------------------------------------------------------
(* Types *)

\* A new request.
LEMMA ListFromIs ==
  ASSUME LinkTyped, ListTyped, NEW o \in Nat
  PROVE  ListFrom(o) \in Requests /\ ListFrom(o).kind = "list"
BY ListIdIs DEF ListFrom, Requests

LEMMA ReadFromIs ==
  ASSUME LinkTyped, NEW f \in Files, NEW o \in Nat, NEW k \in Nat \ {0}, NEW r, r = ReadFrom(f, o, k)
  PROVE  /\ r \in Requests /\ r.kind = "read" /\ r.file = f /\ r.from = o
         /\ session[f] = None \/ session[f].id # r.id
<1>1. ReadId(f, k) \in Nat /\ (session[f] = None \/ session[f].id # ReadId(f, k))
  BY ReadIdIs
<1>2. r = [kind |-> "read", file |-> f, from |-> o, id |-> ReadId(f, k)]
  BY DEF ReadFrom
<1>3. r.kind = "read" /\ r.file = f /\ r.from = o /\ r.id = ReadId(f, k)
  BY <1>2
<1>4. r \in Requests
  BY <1>1, <1>2 DEF Requests
<1> QED  BY <1>1, <1>3, <1>4

LEMMA SendTyped ==
  ASSUME LinkTyped, NEW S, S \subseteq Requests, IsFiniteSet(S), \A r \in S : r.kind # "delete",
         Send(S), answers' \in Seq(Answers)
  PROVE  LinkTyped'
<1>1. asked' \in Seq(Requests)
  BY SendIs
<1>2. IsFiniteSet(unregistered')
  BY FS_Union DEF Send, LinkTyped
<1> QED  BY <1>1, <1>2 DEF Send, LinkTyped

\* What the device answers is an answer.
LEMMA PageTyped ==
  ASSUME FileTyped, NEW m \in Requests, m.kind = "list"
  PROVE  ListDir(m) \in Answers
<1> DEFINE listed == {f \in Present : m.from <= Place(f) /\ Place(f) < m.from + PageLimit}
           sizes == [f \in listed |-> file[f].size]
<1>1. IsFiniteSet(Present) /\ Cardinality(Present) \in Nat
  BY FS_Subset, FS_CardinalityType DEF Present
<1>2. \A f \in Present : f \in Files /\ file[f].size \in Nat \ {0}
  BY DEF Present, Absent, FileTyped
<1>3. listed \in SUBSET Files /\ sizes \in [listed -> Nat \ {0}]
  BY <1>2
<1>4. sizes \in Listings
  BY <1>3 DEF Listings
<1>5. m.from \in Nat /\ m.id \in Nat
  BY RequestIs
<1>6. ListDir(m) = [kind |-> "entries", id |-> m.id, sizes |-> sizes, total |-> Cardinality(Present),
                    more |-> m.from + PageLimit < Cardinality(Present)]
  BY DEF ListDir
<1> HIDE DEF sizes, listed
<1> QED  BY <1>1, <1>4, <1>5, <1>6 DEF Answers

\* n units of a text from the place o on.
Slice(g, o, n) == [i \in 1..n |-> <<g, o + i>>]

\* The chunk that is read of ASCII text is the text at its place.
LEMMA ReadIs ==
  ASSUME FileTyped, NEW m \in Requests, m.kind = "read", ~Absent(m.file),
         NEW n \in Characters(m.file, ChunkBytes(m.file, m.from)), NEW c, c = ReadFile(m, n)
  PROVE  /\ c \in Answers /\ c.kind = "chunk" /\ c.file = m.file /\ c.id = m.id /\ c.from = m.from
         /\ c.size = file[m.file].size
         /\ m.file \in Ascii =>
              /\ n \in Nat /\ c.data = Slice(file[m.file].gen, m.from, n)
              /\ c.more = (m.from + n < c.size)
              /\ (m.from <= c.size => m.from + n <= c.size)
<1> DEFINE f == m.file
           b == ChunkBytes(f, m.from)
           data == [i \in 1..n |-> <<file[f].gen, IF f \in Ascii THEN m.from + i ELSE 0>>]
<1>1. f \in Files /\ m.from \in Nat /\ m.id \in Nat /\ file[f].gen \in Nat /\ file[f].size \in Nat
  BY RequestIs DEF FileTyped
<1>2. b \in Nat /\ n \in Nat /\ (f \in Ascii => n = b) /\ (m.from <= file[f].size => m.from + b <= file[f].size)
  <2>1. b \in Nat /\ (m.from <= file[f].size => m.from + b <= file[f].size)
    BY <1>1 DEF ChunkBytes
  <2> HIDE DEF b
  <2>2. n \in Characters(f, b)
    BY DEF b
  <2>3. n \in Nat /\ (f \in Ascii => n = b)
    BY <2>1, <2>2 DEF Characters
  <2> QED  BY <2>1, <2>3
<1> HIDE DEF b
<1>3. data \in Seq(Units)
  <2>1. \A i \in 1..n : <<file[f].gen, IF f \in Ascii THEN m.from + i ELSE 0>> \in Units
    BY <1>1, <1>2 DEF Units
  <2>2. data \in [1..n -> Units]
    BY <2>1
  <2> HIDE DEF data
  <2> QED  BY <1>2, <2>2, SeqDef
<1>4. c = [kind |-> "chunk", id |-> m.id, file |-> f, from |-> m.from, data |-> data,
           size |-> file[f].size, more |-> m.from + b < file[f].size]
  BY DEF ReadFile, b
<1>5. (m.from + b < file[f].size) \in BOOLEAN
  BY <1>1, <1>2
<1>6. f \in Ascii => data = Slice(file[f].gen, m.from, n)
  BY DEF Slice
<1> HIDE DEF data, f
<1>7. c \in Answers
  BY <1>1, <1>3, <1>4, <1>5 DEF Answers
<1>8. /\ c.kind = "chunk" /\ c.file = f /\ c.id = m.id /\ c.from = m.from
      /\ c.data = data /\ c.size = file[f].size /\ c.more = (m.from + b < file[f].size)
  BY <1>4
<1> QED  BY <1>2, <1>6, <1>7, <1>8 DEF f

LEMMA MissingIs ==
  ASSUME NEW m \in Requests, m.kind = "read", Absent(m.file), NEW n
  PROVE  ReadFile(m, n) \in Answers /\ ReadFile(m, n).kind = "missing" /\ ReadFile(m, n).file = m.file
BY RequestIs DEF ReadFile, Answers

LEMMA DeletedIs ==
  ASSUME NEW m \in Requests, m.kind = "delete"
  PROVE  /\ DeleteItem(m) \in Answers /\ DeleteItem(m).kind = "deleted" /\ DeleteItem(m).file = m.file
         /\ DeleteItem(m).ok = ~Absent(m.file)
<1>1. DeleteItem(m) = [kind |-> "deleted", file |-> m.file, ok |-> ~Absent(m.file)]
  BY DEF DeleteItem
<1>2. (~Absent(m.file)) \in BOOLEAN
  BY DEF Absent
<1> QED  BY <1>1, <1>2, RequestIs DEF Answers

\* Pages of a listing add up to a listing.
LEMMA ListingIs ==
  ASSUME NEW s \in Listings
  PROVE  DOMAIN s \subseteq Files /\ \A f \in DOMAIN s : s[f] \in Nat \ {0}
<1>1. PICK S \in SUBSET Files : s \in [S -> Nat \ {0}]
  BY DEF Listings
<1> QED  BY <1>1

LEMMA PagesAddUp ==
  ASSUME ListTyped, page # None, NEW m, m.sizes \in Listings
  PROVE  Entries(m) \in Lists
<1> DEFINE S == Nat \ {0}
<1>1. ASSUME NEW f \in Files
      PROVE  page.entries[f] \in Seq(S) /\ (f \in DOMAIN m.sizes => Append(page.entries[f], m.sizes[f]) \in Seq(S))
  <2>1. page.entries[f] \in Seq(S)
    BY DEF ListTyped, Lists
  <2>2. f \in DOMAIN m.sizes => m.sizes[f] \in S
    BY ListingIs
  <2> HIDE DEF S
  <2> QED  BY <2>1, <2>2, AppendProperties
<1> QED  BY <1>1 DEF Entries, Lists

LEMMA NothingListed == NoEntries \in Lists
BY DEF NoEntries, Lists

LEMMA InitTyped == SyncInit => SyncTypeOK
<1> SUFFICES ASSUME SyncInit PROVE SyncTypeOK
  OBVIOUS
<1>1. FileTyped
  BY DEF SyncInit, FileTyped
<1>2. LinkTyped
  BY FS_EmptySet DEF SyncInit, LinkTyped
<1>3. ListTyped
  BY FS_EmptySet DEF SyncInit, ListTyped
<1>4. ReadTyped /\ CopyTyped
  BY DEF SyncInit, ReadTyped, CopyTyped
<1> QED  BY <1>1, <1>2, <1>3, <1>4 DEF SyncTypeOK

\* The answer that is taken is one, and those behind it stay.
LEMMA ReceivedIs ==
  ASSUME LinkTyped, NEW m, Received(m)
  PROVE  /\ m \in Answers /\ m = answers[1] /\ 1 \in 1..Len(answers)
         /\ answers' \in Seq(Answers) /\ Len(answers) \in Nat /\ Len(answers') = Len(answers) - 1
         /\ \A i \in 1..Len(answers') : i + 1 \in 1..Len(answers) /\ answers'[i] = answers[i + 1]
BY Popped DEF Received, LinkTyped

LEMMA RespondTyped ==
  ASSUME SyncTypeOK, Respond
  PROVE  SyncTypeOK'
<1> DEFINE m == Head(asked)
<1>1. FileTyped /\ LinkTyped
  BY DEF SyncTypeOK
<1>2. m \in Requests /\ Tail(asked) \in Seq(Requests)
  BY <1>1, Popped DEF Respond, LinkTyped
<1>3. PICK a \in Answers : answers' = Append(answers, a)
  <2>1. CASE m.kind = "list" /\ answers' = Append(answers, ListDir(m))
    BY <1>1, <1>2, <2>1, PageTyped
  <2>2. CASE /\ m.kind = "read"
             /\ \E n \in Characters(m.file, ChunkBytes(m.file, m.from)) : answers' = Append(answers, ReadFile(m, n))
    BY <1>1, <1>2, <2>2, ReadIs, MissingIs
  <2>3. CASE m.kind = "delete" /\ answers' = Append(answers, DeleteItem(m))
    BY <1>2, <2>3, DeletedIs
  <2> QED  BY <2>1, <2>2, <2>3 DEF Respond
<1>4. answers' \in Seq(Answers)
  BY <1>1, <1>3, Pushed DEF LinkTyped
<1>5. FileTyped'
  <2>1. CASE UNCHANGED file
    BY <1>1, <2>1 DEF FileTyped
  <2>2. CASE m.kind = "delete" /\ file' = [file EXCEPT ![m.file].size = 0]
    BY <1>1, <1>2, <2>2, RequestIs DEF FileTyped
  <2> QED  BY <2>1, <2>2 DEF Respond
<1>6. LinkTyped'
  BY <1>1, <1>2, <1>4 DEF Respond, LinkTyped
<1> QED  BY <1>5, <1>6 DEF SyncTypeOK, Respond, listVars, readVars, copyVars, ListTyped, ReadTyped, CopyTyped

LEMMA DeviceTyped ==
  ASSUME SyncTypeOK, NEW f \in Files, Append1(f) \/ Create(f) \/ CleanUp(f)
  PROVE  SyncTypeOK'
<1>1. FileTyped
  BY DEF SyncTypeOK
<1>2. FileTyped'
  BY <1>1 DEF FileTyped, Append1, Create, CleanUp
<1>3. UNCHANGED <<linkVars, listVars, readVars, copyVars>>
  BY DEF Append1, Create, CleanUp
<1> QED
  BY <1>2, <1>3 DEF SyncTypeOK, linkVars, listVars, readVars, copyVars, LinkTyped, ListTyped, ReadTyped, CopyTyped

LEMMA LoseTyped ==
  ASSUME SyncTypeOK, Lose
  PROVE  SyncTypeOK'
<1>1. LinkTyped
  BY DEF SyncTypeOK
<1>2. asked' \in Seq(Requests) /\ answers' \in Seq(Answers)
  BY <1>1, Popped DEF Lose, LinkTyped
<1>3. LinkTyped'
  BY <1>1, <1>2 DEF Lose, LinkTyped
<1> QED
  BY <1>3 DEF SyncTypeOK, Lose, listVars, readVars, copyVars, FileTyped, ListTyped, ReadTyped, CopyTyped

LEMMA SyncSysLogsTyped ==
  ASSUME SyncTypeOK, SyncSysLogs
  PROVE  SyncTypeOK'
<1>1. LinkTyped /\ ListTyped
  BY DEF SyncTypeOK
<1>2. ListFrom(0) \in Requests /\ ListFrom(0).kind = "list" /\ IsFiniteSet({ListFrom(0)})
  BY <1>1, ListFromIs, FS_Singleton
<1>3. Send({ListFrom(0)}) /\ answers' \in Seq(Answers)
  BY <1>1 DEF SyncSysLogs, LinkTyped
<1>4. LinkTyped'
  BY <1>1, <1>2, <1>3, SendTyped
<1> QED
  BY <1>4 DEF SyncTypeOK, SyncSysLogs, readVars, copyVars, FileTyped, ListTyped, ReadTyped, CopyTyped

LEMMA TimeoutTyped ==
  ASSUME SyncTypeOK, Timeout
  PROVE  SyncTypeOK'
<1>1. ListTyped'
  BY FS_EmptySet DEF SyncTypeOK, Timeout, ListTyped
<1> QED
  BY <1>1 DEF SyncTypeOK, Timeout, linkVars, readVars, copyVars, FileTyped, LinkTyped, ReadTyped, CopyTyped

LEMMA DeleteTyped ==
  ASSUME SyncTypeOK, NEW f \in Files, DeleteSysLogFile(f)
  PROVE  SyncTypeOK'
<1>1. LinkTyped
  BY DEF SyncTypeOK
<1>2. [kind |-> "delete", file |-> f] \in Requests
  BY DEF Requests
<1>3. asked' \in Seq(Requests)
  BY <1>1, <1>2, Pushed DEF DeleteSysLogFile, LinkTyped
<1>4. LinkTyped'
  BY <1>1, <1>3 DEF DeleteSysLogFile, LinkTyped
<1> QED
  BY <1>4 DEF SyncTypeOK, DeleteSysLogFile, listVars, readVars, copyVars,
              FileTyped, ListTyped, ReadTyped, CopyTyped

LEMMA RegisterTyped ==
  ASSUME SyncTypeOK, Register
  PROVE  SyncTypeOK'
<1>1. LinkTyped /\ ListTyped /\ ReadTyped
  BY DEF SyncTypeOK
<1>2. PICK r \in unregistered :
        /\ unregistered' = unregistered \ {r}
        /\ \/ /\ r.kind = "list"
              /\ active' = active \cup {r.id}
              /\ page' = IF r.from = 0 THEN [entries |-> NoEntries, total |-> 0, from |-> 0] ELSE page
              /\ UNCHANGED session
           \/ /\ r.kind = "read"
              /\ session' = [session EXCEPT ![r.file] = [id |-> r.id, from |-> r.from]]
              /\ UNCHANGED <<active, page>>
        /\ UNCHANGED <<file, asked, answers, syncing, timers, buffer, copyVars, mishaps, doubtful>>
  BY DEF Register
<1>3. LinkTyped'
  BY <1>1, <1>2, FS_RemoveElement DEF LinkTyped
<1>4. ListTyped'
  <2>1. IsFiniteSet(active')
    BY <1>1, <1>2, FS_AddElement DEF ListTyped
  <2>2. page' # None => page'.from \in Nat /\ page'.entries \in Lists
    BY <1>1, <1>2, NothingListed DEF ListTyped
  <2> QED  BY <2>1, <2>2 DEF ListTyped
<1>5. ReadTyped'
  BY <1>1, <1>2 DEF ReadTyped
<1> QED  BY <1>2, <1>3, <1>4, <1>5 DEF SyncTypeOK, copyVars, FileTyped, CopyTyped

LEMMA IgnoreTyped ==
  ASSUME SyncTypeOK, NEW m, IgnoreList(m) \/ IgnoreRead(m)
  PROVE  SyncTypeOK'
<1>1. LinkTyped /\ ListTyped
  BY DEF SyncTypeOK
<1>2. answers' \in Seq(Answers) /\ UNCHANGED <<asked, unregistered>>
  BY <1>1, ReceivedIs DEF IgnoreList, IgnoreRead
<1>3. LinkTyped'
  BY <1>1, <1>2 DEF LinkTyped
<1>4. IsFiniteSet(active') /\ UNCHANGED page
  BY <1>1, FS_RemoveElement DEF IgnoreList, IgnoreRead, ListTyped, listVars
<1>5. ListTyped'
  BY <1>1, <1>4 DEF ListTyped
<1>6. UNCHANGED <<file, readVars, copyVars>>
  BY DEF IgnoreList, IgnoreRead
<1> QED
  BY <1>3, <1>5, <1>6 DEF SyncTypeOK, readVars, copyVars, FileTyped, ReadTyped, CopyTyped

\* A page that is taken for ours.
LEMMA AcceptedIs ==
  ASSUME SyncTypeOK, NEW m, ListAccepted(m)
  PROVE  /\ m \in Answers /\ answers' \in Seq(Answers) /\ page # None
         /\ m.sizes \in Listings /\ Entries(m) \in Lists /\ page.from \in Nat
         /\ IsFiniteSet(active \ {m.id})
<1>1. LinkTyped /\ ListTyped
  BY DEF SyncTypeOK
<1>2. m \in Answers /\ answers' \in Seq(Answers) /\ page # None /\ m.kind = "entries"
  BY <1>1, ReceivedIs DEF ListAccepted
<1>3. m.sizes \in Listings
  BY <1>2, AnswerIs
<1>4. Entries(m) \in Lists
  BY <1>1, <1>2, <1>3, PagesAddUp
<1> QED  BY <1>1, <1>2, <1>3, <1>4, FS_RemoveElement DEF ListTyped

LEMMA RestartTyped ==
  ASSUME SyncTypeOK, NEW m, RestartListing(m)
  PROVE  SyncTypeOK'
<1>1. LinkTyped /\ ListTyped
  BY DEF SyncTypeOK
<1>2. answers' \in Seq(Answers) /\ IsFiniteSet(active')
  BY AcceptedIs DEF RestartListing
<1> DEFINE r == ListFrom(0)
<1>3. r \in Requests /\ r.kind = "list"
  BY <1>1, ListFromIs
<1>4. asked' = Append(asked, r) /\ unregistered' = unregistered \cup {r}
  BY DEF RestartListing
<1> HIDE DEF r
<1>5. asked' \in Seq(Requests) /\ IsFiniteSet(unregistered')
  BY <1>1, <1>3, <1>4, Pushed, FS_AddElement DEF LinkTyped
<1>6. LinkTyped'
  BY <1>1, <1>2, <1>3, <1>4, <1>5 DEF LinkTyped
<1>7. ListTyped'
  <2>1. page' = [entries |-> NoEntries, total |-> m.total, from |-> 0]
    BY DEF RestartListing
  <2> QED  BY <1>2, <2>1, NothingListed DEF ListTyped
<1>8. UNCHANGED <<file, readVars, copyVars>>
  BY DEF RestartListing
<1> QED
  BY <1>6, <1>7, <1>8 DEF SyncTypeOK, readVars, copyVars, FileTyped, ReadTyped, CopyTyped

LEMMA NextPageTyped ==
  ASSUME SyncTypeOK, NEW m, NextPage(m)
  PROVE  SyncTypeOK'
<1>1. LinkTyped /\ ListTyped
  BY DEF SyncTypeOK
<1>2. answers' \in Seq(Answers) /\ IsFiniteSet(active') /\ page.from \in Nat /\ Entries(m) \in Lists
  BY AcceptedIs DEF NextPage
<1> DEFINE o == page.from + PageLimit
           r == ListFrom(o)
<1>3. o \in Nat
  BY <1>2
<1>4. r \in Requests /\ r.kind = "list" /\ Send({r})
  <2>1. Send({r})
    BY DEF NextPage
  <2> HIDE DEF o
  <2> QED  BY <1>1, <1>3, <2>1, ListFromIs
<1> HIDE DEF r
<1>5. LinkTyped'
  BY <1>1, <1>2, <1>4, FS_Singleton, SendTyped
<1>6. ListTyped'
  <2>1. page' = [entries |-> Entries(m), total |-> IF page.total = 0 THEN m.total ELSE page.total, from |-> o]
    BY DEF NextPage
  <2> HIDE DEF o
  <2> QED  BY <1>2, <1>3, <2>1 DEF ListTyped
<1>7. UNCHANGED <<file, readVars, copyVars>>
  BY DEF NextPage
<1> QED
  BY <1>5, <1>6, <1>7 DEF SyncTypeOK, readVars, copyVars, FileTyped, ReadTyped, CopyTyped

\* The reads that a listing asks for.
LEMMA StartIs ==
  ASSUME SyncTypeOK, NEW f \in Files, NEW es \in Seq(Nat \ {0}), NEW i \in Wanted(f, es)
  PROVE  i \in Nat \ {0} /\ ReadStart(f, es, i) \in {0, saved[f]} \cap Nat
<1>1. saved[f] \in Nat \cup {-1}
  BY DEF SyncTypeOK, CopyTyped
<1>2. i \in 1..Len(es) /\ Len(es) \in Nat /\ es[i] \in Nat
  BY ElementOfSeq, LenProperties DEF Wanted
<1>3. SavedAt(f, es, i) \in {-1, saved[f]}
  BY DEF SavedAt
<1> QED  BY <1>1, <1>2, <1>3 DEF ReadStart

LEMMA ReadsOfAre ==
  ASSUME SyncTypeOK, NEW f \in Files, NEW es \in Seq(Nat \ {0})
  PROVE  /\ Reads(f, es) \subseteq Requests /\ IsFiniteSet(Reads(f, es))
         /\ \A r \in Reads(f, es) : r.kind = "read" /\ r.file = f
<1>1. ASSUME NEW i \in Wanted(f, es), NEW r, r = ReadFrom(f, ReadStart(f, es, i), i)
      PROVE  r \in Requests /\ r.kind = "read" /\ r.file = f
  <2> DEFINE o == ReadStart(f, es, i)
  <2>1. o \in Nat /\ i \in Nat \ {0} /\ LinkTyped /\ r = ReadFrom(f, o, i)
    BY <1>1, StartIs DEF SyncTypeOK
  <2> HIDE DEF o
  <2>2. PICK k \in Nat \ {0}, p \in Nat : k = i /\ p = o
    BY <2>1
  <2>3. r = ReadFrom(f, p, k)
    BY <2>1, <2>2
  <2>4. ReadFrom(f, p, k) \in Requests /\ ReadFrom(f, p, k).kind = "read" /\ ReadFrom(f, p, k).file = f
    <3>1. LinkTyped
      BY <2>1
    <3> QED  BY <3>1, ReadFromIs
  <2> QED  BY <2>3, <2>4
<1>2. IsFiniteSet(Wanted(f, es))
  <2>1. PICK n \in Nat : n = Len(es)
    BY LenProperties
  <2>2. IsFiniteSet(1..n)
    BY FS_Interval
  <2>3. Wanted(f, es) \subseteq 1..n
    BY <2>1 DEF Wanted
  <2> QED  BY <2>2, <2>3, FS_Subset
<1> DEFINE g == [i \in Wanted(f, es) |-> ReadFrom(f, ReadStart(f, es, i), i)]
<1>3. g \in Surjection(Wanted(f, es), Reads(f, es))
  BY DEF Surjection, Reads
<1>4. IsFiniteSet(Reads(f, es))
  BY <1>2, <1>3, FS_Surjection
<1> QED  BY <1>1, <1>4 DEF Reads

LEMMA ReadsAre ==
  ASSUME SyncTypeOK, NEW es \in Lists, NEW S, S = UNION {Reads(f, es[f]) : f \in Files}
  PROVE  /\ S \subseteq Requests /\ IsFiniteSet(S)
         /\ \A r \in S : r.kind = "read" /\ r.file \in Files /\ r \in Reads(r.file, es[r.file])
<1>1. ASSUME NEW f \in Files
      PROVE  /\ Reads(f, es[f]) \subseteq Requests /\ IsFiniteSet(Reads(f, es[f]))
             /\ \A r \in Reads(f, es[f]) : r.kind = "read" /\ r.file = f
  <2>1. es[f] \in Seq(Nat \ {0})
    BY DEF Lists
  <2> QED  BY <2>1, ReadsOfAre
<1> DEFINE R == {Reads(f, es[f]) : f \in Files}
           g == [f \in Files |-> Reads(f, es[f])]
<1>2. IsFiniteSet(R)
  <2>1. g \in Surjection(Files, R)
    BY DEF Surjection
  <2> QED  BY <2>1, FS_Surjection
<1>3. \A X \in R : IsFiniteSet(X)
  BY <1>1
<1>4. IsFiniteSet(S)
  <2> HIDE DEF R
  <2>1. IsFiniteSet(UNION R)
    BY <1>2, <1>3, FS_UNION
  <2> QED  BY <2>1 DEF R
<1>5. \A r \in S : \E f \in Files : r \in Reads(f, es[f])
  OBVIOUS
<1> QED  BY <1>1, <1>4, <1>5

LEMMA ProcessTyped ==
  ASSUME SyncTypeOK, NEW m, ProcessDirEntries(m)
  PROVE  SyncTypeOK'
<1>1. LinkTyped /\ CopyTyped
  BY DEF SyncTypeOK
<1> DEFINE es == Entries(m)
           S == UNION {Reads(f, es[f]) : f \in Files}
<1>2. answers' \in Seq(Answers) /\ IsFiniteSet(active') /\ page' = None /\ es \in Lists
  BY AcceptedIs DEF ProcessDirEntries
<1>3. Send(S)
  BY DEF ProcessDirEntries
<1>4. /\ copy'  = [f \in Files |-> IF Replaced(f, es[f]) THEN <<>> ELSE copy[f]]
      /\ saved' = [f \in Files |-> IF Replaced(f, es[f]) THEN -1 ELSE saved[f]]
  BY DEF ProcessDirEntries
<1> HIDE DEF es
<1>5. S \subseteq Requests /\ IsFiniteSet(S) /\ \A r \in S : r.kind = "read"
  BY <1>2, ReadsAre
<1> HIDE DEF S
<1>6. LinkTyped'
  BY <1>1, <1>2, <1>3, <1>5, SendTyped
<1>7. ListTyped'
  BY <1>2 DEF ListTyped
<1>8. CopyTyped'
  BY <1>1, <1>4 DEF CopyTyped
<1>9. UNCHANGED <<file, readVars>>
  BY DEF ProcessDirEntries
<1> QED  BY <1>6, <1>7, <1>8, <1>9 DEF SyncTypeOK, readVars, FileTyped, ReadTyped

LEMMA ReadTypedToo ==
  ASSUME SyncTypeOK, NEW m, ReadMissing(m) \/ ReadLast(m) \/ HandleDeleteItemResult(m)
  PROVE  SyncTypeOK'
<1>1. LinkTyped /\ ReadTyped /\ CopyTyped
  BY DEF SyncTypeOK
<1>2. /\ answers' \in Seq(Answers) /\ m \in Answers
      /\ UNCHANGED <<file, asked, unregistered, listVars>>
  BY <1>1, ReceivedIs DEF ReadMissing, ReadLast, HandleDeleteItemResult
<1>3. LinkTyped'
  BY <1>1, <1>2 DEF LinkTyped
<1>4. ReadTyped'
  BY <1>1 DEF ReadTyped, ReadMissing, ReadLast, HandleDeleteItemResult, readVars
<1>5. CopyTyped'
  <2>1. CASE ReadMissing(m)
    BY <1>1, <2>1 DEF ReadMissing, copyVars, CopyTyped
  <2>2. CASE ReadLast(m)
    <3>1. m.file \in Files /\ m.size \in Nat
      BY <1>2, <2>2, AnswerIs DEF ReadLast
    <3> QED  BY <1>1, <2>2, <3>1 DEF ReadLast, CopyTyped
  <2>3. CASE HandleDeleteItemResult(m)
    BY <1>1, <2>3 DEF HandleDeleteItemResult, copyVars, CopyTyped
  <2> QED  BY <2>1, <2>2, <2>3
<1> QED  BY <1>2, <1>3, <1>4, <1>5 DEF SyncTypeOK, listVars, FileTyped, ListTyped

LEMMA ReadMoreTyped ==
  ASSUME SyncTypeOK, NEW m, ReadMore(m)
  PROVE  SyncTypeOK'
<1>1. LinkTyped /\ ReadTyped
  BY DEF SyncTypeOK
<1>2. answers' \in Seq(Answers) /\ m \in Answers /\ m.kind = "chunk"
  BY <1>1, ReceivedIs DEF ReadMore
<1>3. m.file \in Files /\ m.from \in Nat /\ m.data \in Seq(Units)
  BY <1>2, AnswerIs
<1> DEFINE o == m.from + Len(m.data)
           r == ReadFrom(m.file, o, 1)
<1>4. o \in Nat
  BY <1>3, LenProperties
<1>5. Send({r})
  BY DEF ReadMore
<1> HIDE DEF o
<1>6. r \in Requests /\ r.kind = "read"
  <2>a. PICK k \in Nat \ {0} : k = 1
    OBVIOUS
  <2>1. PICK g \in Files, p \in Nat : g = m.file /\ p = o
    BY <1>3, <1>4
  <2>2. PICK q : q = r
    OBVIOUS
  <2>3. q = ReadFrom(g, p, k)
    BY <2>a, <2>1, <2>2
  <2> HIDE DEF r
  <2>4. q \in Requests /\ q.kind = "read"
    BY <1>1, <2>3, ReadFromIs
  <2> QED  BY <2>2, <2>4
<1> HIDE DEF r
<1>7. LinkTyped'
  BY <1>1, <1>2, <1>5, <1>6, FS_Singleton, SendTyped
<1>8. ReadTyped'
  BY <1>1 DEF ReadTyped, ReadMore
<1>9. UNCHANGED <<file, listVars, copyVars>>
  BY DEF ReadMore
<1> QED  BY <1>7, <1>8, <1>9 DEF SyncTypeOK, listVars, copyVars, FileTyped, ListTyped, CopyTyped

LEMMA TypesKept == SyncTypeOK /\ [SyncNext]_vars => SyncTypeOK'
<1> SUFFICES ASSUME SyncTypeOK, [SyncNext]_vars PROVE SyncTypeOK'
  OBVIOUS
<1>1. CASE \E f \in Files : Append1(f) \/ Create(f) \/ CleanUp(f) \/ DeleteSysLogFile(f)
  BY <1>1, DeviceTyped, DeleteTyped
<1>2. CASE Arrival
  <2> DEFINE m == Head(answers)
  <2>1. \/ IgnoreList(m) \/ RestartListing(m) \/ NextPage(m) \/ ProcessDirEntries(m)
        \/ ReadMissing(m) \/ IgnoreRead(m) \/ ReadMore(m) \/ ReadLast(m)
        \/ HandleDeleteItemResult(m)
    BY <1>2 DEF Arrival
  <2> HIDE DEF m
  <2> QED  BY <2>1, IgnoreTyped, RestartTyped, NextPageTyped, ProcessTyped, ReadTypedToo, ReadMoreTyped
<1>3. CASE UNCHANGED vars
  BY <1>3 DEF vars, linkVars, listVars, readVars, copyVars, SyncTypeOK, FileTyped, LinkTyped, ListTyped,
              ReadTyped, CopyTyped
<1> QED
  BY <1>1, <1>2, <1>3, RespondTyped, LoseTyped, SyncSysLogsTyped, TimeoutTyped, RegisterTyped DEF SyncNext

-----------------------------------------------------------------------------
(* One file *)

\* A request for a chunk of f, or the chunk.
Carries(m, f) == m.kind \in {"read", "chunk"} /\ m.file = f

\* An answer that takes f from the app: what it began with an earlier file of the name is over.
Ends(m, f) == m.kind \in {"missing", "deleted"} /\ m.file = f /\ (m.kind = "deleted" => m.ok)

\* What is saved is the text.
Copied(f) ==
  saved[f] # -1 => /\ saved[f] <= file[f].size
                   /\ copy[f] = Text(file[f].gen, saved[f])

\* One request or chunk of the file is under way at most, and while the request is not
\* remembered its id is not the one awaited.
OneDownload(f) ==
  /\ \A i, j \in 1..Len(asked) : Carries(asked[i], f) /\ Carries(asked[j], f) => i = j
  /\ \A i, j \in 1..Len(answers) : Carries(answers[i], f) /\ Carries(answers[j], f) => i = j
  /\ \A i \in 1..Len(asked), j \in 1..Len(answers) : ~(Carries(asked[i], f) /\ Carries(answers[j], f))
  /\ \A r, q \in unregistered : Carries(r, f) /\ Carries(q, f) => r = q
  /\ \A r \in unregistered : Carries(r, f) =>
       /\ session[f] = None \/ session[f].id # r.id
       /\ \A i \in 1..Len(asked) : Carries(asked[i], f) => asked[i].id = r.id
       /\ \A i \in 1..Len(answers) : Carries(answers[i], f) => answers[i].id = r.id

\* It continues what is buffered, or what is saved.
Continues(m, f) ==
  /\ m.from <= file[f].size
  /\ IF buffer[f] = None THEN m.from = 0 \/ m.from = saved[f]
     ELSE buffer[f].text = Text(file[f].gen, m.from)

\* A chunk is the text at its place, of the file as it was.
TrueChunk(m, f) ==
  /\ m.from + Len(m.data) <= m.size /\ m.size <= file[f].size
  /\ m.data = Slice(file[f].gen, m.from, Len(m.data))
  /\ m.more = (m.from + Len(m.data) < m.size)

Continued(f) ==
  /\ \A i \in 1..Len(asked) : Carries(asked[i], f) => Continues(asked[i], f)
  /\ \A i \in 1..Len(answers) :
       Carries(answers[i], f) => Continues(answers[i], f) /\ TrueChunk(answers[i], f)

\* What is over is answered before anything of the present file is.
EndsFirst(f) ==
  /\ \A i, j \in 1..Len(answers) : i < j /\ Carries(answers[i], f) => ~Ends(answers[j], f)
  /\ \A i \in 1..Len(answers) : Ends(answers[i], f) =>
       buffer[f] = None /\ (answers[i].kind = "deleted" => saved[f] = -1)

Trusted(f) == f \in Present \cap Ascii /\ f \notin doubtful

FileInv(f) == Copied(f) /\ OneDownload(f) /\ Continued(f) /\ EndsFirst(f)

SyncInv == SyncTypeOK /\ \A f \in Files : Trusted(f) => FileInv(f)

\* Of what is about f, t holds nothing but what s held, in its order.
Thins(s, t, f) ==
  \E d \in {0, 1} : \A i \in 1..Len(t) :
    Carries(t[i], f) \/ Ends(t[i], f) => i + d \in 1..Len(s) /\ t[i] = s[i + d]

LEMMA ThinsSame ==
  ASSUME NEW s, Len(s) \in Nat, NEW f
  PROVE  Thins(s, s, f)
<1>1. \A i \in 1..Len(s) : i + 0 = i
  OBVIOUS
<1> QED  BY <1>1 DEF Thins

LEMMA ThinsTail ==
  ASSUME NEW s, NEW t, \A i \in 1..Len(t) : i + 1 \in 1..Len(s) /\ t[i] = s[i + 1], NEW f
  PROVE  Thins(s, t, f)
BY DEF Thins

LEMMA ThinsMore ==
  ASSUME NEW s, NEW t, Len(s) \in Nat, NEW f,
         \A i \in 1..Len(t) : Carries(t[i], f) \/ Ends(t[i], f) => i \in 1..Len(s) /\ t[i] = s[i]
  PROVE  Thins(s, t, f)
<1>1. \A i \in 1..Len(s) : i + 0 = i
  OBVIOUS
<1>2. \A i \in 1..Len(t) : Carries(t[i], f) \/ Ends(t[i], f) => i + 0 \in 1..Len(s) /\ t[i] = s[i + 0]
  BY <1>1
<1> QED  BY <1>2 DEF Thins

\* The types of what is held of one file.
LEMMA TypesAre ==
  ASSUME SyncTypeOK
  PROVE  /\ asked \in Seq(Requests) /\ Len(asked) \in Nat /\ answers \in Seq(Answers) /\ Len(answers) \in Nat
         /\ \A f \in Files : file[f].gen \in Nat /\ file[f].size \in Nat /\ saved[f] \in Nat \cup {-1}
         /\ DOMAIN file = Files /\ DOMAIN session = Files /\ DOMAIN buffer = Files
         /\ DOMAIN copy = Files /\ DOMAIN saved = Files
BY DEF SyncTypeOK, FileTyped, LinkTyped, ReadTyped, CopyTyped

\* Of a file that only grows, of which nothing new is asked or answered and of which the
\* app keeps what it has, all this stays true.
LEMMA Quiet ==
  ASSUME SyncTypeOK, SyncTypeOK', NEW f \in Files, FileInv(f),
         Thins(asked, asked', f), Thins(answers, answers', f),
         \A r \in unregistered' : Carries(r, f) => r \in unregistered,
         \/ session'[f] \in {session[f], None}
         \/ \A r \in unregistered' : ~Carries(r, f),
         file'[f].gen = file[f].gen, file[f].size <= file'[f].size,
         buffer'[f] = buffer[f], saved'[f] = saved[f],
         saved[f] = -1 \/ copy'[f] = copy[f]
  PROVE  FileInv(f)'
<1>1. /\ Len(asked) \in Nat /\ Len(answers) \in Nat /\ Len(asked') \in Nat /\ Len(answers') \in Nat
      /\ file[f].size \in Nat /\ file'[f].size \in Nat /\ saved[f] \in Nat \cup {-1}
  BY DEF SyncTypeOK, FileTyped, LinkTyped, CopyTyped
<1>2. PICK d \in {0, 1} : \A i \in 1..Len(asked') :
        Carries(asked'[i], f) => i + d \in 1..Len(asked) /\ asked'[i] = asked[i + d]
  BY DEF Thins
<1>3. PICK e \in {0, 1} : \A i \in 1..Len(answers') :
        Carries(answers'[i], f) \/ Ends(answers'[i], f) =>
          i + e \in 1..Len(answers) /\ answers'[i] = answers[i + e]
  BY DEF Thins
<1>4. Copied(f)'
  BY <1>1 DEF FileInv, Copied
<1>5. OneDownload(f)'
  <2>1. \A i, j \in 1..Len(asked') : Carries(asked'[i], f) /\ Carries(asked'[j], f) => i = j
    BY <1>1, <1>2 DEF FileInv, OneDownload
  <2>2. \A i, j \in 1..Len(answers') : Carries(answers'[i], f) /\ Carries(answers'[j], f) => i = j
    BY <1>1, <1>3 DEF FileInv, OneDownload
  <2>3. \A i \in 1..Len(asked'), j \in 1..Len(answers') : ~(Carries(asked'[i], f) /\ Carries(answers'[j], f))
    BY <1>2, <1>3 DEF FileInv, OneDownload
  <2>4. \A r, q \in unregistered' : Carries(r, f) /\ Carries(q, f) => r = q
    BY DEF FileInv, OneDownload
  <2>5. ASSUME NEW r \in unregistered', Carries(r, f)
        PROVE  /\ session'[f] = None \/ session'[f].id # r.id
               /\ \A i \in 1..Len(asked') : Carries(asked'[i], f) => asked'[i].id = r.id
               /\ \A i \in 1..Len(answers') : Carries(answers'[i], f) => answers'[i].id = r.id
    <3>1. /\ session[f] = None \/ session[f].id # r.id
          /\ \A i \in 1..Len(asked) : Carries(asked[i], f) => asked[i].id = r.id
          /\ \A i \in 1..Len(answers) : Carries(answers[i], f) => answers[i].id = r.id
      BY <2>5 DEF FileInv, OneDownload
    <3>2. session'[f] = None \/ session'[f].id # r.id
      BY <2>5, <3>1
    <3>3. \A i \in 1..Len(asked') : Carries(asked'[i], f) => asked'[i].id = r.id
      BY <1>2, <3>1
    <3>4. \A i \in 1..Len(answers') : Carries(answers'[i], f) => answers'[i].id = r.id
      BY <1>3, <3>1
    <3> QED  BY <3>2, <3>3, <3>4
  <2> QED  BY <2>1, <2>2, <2>3, <2>4, <2>5 DEF OneDownload
<1>6. Continued(f)'
  <2>1. \A i \in 1..Len(asked') : asked'[i] \in Requests
    BY DEF SyncTypeOK, LinkTyped
  <2>2. \A i \in 1..Len(answers') : answers'[i] \in Answers
    BY DEF SyncTypeOK, LinkTyped
  <2>3. ASSUME NEW i \in 1..Len(asked'), NEW m, m = asked'[i], Carries(m, f)
        PROVE  Continues(m, f)'
    <3>1. Continues(m, f)
      BY <1>2, <2>3 DEF FileInv, Continued
    <3>2. m.from \in Nat
      BY <2>1, <2>3, RequestIs DEF Carries
    <3> QED  BY <1>1, <3>1, <3>2 DEF Continues
  <2>4. ASSUME NEW i \in 1..Len(answers'), NEW m, m = answers'[i], Carries(m, f)
        PROVE  Continues(m, f)' /\ TrueChunk(m, f)'
    <3>1. Continues(m, f) /\ TrueChunk(m, f)
      BY <1>3, <2>4 DEF FileInv, Continued
    <3>2. m.from \in Nat /\ m.size \in Nat
      BY <2>2, <2>4, AnswerIs DEF Carries
    <3>3. m.size <= file'[f].size
      BY <1>1, <3>1, <3>2 DEF TrueChunk
    <3> QED  BY <1>1, <3>1, <3>2, <3>3 DEF Continues, TrueChunk
  <2> QED  BY <2>3, <2>4 DEF Continued
<1>7. EndsFirst(f)'
  <2>1. ASSUME NEW i \in 1..Len(answers'), NEW j \in 1..Len(answers'), i < j, Carries(answers'[i], f),
               Ends(answers'[j], f)
        PROVE  FALSE
    <3>1. /\ i + e \in 1..Len(answers) /\ answers'[i] = answers[i + e]
          /\ j + e \in 1..Len(answers) /\ answers'[j] = answers[j + e]
      BY <1>3, <2>1
    <3>2. i + e < j + e
      BY <2>1
    <3> QED  BY <2>1, <3>1, <3>2 DEF FileInv, EndsFirst
  <2>2. \A i \in 1..Len(answers') : Ends(answers'[i], f) =>
          buffer'[f] = None /\ (answers'[i].kind = "deleted" => saved'[f] = -1)
    BY <1>3 DEF FileInv, EndsFirst
  <2> QED  BY <2>1, <2>2 DEF EndsFirst
<1> QED  BY <1>4, <1>5, <1>6, <1>7 DEF FileInv

LEMMA TextIs ==
  ASSUME NEW g \in Nat, NEW n \in Nat
  PROVE  /\ Text(g, n) \in Seq(Units) /\ Len(Text(g, n)) = n
         /\ SubSeq(Text(g, n), 1, n) = Text(g, n)
<1>1. Text(g, n) \in Seq(Units) /\ Len(Text(g, n)) = n
  BY DEF Text, Units
<1> QED  BY <1>1 DEF Text

\* The text of a file grows by what is read at its end.
LEMMA TextGrows ==
  \A g, n, b \in Nat : Text(g, n) \o Slice(g, n, b) = Text(g, n + b)
<1> SUFFICES ASSUME NEW g \in Nat, NEW n \in Nat, NEW b \in Nat
             PROVE  Text(g, n) \o Slice(g, n, b) = Text(g, n + b)
  OBVIOUS
<1>0. PICK k \in Nat : k = n + b
  OBVIOUS
<1>1. ASSUME NEW i \in Nat PROVE Text(g, i) \in Seq(Units) /\ Len(Text(g, i)) = i
  BY TextIs
<1>2. Text(g, n) \o Slice(g, n, b) = Text(g, k)
  <2>1. Slice(g, n, b) \in Seq(Units) /\ Len(Slice(g, n, b)) = b
    BY DEF Slice, Units
  <2> DEFINE s == Text(g, n)
             u == Slice(g, n, b)
  <2>2. s \in Seq(Units) /\ Len(s) = n /\ Len(u) = b
    BY <1>1, <2>1
  <2>3. /\ s \o u \in Seq(Units) /\ Len(s \o u) = k
        /\ \A i \in 1..k : (s \o u)[i] = IF i <= n THEN s[i] ELSE u[i - n]
    <3> HIDE DEF s, u
    <3>1. u \in Seq(Units)
      BY <2>1 DEF u
    <3> QED  BY <1>0, <2>2, <3>1, ConcatProperties
  <2>4. \A i \in 1..n : s[i] = <<g, i>>
    BY DEF Text
  <2>5. \A i \in 1..b : u[i] = <<g, n + i>>
    BY DEF Slice
  <2>6. \A i \in 1..k : (s \o u)[i] = <<g, i>>
    <3> HIDE DEF s, u
    <3>1. ASSUME NEW i \in 1..k PROVE (s \o u)[i] = <<g, i>>
      <4>1. CASE i <= n
        BY <2>3, <2>4, <4>1
      <4>2. CASE ~(i <= n)
        <5>1. i - n \in 1..b /\ n + (i - n) = i
          BY <1>0, <4>2
        <5> QED  BY <2>3, <2>5, <4>2, <5>1
      <4> QED  BY <4>1, <4>2
    <3> QED  BY <3>1
  <2>7. Text(g, k) \in Seq(Units) /\ Len(Text(g, k)) = k /\ \A i \in 1..k : Text(g, k)[i] = <<g, i>>
    BY <1>1 DEF Text
  <2> HIDE DEF s, u
  <2>8. s \o u = Text(g, k)
    BY <2>3, <2>6, <2>7, SeqEqual
  <2> QED  BY <2>8 DEF s, u
<1> QED  BY <1>0, <1>2

LEMMA NothingIsText ==
  ASSUME NEW g
  PROVE  Text(g, 0) = <<>>
BY DEF Text

\* What is buffered with a chunk is the text up to its end.
LEMMA BufferedIs ==
  ASSUME SyncTypeOK, NEW m \in Answers, m.kind = "chunk", NEW f, f = m.file,
         Copied(f), Continues(m, f), TrueChunk(m, f), NEW o, o = m.from + Len(m.data)
  PROVE  /\ Buffered(m) = Text(file[f].gen, o)
         /\ o \in Nat /\ o <= m.size /\ (~m.more => o = m.size)
<1> DEFINE g == file[f].gen
<1>1. /\ f \in Files /\ m.from \in Nat /\ m.size \in Nat /\ m.data \in Seq(Units) /\ g \in Nat
      /\ file[f].size \in Nat /\ saved[f] \in Nat \cup {-1}
  BY AnswerIs DEF SyncTypeOK, FileTyped, CopyTyped
<1>2. /\ Len(m.data) \in Nat /\ o \in Nat /\ o <= m.size
      /\ m.data = Slice(g, m.from, Len(m.data)) /\ m.more = (o < m.size)
  BY <1>1, LenProperties DEF TrueChunk
<1> DEFINE before == IF buffer[f] = None THEN Kept(f, m.from) ELSE buffer[f].text
<1>3. before = Text(g, m.from)
  <2>1. CASE buffer[f] # None
    BY <2>1 DEF Continues
  <2>2. CASE buffer[f] = None /\ m.from = 0
    <3>1. Kept(f, 0) = <<>>
      BY DEF Kept
    <3> QED  BY <2>2, <3>1, NothingIsText
  <2>3. CASE buffer[f] = None /\ m.from # 0
    <3>1. m.from = saved[f] /\ saved[f] > 0 /\ copy[f] = Text(g, saved[f])
      BY <1>1, <2>3 DEF Continues, Copied
    <3>2. Len(copy[f]) = saved[f] /\ SubSeq(copy[f], 1, saved[f]) = Text(g, saved[f])
      <4>1. PICK n \in Nat : n = saved[f]
        BY <1>1, <3>1
      <4>2. PICK h \in Nat : h = g
        BY <1>1
      <4>3. Len(Text(g, n)) = n /\ SubSeq(Text(g, n), 1, n) = Text(g, n)
        BY <4>2, TextIs
      <4> QED  BY <3>1, <4>1, <4>3
    <3>3. m.from > 0 /\ saved[f] > 0 /\ saved[f] <= Len(copy[f])
      BY <1>1, <3>1, <3>2
    <3>4. Kept(f, m.from) = SubSeq(copy[f], 1, saved[f])
      BY <1>1, <3>3 DEF Kept
    <3> QED  BY <2>3, <3>1, <3>2, <3>4
  <2> QED  BY <2>1, <2>2, <2>3
<1>4. Buffered(m) = before \o m.data
  BY DEF Buffered
<1> HIDE DEF g, before
<1>5. Text(g, m.from) \o Slice(g, m.from, Len(m.data)) = Text(g, o)
  <2>1. PICK h \in Nat, n \in Nat, b \in Nat : h = g /\ n = m.from /\ b = Len(m.data)
    BY <1>1, <1>2
  <2>2. Text(h, n) \o Slice(h, n, b) = Text(h, n + b)
    BY TextGrows
  <2> QED  BY <2>1, <2>2
<1>6. Buffered(m) = Text(g, o)
  BY <1>2, <1>3, <1>4, <1>5
<1>7. ~m.more => o = m.size
  <2>1. m.more \/ ~(o < m.size)
    BY <1>2
  <2> QED  BY <1>1, <1>2, <2>1
<1> QED  BY <1>2, <1>6, <1>7 DEF g

-----------------------------------------------------------------------------
(* Each step, for a file that is trusted after it *)

LEMMA CreateKeeps ==
  ASSUME SyncTypeOK, SyncTypeOK', NEW f \in Files, Create(f), f \notin doubtful'
  PROVE  FileInv(f)'
<1>1. /\ saved[f] = -1 /\ buffer[f] = None /\ Aimed(f) = {}
      /\ UNCHANGED <<linkVars, listVars, readVars, copyVars>>
  BY DEF Create
<1>2. /\ \A i \in 1..Len(asked) : asked[i] \in UnderWay
      /\ \A i \in 1..Len(answers) : answers[i] \in UnderWay
      /\ \A r \in unregistered : r \in UnderWay
  <2>1. asked \in Seq(Requests) /\ answers \in Seq(Answers)
    BY DEF SyncTypeOK, LinkTyped
  <2>2. DOMAIN asked = 1..Len(asked) /\ DOMAIN answers = 1..Len(answers)
    BY <2>1
  <2> QED  BY <2>2 DEF UnderWay, ToSet
<1>3. /\ \A i \in 1..Len(asked') : ~Carries(asked'[i], f)
      /\ \A i \in 1..Len(answers') : ~Carries(answers'[i], f)
      /\ \A r \in unregistered' : ~Carries(r, f)
  BY <1>1, <1>2 DEF Aimed, Carries, linkVars
<1>4. Copied(f)' /\ EndsFirst(f)'
  BY <1>1, <1>3 DEF Copied, EndsFirst, copyVars, readVars
<1>5. OneDownload(f)' /\ Continued(f)'
  BY <1>3 DEF OneDownload, Continued
<1> QED  BY <1>4, <1>5 DEF FileInv

LEMMA GrowthKeeps ==
  ASSUME SyncTypeOK, SyncTypeOK', NEW f \in Files, FileInv(f), NEW g \in Files,
         Append1(g) \/ Create(g) \/ CleanUp(g), Create(g) \/ CleanUp(g) => g # f
  PROVE  FileInv(f)'
<1>1. UNCHANGED <<linkVars, listVars, readVars, copyVars>>
  BY DEF Append1, Create, CleanUp
<1>2. file'[f].gen = file[f].gen /\ file[f].size <= file'[f].size
  BY DEF SyncTypeOK, FileTyped, Append1, Create, CleanUp
<1>3. UNCHANGED <<asked, answers, unregistered, session, buffer, copy, saved>>
  BY <1>1 DEF linkVars, readVars, copyVars
<1>4. Thins(asked, asked', f) /\ Thins(answers, answers', f)
  BY <1>3, TypesAre, ThinsSame
<1> QED  BY <1>2, <1>3, <1>4, Quiet

\* The file is as it was, and what the app keeps of it.
Same(f) ==
  /\ file'[f] = file[f] /\ session'[f] = session[f] /\ buffer'[f] = buffer[f]
  /\ copy'[f] = copy[f] /\ saved'[f] = saved[f]

LEMMA QuietLink ==
  ASSUME SyncTypeOK, SyncTypeOK', NEW f \in Files, FileInv(f), Same(f),
         Thins(asked, asked', f), Thins(answers, answers', f),
         \A r \in unregistered' : Carries(r, f) => r \in unregistered
  PROVE  FileInv(f)'
<1>1. file[f].size <= file'[f].size
  BY TypesAre DEF Same
<1> QED  BY <1>1, Quiet DEF Same

LEMMA LoseKeeps ==
  ASSUME SyncTypeOK, SyncTypeOK', NEW f \in Files, FileInv(f), Lose
  PROVE  FileInv(f)'
<1>1. Same(f) /\ UNCHANGED unregistered
  BY DEF Lose, readVars, copyVars, Same
<1>2. asked \in Seq(Requests) /\ answers \in Seq(Answers) /\ Len(asked) \in Nat /\ Len(answers) \in Nat
  BY TypesAre
<1>3. CASE asked # <<>> /\ asked' = Tail(asked) /\ UNCHANGED answers
  <2>1. \A i \in 1..Len(asked') : i + 1 \in 1..Len(asked) /\ asked'[i] = asked[i + 1]
    BY <1>2, <1>3, Popped
  <2> QED  BY <1>1, <1>2, <1>3, <2>1, ThinsTail, ThinsSame, QuietLink
<1>4. CASE answers # <<>> /\ answers' = Tail(answers) /\ UNCHANGED asked
  <2>1. \A i \in 1..Len(answers') : i + 1 \in 1..Len(answers) /\ answers'[i] = answers[i + 1]
    BY <1>2, <1>4, Popped
  <2> QED  BY <1>1, <1>2, <1>4, <2>1, ThinsTail, ThinsSame, QuietLink
<1> QED  BY <1>3, <1>4 DEF Lose

\* Requests that carry nothing of the file join the queue.
LEMMA SendThins ==
  ASSUME SyncTypeOK, NEW f, NEW S, S \subseteq Requests, IsFiniteSet(S), Send(S), \A r \in S : ~Carries(r, f)
  PROVE  Thins(asked, asked', f) /\ \A r \in unregistered' : Carries(r, f) => r \in unregistered
<1>1. /\ \A i \in 1..Len(asked) : asked'[i] = asked[i]
      /\ \A i \in 1..Len(asked') : i \in 1..Len(asked) \/ (i > Len(asked) /\ asked'[i] \in S)
      /\ unregistered' = unregistered \cup S
  BY SendIs DEF SyncTypeOK
<1>2. \A r \in S : ~Carries(r, f) /\ ~Ends(r, f)
  BY RequestIs DEF Ends
<1>3. \A i \in 1..Len(asked') : Carries(asked'[i], f) \/ Ends(asked'[i], f) =>
        i \in 1..Len(asked) /\ asked'[i] = asked[i]
  BY <1>1, <1>2
<1>4. Thins(asked, asked', f)
  BY <1>3, TypesAre, ThinsMore
<1> QED  BY <1>1, <1>2, <1>4

LEMMA AppendThins ==
  ASSUME SyncTypeOK, NEW f, NEW r \in Requests, asked' = Append(asked, r), ~Carries(r, f)
  PROVE  Thins(asked, asked', f)
<1>1. ~Ends(r, f)
  BY RequestIs DEF Ends
<1>2. \A i \in 1..Len(asked') : (i \in 1..Len(asked) /\ asked'[i] = asked[i]) \/ asked'[i] = r
  BY TypesAre, Pushed
<1>3. \A i \in 1..Len(asked') : Carries(asked'[i], f) \/ Ends(asked'[i], f) =>
        i \in 1..Len(asked) /\ asked'[i] = asked[i]
  BY <1>1, <1>2
<1> QED  BY <1>3, TypesAre, ThinsMore

LEMMA ReceivedThins ==
  ASSUME SyncTypeOK, NEW f, NEW m, Received(m)
  PROVE  Thins(answers, answers', f)
<1>1. \A i \in 1..Len(answers') : i + 1 \in 1..Len(answers) /\ answers'[i] = answers[i + 1]
  BY ReceivedIs DEF SyncTypeOK
<1> QED  BY <1>1, ThinsTail

LEMMA SyncSysLogsKeeps ==
  ASSUME SyncTypeOK, SyncTypeOK', NEW f \in Files, FileInv(f), SyncSysLogs
  PROVE  FileInv(f)'
<1>a. PICK o \in Nat : o = 0
  OBVIOUS
<1> DEFINE S == {ListFrom(o)}
<1>1. S \subseteq Requests /\ IsFiniteSet(S) /\ \A r \in S : ~Carries(r, f)
  BY ListFromIs, FS_Singleton DEF SyncTypeOK, Carries
<1>2. Send(S) /\ Same(f) /\ UNCHANGED answers
  BY <1>a DEF SyncSysLogs, readVars, copyVars, Same
<1> HIDE DEF S
<1>3. Thins(asked, asked', f) /\ \A r \in unregistered' : Carries(r, f) => r \in unregistered
  BY <1>1, <1>2, SendThins
<1>4. Thins(answers, answers', f)
  BY <1>2, TypesAre, ThinsSame
<1> QED  BY <1>2, <1>3, <1>4, QuietLink

LEMMA TimeoutKeeps ==
  ASSUME SyncTypeOK, SyncTypeOK', NEW f \in Files, FileInv(f), Timeout \/ UNCHANGED vars
  PROVE  FileInv(f)'
<1>1. Same(f) /\ UNCHANGED <<asked, answers, unregistered>>
  BY DEF Timeout, vars, linkVars, readVars, copyVars, Same
<1>2. Thins(asked, asked', f) /\ Thins(answers, answers', f)
  BY <1>1, TypesAre, ThinsSame
<1> QED  BY <1>1, <1>2, QuietLink

LEMMA DeleteKeeps ==
  ASSUME SyncTypeOK, SyncTypeOK', NEW f \in Files, FileInv(f), NEW g \in Files, DeleteSysLogFile(g)
  PROVE  FileInv(f)'
<1> DEFINE r == [kind |-> "delete", file |-> g]
<1>1. r \in Requests /\ ~Carries(r, f)
  BY DEF Requests, Carries
<1>2. asked' = Append(asked, r) /\ Same(f) /\ UNCHANGED <<answers, unregistered>>
  BY DEF DeleteSysLogFile, readVars, copyVars, Same
<1> HIDE DEF r
<1>3. Thins(asked, asked', f) /\ Thins(answers, answers', f)
  BY <1>1, <1>2, TypesAre, AppendThins, ThinsSame
<1> QED  BY <1>2, <1>3, QuietLink

\* Once its request is remembered, none of the file is left to remember.
LEMMA RegisterKeeps ==
  ASSUME SyncTypeOK, SyncTypeOK', NEW f \in Files, FileInv(f), Register
  PROVE  FileInv(f)'
<1>1. PICK r \in unregistered :
        /\ unregistered' = unregistered \ {r}
        /\ \/ r.kind = "list" /\ UNCHANGED session
           \/ r.kind = "read" /\ session' = [session EXCEPT ![r.file] = [id |-> r.id, from |-> r.from]]
        /\ UNCHANGED <<file, asked, answers, buffer, copy, saved>>
  BY DEF Register, copyVars
<1>2. session'[f] \in {session[f], None} \/ \A q \in unregistered' : ~Carries(q, f)
  <2>1. CASE Carries(r, f)
    BY <1>1, <2>1 DEF FileInv, OneDownload
  <2>2. CASE ~Carries(r, f)
    <3>1. session'[f] = session[f]
      BY <1>1, <2>2, TypesAre DEF Carries
    <3> QED  BY <3>1
  <2> QED  BY <2>1, <2>2
<1>3. file[f].size <= file'[f].size
  BY <1>1, TypesAre
<1>4. Thins(asked, asked', f) /\ Thins(answers, answers', f)
  BY <1>1, TypesAre, ThinsSame
<1> QED  BY <1>1, <1>2, <1>3, <1>4, Quiet

LEMMA IgnoreKeeps ==
  ASSUME SyncTypeOK, SyncTypeOK', NEW f \in Files, FileInv(f), NEW m, IgnoreList(m) \/ IgnoreRead(m)
  PROVE  FileInv(f)'
<1>1. Received(m) /\ Same(f) /\ UNCHANGED <<asked, unregistered>>
  BY DEF IgnoreList, IgnoreRead, readVars, copyVars, Same
<1>2. Thins(asked, asked', f) /\ Thins(answers, answers', f)
  BY <1>1, TypesAre, ThinsSame, ReceivedThins
<1> QED  BY <1>1, <1>2, QuietLink

LEMMA RestartKeeps ==
  ASSUME SyncTypeOK, SyncTypeOK', NEW f \in Files, FileInv(f), NEW m, RestartListing(m)
  PROVE  FileInv(f)'
<1> DEFINE r == ListFrom(0)
<1>1. r \in Requests /\ ~Carries(r, f)
  BY ListFromIs DEF SyncTypeOK, Carries
<1>2. asked' = Append(asked, r) /\ unregistered' = unregistered \cup {r} /\ Received(m) /\ Same(f)
  BY DEF RestartListing, ListAccepted, readVars, copyVars, Same
<1> HIDE DEF r
<1>3. Thins(asked, asked', f) /\ Thins(answers, answers', f)
  BY <1>1, <1>2, AppendThins, ReceivedThins
<1>4. \A q \in unregistered' : Carries(q, f) => q \in unregistered
  BY <1>1, <1>2
<1> QED  BY <1>2, <1>3, <1>4, QuietLink

LEMMA NextPageKeeps ==
  ASSUME SyncTypeOK, SyncTypeOK', NEW f \in Files, FileInv(f), NEW m, NextPage(m)
  PROVE  FileInv(f)'
<1>1. page.from \in Nat
  BY AcceptedIs DEF NextPage
<1>2. PICK o \in Nat : o = page.from + PageLimit
  BY <1>1
<1> DEFINE S == {ListFrom(o)}
<1>3. S \subseteq Requests /\ IsFiniteSet(S) /\ \A r \in S : ~Carries(r, f)
  BY ListFromIs, FS_Singleton DEF SyncTypeOK, Carries
<1>4. Send(S) /\ Received(m) /\ Same(f)
  BY <1>2 DEF NextPage, ListAccepted, readVars, copyVars, Same
<1> HIDE DEF S
<1>5. Thins(asked, asked', f) /\ \A r \in unregistered' : Carries(r, f) => r \in unregistered
  BY <1>3, <1>4, SendThins
<1> QED  BY <1>4, <1>5, ReceivedThins, QuietLink

\* What is over leaves the app with what it had, which is nothing.
LEMMA EndKeeps ==
  ASSUME SyncTypeOK, SyncTypeOK', NEW f \in Files, FileInv(f), NEW m,
         ReadMissing(m) \/ HandleDeleteItemResult(m)
  PROVE  FileInv(f)'
<1>1. Received(m) /\ UNCHANGED <<file, asked, unregistered>>
  BY DEF ReadMissing, HandleDeleteItemResult
<1>2. m = answers[1] /\ 1 \in 1..Len(answers)
  BY <1>1, ReceivedIs DEF SyncTypeOK
<1>3. Ends(m, f) => buffer[f] = None /\ (m.kind = "deleted" => saved[f] = -1)
  BY <1>2 DEF FileInv, EndsFirst
<1>4. /\ session'[f] \in {session[f], None} /\ buffer'[f] = buffer[f] /\ saved'[f] = saved[f]
      /\ saved[f] = -1 \/ copy'[f] = copy[f]
  <2>1. CASE ReadMissing(m)
    <3>1. m.file = f => Ends(m, f)
      BY <2>1 DEF ReadMissing, Ends
    <3> QED  BY <1>3, <2>1, <3>1, TypesAre DEF ReadMissing, copyVars
  <2>2. CASE HandleDeleteItemResult(m)
    <3>1. m.ok /\ m.file = f => Ends(m, f)
      BY <2>2 DEF HandleDeleteItemResult, Ends
    <3>2. UNCHANGED <<session, buffer>> /\ m.kind = "deleted"
      BY <2>2 DEF HandleDeleteItemResult, readVars
    <3>3. CASE m.ok /\ m.file = f
      <4>1. saved[f] = -1
        BY <1>3, <3>1, <3>2, <3>3
      <4>2. saved'[f] = -1
        BY <2>2, <3>3, TypesAre DEF HandleDeleteItemResult
      <4> QED  BY <3>2, <4>1, <4>2
    <3>4. CASE ~(m.ok /\ m.file = f)
      <4>1. saved'[f] = saved[f] /\ copy'[f] = copy[f]
        BY <2>2, <3>4, TypesAre DEF HandleDeleteItemResult, copyVars
      <4> QED  BY <3>2, <4>1
    <3> QED  BY <3>3, <3>4
  <2> QED  BY <2>1, <2>2
<1>5. file[f].size <= file'[f].size
  BY <1>1, TypesAre
<1>6. Thins(asked, asked', f) /\ Thins(answers, answers', f)
  BY <1>1, TypesAre, ThinsSame, ReceivedThins
<1> QED  BY <1>1, <1>4, <1>5, <1>6, Quiet

\* The chunk of a read takes the place of its request.
LEMMA ChunkKeeps ==
  ASSUME SyncTypeOK, SyncTypeOK', NEW f \in Files, FileInv(f), f \in Present \cap Ascii, Respond,
         NEW m, m = Head(asked), Carries(m, f), NEW n, n = Len(answers)
  PROVE  FileInv(f)'
<1>1. /\ FileTyped /\ asked \in Seq(Requests) /\ answers \in Seq(Answers) /\ n \in Nat
      /\ Len(asked') \in Nat /\ Len(answers') \in Nat
  BY DEF SyncTypeOK, LinkTyped
<1>2. /\ m = asked[1] /\ m \in Requests /\ 1 \in 1..Len(asked)
      /\ \A i \in 1..Len(asked') : i + 1 \in 1..Len(asked) /\ asked'[i] = asked[i + 1]
  BY <1>1, Popped DEF Respond
<1>3. m.kind = "read" /\ m.file = f /\ ~Absent(f)
  BY <1>2, RequestIs DEF Carries, Present
<1>a. UNCHANGED <<file, unregistered, session, buffer, copy, saved>>
  BY <1>3 DEF Respond, readVars, copyVars
<1>b. PICK k \in Characters(m.file, ChunkBytes(m.file, m.from)) : answers' = Append(answers, ReadFile(m, k))
  BY <1>3 DEF Respond
<1>c. PICK c : c = ReadFile(m, k)
  OBVIOUS
<1>4. /\ answers' = Append(answers, c)
      /\ UNCHANGED <<file, unregistered, session, buffer, copy, saved>>
  BY <1>a, <1>b, <1>c
<1>5. /\ c \in Answers /\ c.kind = "chunk" /\ c.file = f /\ c.id = m.id /\ c.from = m.from
      /\ c.size = file[f].size /\ k \in Nat
      /\ c.data = Slice(file[f].gen, m.from, k)
      /\ c.more = (m.from + k < c.size)
      /\ (m.from <= c.size => m.from + k <= c.size)
  <2>1. ~Absent(m.file) /\ m.file \in Ascii
    BY <1>3
  <2> QED  BY <1>1, <1>2, <1>3, <1>c, <2>1, ReadIs
<1>6. /\ Len(answers') = n + 1 /\ n + 1 \in 1..Len(answers') /\ answers'[n + 1] = c
      /\ \A i \in 1..Len(answers') : i # n + 1 => i \in 1..n /\ answers'[i] = answers[i]
  <2>1. Len(answers') = n + 1 /\ answers'[n + 1] = c /\ \A i \in 1..n : answers'[i] = answers[i]
    BY <1>1, <1>4, <1>5, Pushed
  <2>2. n + 1 \in 1..Len(answers')
    BY <1>1, <2>1
  <2>3. \A i \in 1..Len(answers') : i # n + 1 => i \in 1..n
    BY <1>1, <2>1
  <2> QED  BY <2>1, <2>2, <2>3
<1>7. Carries(c, f) /\ ~Ends(c, f) /\ Carries(m, f)
  BY <1>3, <1>5 DEF Carries, Ends
<1>8. /\ \A i \in 1..Len(asked') : ~Carries(asked'[i], f)
      /\ \A i \in 1..n : ~Carries(answers[i], f)
  <2>1. ASSUME NEW i \in 1..Len(asked') PROVE ~Carries(asked'[i], f)
    <3>1. i + 1 # 1
      BY <1>1
    <3> QED  BY <1>2, <1>7, <3>1 DEF FileInv, OneDownload
  <2>2. \A i \in 1..n : ~Carries(answers[i], f)
    BY <1>2, <1>7 DEF FileInv, OneDownload
  <2> QED  BY <2>1, <2>2
<1>9. \A i \in 1..Len(answers') : Carries(answers'[i], f) => i = n + 1
  BY <1>6, <1>8
<1>10. OneDownload(f)'
  <2>1. \A r, q \in unregistered' : Carries(r, f) /\ Carries(q, f) => r = q
    BY <1>4 DEF FileInv, OneDownload
  <2>2. ASSUME NEW r \in unregistered', Carries(r, f)
        PROVE  (session'[f] = None \/ session'[f].id # r.id) /\ c.id = r.id
    BY <1>2, <1>4, <1>5, <1>7, <2>2 DEF FileInv, OneDownload
  <2> QED  BY <1>6, <1>8, <1>9, <2>1, <2>2 DEF OneDownload
<1>11. Continued(f)'
  <2>1. m.from \in Nat /\ file[f].size \in Nat
    BY <1>1, <1>2, <1>3, RequestIs DEF FileTyped
  <2>2. Continues(m, f)
    BY <1>2, <1>7 DEF FileInv, Continued
  <2>3. Continues(c, f)'
    BY <1>4, <1>5, <2>2 DEF Continues
  <2>4. TrueChunk(c, f)'
    <3>1. Len(c.data) = k
      BY <1>5 DEF Slice
    <3>2. m.from + k <= c.size
      BY <1>5, <2>1, <2>2 DEF Continues
    <3>3. file'[f].gen = file[f].gen /\ file'[f].size = c.size
      BY <1>4, <1>5
    <3> QED  BY <1>5, <2>1, <3>1, <3>2, <3>3 DEF TrueChunk
  <2> QED  BY <1>6, <1>8, <1>9, <2>3, <2>4 DEF Continued
<1>12. EndsFirst(f)'
  <2>1. ASSUME NEW i \in 1..Len(answers'), NEW j \in 1..Len(answers'), i < j, Carries(answers'[i], f)
        PROVE  FALSE
    BY <1>1, <1>6, <1>9, <2>1
  <2>2. ASSUME NEW i \in 1..Len(answers'), Ends(answers'[i], f)
        PROVE  buffer'[f] = None /\ (answers'[i].kind = "deleted" => saved'[f] = -1)
    <3>1. i \in 1..n /\ answers'[i] = answers[i]
      BY <1>6, <1>7, <2>2
    <3> QED  BY <1>4, <2>2, <3>1 DEF FileInv, EndsFirst
  <2> QED  BY <2>1, <2>2 DEF EndsFirst
<1>13. Copied(f)'
  BY <1>4 DEF FileInv, Copied
<1> QED  BY <1>10, <1>11, <1>12, <1>13 DEF FileInv

LEMMA RespondKeeps ==
  ASSUME SyncTypeOK, SyncTypeOK', NEW f \in Files, FileInv(f), f \in Present \cap Ascii, f \in Present', Respond
  PROVE  FileInv(f)'
<1> DEFINE m == Head(asked)
<1>1. CASE Carries(m, f)
  <2>1. PICK r : r = m
    OBVIOUS
  <2>2. PICK n : n = Len(answers)
    OBVIOUS
  <2> QED  BY <1>1, <2>1, <2>2, ChunkKeeps
<1>2. CASE ~Carries(m, f)
  <2>1. /\ FileTyped /\ FileTyped' /\ asked \in Seq(Requests) /\ answers \in Seq(Answers)
        /\ Len(asked) \in Nat /\ Len(answers) \in Nat
    BY DEF SyncTypeOK, LinkTyped
  <2>2. /\ m \in Requests
        /\ \A i \in 1..Len(asked') : i + 1 \in 1..Len(asked) /\ asked'[i] = asked[i + 1]
    BY <2>1, Popped DEF Respond
  <2>3. UNCHANGED <<unregistered, session, buffer, copy, saved>>
    BY DEF Respond, readVars, copyVars
  <2>4. PICK a \in Answers : /\ answers' = Append(answers, a)
                             /\ ~Carries(a, f) /\ ~Ends(a, f) /\ file'[f] = file[f]
    <3>1. CASE m.kind = "list" /\ answers' = Append(answers, ListDir(m)) /\ UNCHANGED file
      <4>1. ListDir(m) \in Answers /\ ListDir(m).kind = "entries"
        BY <2>1, <2>2, <3>1, PageTyped DEF ListDir
      <4> QED  BY <3>1, <4>1 DEF Carries, Ends
    <3>2. CASE /\ m.kind = "read" /\ UNCHANGED file
               /\ \E k \in Characters(m.file, ChunkBytes(m.file, m.from)) : answers' = Append(answers, ReadFile(m, k))
      <4>1. m.file # f
        BY <1>2, <3>2 DEF Carries
      <4>2. \A k \in Characters(m.file, ChunkBytes(m.file, m.from)) :
              ReadFile(m, k) \in Answers /\ ReadFile(m, k).file = m.file
        BY <2>1, <2>2, <3>2, ReadIs, MissingIs
      <4> QED  BY <3>2, <4>1, <4>2 DEF Carries, Ends
    <3>3. CASE m.kind = "delete" /\ answers' = Append(answers, DeleteItem(m)) /\ file' = [file EXCEPT ![m.file].size = 0]
      <4>1. m.file \in Files
        BY <2>2, <3>3, RequestIs
      <4>2. m.file # f
        BY <2>1, <3>3, <4>1 DEF Present, Absent, FileTyped
      <4>3. file'[f] = file[f]
        BY <2>1, <3>3, <4>1, <4>2 DEF FileTyped
      <4>4. DeleteItem(m) \in Answers /\ DeleteItem(m).file = m.file
        BY <2>2, <3>3, DeletedIs
      <4> QED  BY <3>3, <4>2, <4>3, <4>4 DEF Carries, Ends
    <3> QED  BY <3>1, <3>2, <3>3 DEF Respond
  <2>5. \A i \in 1..Len(answers') : Carries(answers'[i], f) \/ Ends(answers'[i], f) =>
          i \in 1..Len(answers) /\ answers'[i] = answers[i]
    BY <2>1, <2>4, Pushed
  <2>6. Thins(asked, asked', f) /\ Thins(answers, answers', f)
    BY <2>1, <2>2, <2>5, ThinsTail, ThinsMore
  <2>7. Same(f)
    BY <2>3, <2>4 DEF Same
  <2> QED  BY <2>3, <2>6, <2>7, QuietLink
<1> QED  BY <1>1, <1>2

\* An entry that is smaller than what is saved has the download begun.
LEMMA ReplacedIs ==
  ASSUME SyncTypeOK, NEW f \in Files, NEW es \in Seq(Nat \ {0}), Replaced(f, es)
  PROVE  \E j \in Wanted(f, es) : ReadStart(f, es, j) = 0
<1>1. saved[f] \in Nat \cup {-1}
  BY TypesAre
<1>2. PICK j \in 1..Len(es) : es[j] < saved[f]
  BY DEF Replaced
<1>3. es[j] \in Nat
  BY ElementOfSeq
<1>4. SavedAt(f, es, j) \in {-1, saved[f]}
  BY DEF SavedAt
<1>5. j \in Wanted(f, es)
  BY <1>1, <1>2, <1>3, <1>4 DEF Wanted
<1>6. ReadStart(f, es, j) = 0
  BY <1>1, <1>2, <1>3, <1>4 DEF ReadStart
<1> QED  BY <1>5, <1>6

\* A download that is not doubted begins with nothing of the file under way.
LEMMA WantedKeeps ==
  ASSUME SyncTypeOK, SyncTypeOK', NEW f \in Files, FileInv(f), NEW m, ProcessDirEntries(m),
         NEW es, es = Entries(m), NEW w \in Wanted(f, es[f]), f \notin doubtful'
  PROVE  FileInv(f)'
<1> DEFINE S == UNION {Reads(g, es[g]) : g \in Files}
<1>1. es \in Lists /\ es[f] \in Seq(Nat \ {0})
  BY AcceptedIs DEF ProcessDirEntries, Lists
<1>2. /\ Send(S) /\ NoteOverlaps(es) /\ UNCHANGED <<file, session, buffer>>
      /\ saved' = [g \in Files |-> IF Replaced(g, es[g]) THEN -1 ELSE saved[g]]
      /\ copy' = [g \in Files |-> IF Replaced(g, es[g]) THEN <<>> ELSE copy[g]]
  BY DEF ProcessDirEntries, readVars
<1>3. /\ S \subseteq Requests /\ IsFiniteSet(S)
      /\ \A r \in S : r \in Reads(r.file, es[r.file])
      /\ w \in Nat \ {0} /\ ReadStart(f, es[f], w) \in {0, saved[f]} \cap Nat
  BY <1>1, ReadsAre, StartIs
<1>4. buffer[f] = None /\ Aimed(f) = {} /\ \A j \in Wanted(f, es[f]) : j = w
  BY <1>2 DEF NoteOverlaps
<1>5. /\ asked \in Seq(Requests) /\ answers \in Seq(Answers)
      /\ Len(asked) \in Nat /\ Len(answers) \in Nat
      /\ file[f].size \in Nat /\ saved[f] \in Nat \cup {-1}
  BY DEF SyncTypeOK, LinkTyped, FileTyped, CopyTyped
<1>6. /\ \A i \in 1..Len(asked) : ~Carries(asked[i], f)
      /\ \A i \in 1..Len(answers) : ~Carries(answers[i], f)
      /\ \A r \in unregistered : ~Carries(r, f)
  <2>1. DOMAIN asked = 1..Len(asked) /\ DOMAIN answers = 1..Len(answers)
    BY <1>5
  <2>2. /\ \A i \in 1..Len(asked) : asked[i] \in UnderWay
        /\ \A i \in 1..Len(answers) : answers[i] \in UnderWay
        /\ \A r \in unregistered : r \in UnderWay
    BY <2>1 DEF UnderWay, ToSet
  <2> QED  BY <1>4, <2>2 DEF Aimed, Carries
<1>a. PICK o : o = ReadStart(f, es[f], w)
  OBVIOUS
<1>b. PICK q : q = ReadFrom(f, o, w)
  OBVIOUS
<1>7. q \in Requests /\ q.kind = "read" /\ q.file = f /\ q.from = o
      /\ (session[f] = None \/ session[f].id # q.id)
  <2>1. o \in Nat /\ w \in Nat \ {0}
    BY <1>3, <1>a
  <2> QED  BY <1>b, <2>1, ReadFromIs DEF SyncTypeOK
<1>8. ASSUME NEW r \in S, Carries(r, f) PROVE r = q
  <2>1. r \in Reads(f, es[f])
    <3> HIDE DEF S
    <3> QED  BY <1>3, <1>8 DEF Carries
  <2>2. PICK j \in Wanted(f, es[f]) : r = ReadFrom(f, ReadStart(f, es[f], j), j)
    BY <2>1 DEF Reads
  <2>3. j = w
    BY <1>4
  <2> QED  BY <1>a, <1>b, <2>2, <2>3
<1>9. o \in Nat /\ (o = 0 \/ o = saved[f])
  BY <1>3, <1>a
<1>10. /\ saved'[f] = IF Replaced(f, es[f]) THEN -1 ELSE saved[f]
       /\ copy'[f] = IF Replaced(f, es[f]) THEN <<>> ELSE copy[f]
  BY <1>2
<1>11. Replaced(f, es[f]) => o = 0
  BY <1>1, <1>4, <1>a, ReplacedIs
<1> HIDE DEF S
<1>12. /\ Len(asked') \in Nat
       /\ \A i \in 1..Len(asked) : asked'[i] = asked[i]
       /\ \A i \in 1..Len(asked') : i \in 1..Len(asked) \/ (i > Len(asked) /\ asked'[i] \in S)
       /\ \A i, j \in 1..Len(asked') : i > Len(asked) /\ j > Len(asked) /\ asked'[i] = asked'[j] => i = j
       /\ unregistered' = unregistered \cup S
  BY <1>2, <1>3, SendIs DEF SyncTypeOK
<1>13. \A i \in 1..Len(asked') : Carries(asked'[i], f) => i > Len(asked) /\ asked'[i] = q
  BY <1>6, <1>8, <1>12
<1>14. \A r \in unregistered' : Carries(r, f) => r = q
  BY <1>6, <1>8, <1>12
<1>15. /\ Len(answers') \in Nat
       /\ \A i \in 1..Len(answers') : i + 1 \in 1..Len(answers) /\ answers'[i] = answers[i + 1]
  BY <1>5, ReceivedIs DEF ProcessDirEntries, ListAccepted, SyncTypeOK
<1>16. \A i \in 1..Len(answers') : ~Carries(answers'[i], f)
  BY <1>6, <1>15
<1>17. Copied(f)'
  BY <1>2, <1>5, <1>10 DEF FileInv, Copied
<1>18. OneDownload(f)'
  <2>1. \A i, j \in 1..Len(asked') : Carries(asked'[i], f) /\ Carries(asked'[j], f) => i = j
    BY <1>12, <1>13
  <2> QED  BY <1>2, <1>7, <1>13, <1>14, <1>16, <2>1 DEF OneDownload
<1>19. Continued(f)'
  <2>1. o <= file[f].size
    BY <1>5, <1>9 DEF FileInv, Copied
  <2>2. Continues(q, f)'
    BY <1>2, <1>4, <1>7, <1>9, <1>10, <1>11, <2>1 DEF Continues
  <2> QED  BY <1>13, <1>16, <2>2 DEF Continued
<1>20. EndsFirst(f)'
  BY <1>2, <1>10, <1>15, <1>16 DEF FileInv, EndsFirst
<1> QED  BY <1>17, <1>18, <1>19, <1>20 DEF FileInv

LEMMA ProcessKeeps ==
  ASSUME SyncTypeOK, SyncTypeOK', NEW f \in Files, FileInv(f), NEW m, ProcessDirEntries(m), f \notin doubtful'
  PROVE  FileInv(f)'
<1> DEFINE es == Entries(m)
           S == UNION {Reads(g, es[g]) : g \in Files}
<1>1. es \in Lists /\ es[f] \in Seq(Nat \ {0})
  BY AcceptedIs DEF ProcessDirEntries, Lists
<1>2. Send(S) /\ UNCHANGED <<file, session, buffer>>
  BY DEF ProcessDirEntries, readVars
<1>3. /\ saved' = [g \in Files |-> IF Replaced(g, es[g]) THEN -1 ELSE saved[g]]
      /\ copy' = [g \in Files |-> IF Replaced(g, es[g]) THEN <<>> ELSE copy[g]]
  BY DEF ProcessDirEntries
<1>4. CASE Wanted(f, es[f]) # {}
  BY <1>4, WantedKeeps
<1>5. CASE Wanted(f, es[f]) = {}
  <2> HIDE DEF es
  <2>1. S \subseteq Requests /\ IsFiniteSet(S) /\ \A r \in S : r \in Reads(r.file, es[r.file])
    BY <1>1, ReadsAre
  <2> HIDE DEF S
  <2>2. \A r \in S : ~Carries(r, f)
    BY <1>5, <2>1 DEF Carries, Reads
  <2>3. Thins(asked, asked', f) /\ \A r \in unregistered' : Carries(r, f) => r \in unregistered
    BY <1>2, <2>1, <2>2, SendThins
  <2>4. ~Replaced(f, es[f])
    BY <1>1, <1>5, ReplacedIs
  <2>5. Same(f)
    BY <1>2, <1>3, <2>4 DEF Same
  <2>6. Thins(answers, answers', f)
    BY ReceivedThins DEF ProcessDirEntries, ListAccepted
  <2> QED  BY <2>3, <2>5, <2>6, QuietLink
<1> QED  BY <1>4, <1>5

\* When the awaited chunk of a file comes, nothing else of it is under way, or over behind it.
LEMMA AloneWhenExpected ==
  ASSUME SyncTypeOK, NEW m, Received(m), m.kind = "chunk", Expected(m), NEW f \in Files, f = m.file, FileInv(f)
  PROVE  /\ \A i \in 1..Len(asked) : ~Carries(asked[i], f)
         /\ \A r \in unregistered : ~Carries(r, f)
         /\ \A i \in 1..Len(answers') : ~Carries(answers'[i], f) /\ ~Ends(answers'[i], f)
         /\ Continues(m, f) /\ TrueChunk(m, f) /\ Copied(f)
<1>1. /\ m = answers[1] /\ 1 \in 1..Len(answers) /\ Len(answers) \in Nat /\ Len(answers') \in Nat
      /\ \A i \in 1..Len(answers') : i + 1 \in 1..Len(answers) /\ answers'[i] = answers[i + 1]
  BY ReceivedIs DEF SyncTypeOK
<1>2. Carries(m, f)
  BY DEF Carries
<1>3. \A i \in 1..Len(asked) : ~Carries(asked[i], f)
  BY <1>1, <1>2 DEF FileInv, OneDownload
<1>4. ASSUME NEW r \in unregistered, Carries(r, f) PROVE FALSE
  <2>1. m.id = r.id /\ (session[f] = None \/ session[f].id # r.id)
    BY <1>1, <1>2, <1>4 DEF FileInv, OneDownload
  <2>2. session[f] # None /\ session[f].id = m.id
    <3>1. session[f] = [id |-> m.id, from |-> m.from]
      BY DEF Expected
    <3>2. [id |-> m.id, from |-> m.from] # None /\ [id |-> m.id, from |-> m.from].id = m.id
      BY DEF None
    <3> QED  BY <3>1, <3>2
  <2> QED  BY <2>1, <2>2
<1>5. ASSUME NEW i \in 1..Len(answers')
      PROVE  ~Carries(answers'[i], f) /\ ~Ends(answers'[i], f)
  <2>1. i + 1 # 1 /\ 1 < i + 1
    OBVIOUS
  <2> QED  BY <1>1, <1>2, <2>1 DEF FileInv, OneDownload, EndsFirst
<1>6. Continues(m, f) /\ TrueChunk(m, f)
  BY <1>1, <1>2 DEF FileInv, Continued
<1> QED  BY <1>3, <1>4, <1>5, <1>6 DEF FileInv

LEMMA ReadMoreKeeps ==
  ASSUME SyncTypeOK, SyncTypeOK', NEW f \in Files, FileInv(f), NEW m, ReadMore(m)
  PROVE  FileInv(f)'
<1>1. /\ m \in Answers /\ m.kind = "chunk" /\ m.more /\ Received(m) /\ Expected(m)
      /\ answers' \in Seq(Answers)
      /\ \A i \in 1..Len(answers') : i + 1 \in 1..Len(answers) /\ answers'[i] = answers[i + 1]
  BY ReceivedIs DEF ReadMore, SyncTypeOK
<1>2. /\ m.file \in Files /\ m.from \in Nat /\ m.size \in Nat /\ m.data \in Seq(Units)
      /\ asked \in Seq(Requests) /\ Len(asked) \in Nat
      /\ file[f].size \in Nat /\ saved[f] \in Nat \cup {-1}
  BY <1>1, AnswerIs DEF SyncTypeOK, LinkTyped, FileTyped, CopyTyped
<1>a. PICK o : o = m.from + Len(m.data)
  OBVIOUS
<1>b. PICK q : q = ReadFrom(m.file, o, 1)
  OBVIOUS
<1> DEFINE S == {q}
<1>3. /\ Send(S) /\ UNCHANGED <<file, session, copy, saved>>
      /\ buffer' = [buffer EXCEPT ![m.file] = [text |-> Buffered(m)]]
  BY <1>a, <1>b DEF ReadMore, copyVars
<1>4. o \in Nat
  BY <1>2, <1>a, LenProperties
<1>5. q \in Requests /\ q.kind = "read" /\ q.file = m.file /\ q.from = o
      /\ (session[m.file] = None \/ session[m.file].id # q.id)
  <2>1. PICK g \in Files : g = m.file
    BY <1>2
  <2>2. PICK k \in Nat \ {0} : k = 1
    OBVIOUS
  <2>3. PICK p \in Nat : p = o
    BY <1>4
  <2>4. q = ReadFrom(g, p, k) /\ LinkTyped
    BY <1>b, <2>1, <2>2, <2>3 DEF SyncTypeOK
  <2>5. q \in Requests /\ q.kind = "read" /\ q.file = g /\ q.from = p /\ (session[g] = None \/ session[g].id # q.id)
    BY <2>4, ReadFromIs
  <2> QED  BY <2>1, <2>3, <2>5
<1>6. S \subseteq Requests /\ IsFiniteSet(S) /\ \A r \in S : r = q
  BY <1>5, FS_Singleton
<1> HIDE DEF S
<1>7. /\ \A i \in 1..Len(asked) : asked'[i] = asked[i]
      /\ \A i \in 1..Len(asked') : i \in 1..Len(asked) \/ (i > Len(asked) /\ asked'[i] \in S)
      /\ \A i, j \in 1..Len(asked') : i > Len(asked) /\ j > Len(asked) /\ asked'[i] = asked'[j] => i = j
      /\ unregistered' = unregistered \cup S
  BY <1>3, <1>6, SendIs DEF SyncTypeOK
<1>8. \A r \in unregistered' : r \in unregistered \/ r = q
  BY <1>6, <1>7
<1>9. CASE m.file # f
  <2>1. \A r \in S : ~Carries(r, f)
    BY <1>5, <1>6, <1>9 DEF Carries
  <2>2. Thins(asked, asked', f) /\ \A r \in unregistered' : Carries(r, f) => r \in unregistered
    BY <1>3, <1>6, <2>1, SendThins
  <2>3. Same(f)
    BY <1>3, <1>9, TypesAre DEF Same
  <2> QED  BY <1>1, <2>2, <2>3, ReceivedThins, QuietLink
<1>10. CASE m.file = f
  <2>1. /\ \A i \in 1..Len(asked) : ~Carries(asked[i], f)
        /\ \A r \in unregistered : ~Carries(r, f)
        /\ \A i \in 1..Len(answers') : ~Carries(answers'[i], f) /\ ~Ends(answers'[i], f)
        /\ Continues(m, f) /\ TrueChunk(m, f) /\ Copied(f)
    BY <1>1, <1>10, AloneWhenExpected
  <2>2. Buffered(m) = Text(file[f].gen, o) /\ o <= m.size
    BY <1>1, <1>10, <1>a, <2>1, BufferedIs
  <2>3. buffer'[f] = [text |-> Buffered(m)] /\ buffer'[f] # None /\ buffer'[f].text = Buffered(m)
    <3>1. buffer'[f] = [text |-> Buffered(m)]
      BY <1>3, <1>10 DEF SyncTypeOK, ReadTyped
    <3>2. [text |-> Buffered(m)] # None /\ [text |-> Buffered(m)].text = Buffered(m)
      BY DEF None
    <3> QED  BY <3>1, <3>2
  <2>4. \A i \in 1..Len(asked') : Carries(asked'[i], f) => i > Len(asked) /\ asked'[i] = q
    BY <1>6, <1>7, <2>1
  <2>5. \A r \in unregistered' : Carries(r, f) => r = q
    BY <1>8, <2>1
  <2>6. Copied(f)'
    BY <1>3, <2>1 DEF Copied
  <2>7. OneDownload(f)'
    <3>1. \A i, j \in 1..Len(asked') : Carries(asked'[i], f) /\ Carries(asked'[j], f) => i = j
      BY <1>7, <2>4
    <3> QED  BY <1>3, <1>5, <1>10, <2>1, <2>4, <2>5, <3>1 DEF OneDownload
  <2>8. Continued(f)'
    <3>1. o <= file[f].size
      BY <1>2, <1>4, <2>1, <2>2 DEF TrueChunk
    <3>2. Continues(q, f)'
      BY <1>3, <1>5, <2>2, <2>3, <3>1 DEF Continues
    <3> QED  BY <2>1, <2>4, <3>2 DEF Continued
  <2>9. EndsFirst(f)'
    BY <2>1 DEF EndsFirst
  <2> QED  BY <2>6, <2>7, <2>8, <2>9 DEF FileInv
<1> QED  BY <1>9, <1>10

LEMMA ReadLastKeeps ==
  ASSUME SyncTypeOK, SyncTypeOK', NEW f \in Files, FileInv(f), NEW m, ReadLast(m)
  PROVE  FileInv(f)'
<1>1. /\ m \in Answers /\ m.kind = "chunk" /\ ~m.more /\ Received(m) /\ Expected(m)
      /\ \A i \in 1..Len(answers') : i + 1 \in 1..Len(answers) /\ answers'[i] = answers[i + 1]
  BY ReceivedIs DEF ReadLast, SyncTypeOK
<1>2. /\ m.file \in Files /\ m.from \in Nat /\ m.size \in Nat /\ m.data \in Seq(Units)
      /\ Len(asked) \in Nat /\ file[f].size \in Nat
  BY <1>1, AnswerIs DEF SyncTypeOK, LinkTyped, FileTyped
<1>3. UNCHANGED <<file, asked, unregistered>>
  BY DEF ReadLast
<1>4. /\ session' = [session EXCEPT ![m.file] = None] /\ buffer' = [buffer EXCEPT ![m.file] = None]
      /\ copy' = [copy EXCEPT ![m.file] = Buffered(m)] /\ saved' = [saved EXCEPT ![m.file] = m.size]
  BY DEF ReadLast
<1>5. DOMAIN session = Files /\ DOMAIN buffer = Files /\ DOMAIN copy = Files /\ DOMAIN saved = Files
  BY DEF SyncTypeOK, ReadTyped, CopyTyped
<1>6. CASE m.file # f
  <2>1. Same(f)
    BY <1>3, <1>4, <1>5, <1>6 DEF Same
  <2>2. Thins(asked, asked', f) /\ Thins(answers, answers', f)
    BY <1>1, <1>3, TypesAre, ThinsSame, ReceivedThins
  <2> QED  BY <1>3, <2>1, <2>2, QuietLink
<1>7. CASE m.file = f
  <2>1. /\ \A i \in 1..Len(asked) : ~Carries(asked[i], f)
        /\ \A r \in unregistered : ~Carries(r, f)
        /\ \A i \in 1..Len(answers') : ~Carries(answers'[i], f) /\ ~Ends(answers'[i], f)
        /\ Continues(m, f) /\ TrueChunk(m, f) /\ Copied(f)
    BY <1>1, <1>7, AloneWhenExpected
  <2>2. Buffered(m) = Text(file[f].gen, m.size)
    <3> DEFINE o == m.from + Len(m.data)
    <3>1. Buffered(m) = Text(file[f].gen, o) /\ (~m.more => o = m.size)
      BY <1>1, <1>7, <2>1, BufferedIs
    <3> QED  BY <1>1, <3>1
  <2>3. copy'[f] = Text(file[f].gen, m.size) /\ saved'[f] = m.size
    BY <1>4, <1>5, <1>7, <2>2
  <2>4. Copied(f)'
    BY <1>3, <2>1, <2>3 DEF Copied, TrueChunk
  <2>5. OneDownload(f)' /\ Continued(f)' /\ EndsFirst(f)'
    BY <1>3, <2>1 DEF OneDownload, Continued, EndsFirst
  <2> QED  BY <2>4, <2>5 DEF FileInv
<1> QED  BY <1>6, <1>7

-----------------------------------------------------------------------------
(* Theorems *)

\* Who is trusted after a step was trusted before it, or is a file just created.
LEMMA TrustedBefore ==
  ASSUME SyncTypeOK, NEW f \in Files, [SyncNext]_vars, Trusted(f)'
  PROVE  f \notin doubtful' /\ f \in Present' /\ f \in Ascii /\ (Trusted(f) \/ Create(f))
<1>1. f \notin doubtful' /\ f \in Present' /\ f \in Ascii
  BY DEF Trusted
<1>2. doubtful \subseteq doubtful'
  BY DEF SyncNext, Append1, Create, CleanUp, DeleteSysLogFile, Respond, Lose, SyncSysLogs, Timeout, Register,
         Arrival, IgnoreList, RestartListing, NextPage, ProcessDirEntries, NoteOverlaps, ReadMissing,
         IgnoreRead, ReadMore, ReadLast, HandleDeleteItemResult, vars
<1>3. f \in Present \/ Create(f)
  <2>1. FileTyped
    BY DEF SyncTypeOK
  <2>2. CASE UNCHANGED file
    BY <1>1, <2>2 DEF Present, Absent
  <2>3. CASE \E g \in Files : Append1(g) \/ Create(g) \/ CleanUp(g)
    BY <1>1, <2>1, <2>3 DEF Present, Absent, FileTyped, Append1, Create, CleanUp
  <2>4. CASE Respond
    <3>1. asked \in Seq(Requests) /\ asked # <<>>
      BY <2>4 DEF SyncTypeOK, LinkTyped, Respond
    <3>2. Head(asked) \in Requests
      BY <3>1, Popped
    <3>3. CASE Head(asked).kind = "delete" /\ file' = [file EXCEPT ![Head(asked).file].size = 0]
      <4>1. Head(asked).file \in Files
        BY <3>2, <3>3, RequestIs
      <4> QED  BY <1>1, <2>1, <3>3, <4>1 DEF Present, Absent, FileTyped
    <3> QED  BY <2>2, <2>4, <3>3 DEF Respond
  <2>5. CASE Arrival
    BY <2>2, <2>5 DEF Arrival, IgnoreList, RestartListing, NextPage, ProcessDirEntries, ReadMissing,
                      IgnoreRead, ReadMore, ReadLast, HandleDeleteItemResult
  <2>6. CASE \E g \in Files : DeleteSysLogFile(g)
    BY <2>2, <2>6 DEF DeleteSysLogFile
  <2>7. CASE Lose \/ SyncSysLogs \/ Timeout \/ Register \/ UNCHANGED vars
    BY <2>2, <2>7 DEF Lose, SyncSysLogs, Timeout, Register, vars
  <2> QED  BY <2>3, <2>4, <2>5, <2>6, <2>7 DEF SyncNext
<1> QED  BY <1>1, <1>2, <1>3 DEF Trusted

LEMMA FileKept ==
  ASSUME SyncInv, [SyncNext]_vars, SyncTypeOK', NEW f \in Files, Trusted(f)'
  PROVE  FileInv(f)'
<1>1. SyncTypeOK
  BY DEF SyncInv
<1>2. f \notin doubtful' /\ f \in Present' /\ f \in Ascii /\ (Trusted(f) \/ Create(f))
  BY <1>1, TrustedBefore
<1>3. CASE Create(f)
  BY <1>1, <1>2, <1>3, CreateKeeps
<1>4. CASE Trusted(f) /\ ~Create(f)
  <2>1. FileInv(f) /\ f \in Present
    BY <1>4 DEF SyncInv, Trusted
  <2>2. ~CleanUp(f)
    BY <1>1, <1>2 DEF SyncTypeOK, FileTyped, CleanUp, Present, Absent
  <2>3. CASE \E g \in Files : Append1(g) \/ Create(g) \/ CleanUp(g) \/ DeleteSysLogFile(g)
    <3>1. PICK g \in Files : Append1(g) \/ Create(g) \/ CleanUp(g) \/ DeleteSysLogFile(g)
      BY <2>3
    <3>2. Create(g) \/ CleanUp(g) => g # f
      BY <1>4, <2>2
    <3> QED  BY <1>1, <2>1, <3>1, <3>2, GrowthKeeps, DeleteKeeps
  <2>4. CASE Arrival
    <3> DEFINE m == Head(answers)
    <3>1. \/ IgnoreList(m) \/ RestartListing(m) \/ NextPage(m) \/ ProcessDirEntries(m)
          \/ ReadMissing(m) \/ IgnoreRead(m) \/ ReadMore(m) \/ ReadLast(m)
          \/ HandleDeleteItemResult(m)
      BY <2>4 DEF Arrival
    <3> HIDE DEF m
    <3> QED  BY <1>1, <1>2, <2>1, <3>1, IgnoreKeeps, RestartKeeps, NextPageKeeps, ProcessKeeps, EndKeeps, ReadMoreKeeps, ReadLastKeeps
  <2>5. CASE Respond
    BY <1>1, <1>2, <2>1, <2>5, RespondKeeps
  <2>6. CASE Lose \/ SyncSysLogs \/ Timeout \/ Register \/ UNCHANGED vars
    BY <1>1, <2>1, <2>6, LoseKeeps, SyncSysLogsKeeps, TimeoutKeeps, RegisterKeeps
  <2> QED  BY <2>3, <2>4, <2>5, <2>6 DEF SyncNext
<1> QED  BY <1>2, <1>3, <1>4

\* Of every file of ASCII text that is trusted, one request or chunk at most is under way, it continues
\* what the app holds, and what the app has saved is the file's text.
THEOREM SyncInvariant == SyncSafety => []SyncInv
<1>1. SyncInit => SyncInv
  <2> SUFFICES ASSUME SyncInit, NEW f \in Files PROVE SyncTypeOK /\ FileInv(f)
    BY InitTyped DEF SyncInv
  <2>1. SyncTypeOK
    BY InitTyped
  <2>2. asked = <<>> /\ answers = <<>> /\ unregistered = {} /\ saved[f] = -1
    BY DEF SyncInit
  <2>3. Copied(f) /\ OneDownload(f) /\ Continued(f) /\ EndsFirst(f)
    BY <2>2 DEF Copied, OneDownload, Continued, EndsFirst
  <2> QED  BY <2>1, <2>3 DEF FileInv
<1>2. SyncInv /\ [SyncNext]_vars => SyncInv'
  <2> SUFFICES ASSUME SyncInv, [SyncNext]_vars PROVE SyncInv'
    OBVIOUS
  <2>1. SyncTypeOK'
    BY TypesKept DEF SyncInv
  <2>2. ASSUME NEW f \in Files, Trusted(f)' PROVE FileInv(f)'
    BY <2>1, <2>2, FileKept
  <2> QED  BY <2>1, <2>2 DEF SyncInv
<1> QED  BY <1>1, <1>2, PTL DEF SyncSafety

\* The copy the app keeps of a file of ASCII text is the file's text up to the size saved
\* with it, for any files, sizes and generations, pages and chunks of any length and any
\* number of mishaps.
THEOREM CopiesAreTrue == SyncSafety => []CopyIsTheFile
<1>1. SyncInv => CopyIsTheFile
  BY DEF SyncInv, Trusted, FileInv, Copied, CopyIsTheFile, Present
<1> QED  BY <1>1, SyncInvariant, PTL
=============================================================================
