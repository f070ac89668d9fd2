-------------------------- MODULE VoiceSessionProofs --------------------------
(***************************************************************************)
(* What a voice session and the conversation it is flushed into promise,   *)
(* for any number of page tabs, sockets, turns, events and faults.         *)
(***************************************************************************)
EXTENDS VoiceSession, WellFoundedInduction, TLAPS

-----------------------------------------------------------------------------
(* Sequences *)

LEMMA LeastNatural == \A T : T # {} /\ T \subseteq Nat => \E m \in T : \A n \in T : m <= n
<1> SUFFICES ASSUME NEW T, T # {}, T \subseteq Nat PROVE \E m \in T : \A n \in T : m <= n
  OBVIOUS
<1> DEFINE Less == OpToRel(<, Nat)
<1>1. \A x, y \in Nat : x < y => <<x, y>> \in Less
  BY DEF OpToRel
<1>2. IsWellFoundedOn(Less, Nat)
  BY NatLessThanWellFounded
<1> HIDE DEF Less
<1>3. PICK m \in T : \A n \in T : ~(<<n, m>> \in Less)
  BY <1>2, WFMin
<1>4. ASSUME NEW n \in T PROVE m <= n
  <2>1. m \in Nat /\ n \in Nat
    OBVIOUS
  <2>2. ~(n < m)
    BY <2>1, <1>1, <1>3
  <2> QED
    BY <2>1, <2>2
<1> QED
  BY <1>4

LEMMA AppendSet ==
    ASSUME NEW T, NEW s \in Seq(T), NEW m
    PROVE  ToSet(Append(s, m)) = ToSet(s) \cup {m}
<1>1. /\ Len(Append(s, m)) = Len(s) + 1 /\ Append(s, m)[Len(s) + 1] = m
      /\ \A i \in 1..Len(s) : Append(s, m)[i] = s[i]
      /\ DOMAIN Append(s, m) = 1..(Len(s) + 1) /\ DOMAIN s = 1..Len(s)
      /\ Len(s) \in Nat
  OBVIOUS
<1>2. ASSUME NEW x \in ToSet(Append(s, m)) PROVE x \in ToSet(s) \cup {m}
  <2>1. PICK i \in 1..(Len(s) + 1) : x = Append(s, m)[i]
    BY <1>1, <1>2 DEF ToSet
  <2>2. CASE i = Len(s) + 1
    BY <1>1, <2>1, <2>2
  <2>3. CASE i \in 1..Len(s)
    BY <1>1, <2>1, <2>3 DEF ToSet
  <2> QED
    BY <1>1, <2>2, <2>3
<1>3. ToSet(s) \subseteq ToSet(Append(s, m))
  <2> SUFFICES ASSUME NEW i \in 1..Len(s) PROVE s[i] \in ToSet(Append(s, m))
    BY <1>1 DEF ToSet
  <2>1. i \in 1..(Len(s) + 1) /\ Append(s, m)[i] = s[i]
    BY <1>1
  <2> QED
    BY <1>1, <2>1 DEF ToSet
<1>4. m \in ToSet(Append(s, m))
  <2>1. Len(s) + 1 \in 1..(Len(s) + 1)
    BY <1>1
  <2> QED
    BY <1>1, <2>1 DEF ToSet
<1> QED
  BY <1>2, <1>3, <1>4

LEMMA ConcatSet ==
    ASSUME NEW T, NEW s \in Seq(T), NEW u \in Seq(T)
    PROVE  s \o u \in Seq(T) /\ ToSet(s \o u) = ToSet(s) \cup ToSet(u)
<1>1. /\ s \o u \in Seq(T) /\ Len(s \o u) = Len(s) + Len(u)
      /\ \A i \in 1..Len(s) : (s \o u)[i] = s[i]
      /\ \A i \in 1..Len(u) : (s \o u)[Len(s) + i] = u[i]
      /\ DOMAIN (s \o u) = 1..(Len(s) + Len(u))
      /\ DOMAIN s = 1..Len(s) /\ DOMAIN u = 1..Len(u) /\ Len(s) \in Nat /\ Len(u) \in Nat
  OBVIOUS
<1>2. ASSUME NEW i \in 1..(Len(s) + Len(u)) PROVE (s \o u)[i] \in ToSet(s) \cup ToSet(u)
  <2>1. CASE i <= Len(s)
    <3>1. i \in 1..Len(s)
      BY <2>1, <1>1
    <3> QED
      BY <3>1, <1>1 DEF ToSet
  <2>2. CASE i > Len(s)
    <3>1. PICK j \in 1..Len(u) : i = Len(s) + j
      <4>1. i - Len(s) \in 1..Len(u) /\ i = Len(s) + (i - Len(s))
        BY <2>2, <1>1
      <4> QED
        BY <4>1
    <3> QED
      BY <3>1, <1>1 DEF ToSet
  <2> QED
    BY <2>1, <2>2, <1>1
<1>3. ToSet(s \o u) \subseteq ToSet(s) \cup ToSet(u)
  BY <1>1, <1>2 DEF ToSet
<1>4. ASSUME NEW i \in 1..Len(s) PROVE s[i] \in ToSet(s \o u)
  <2>1. i \in 1..(Len(s) + Len(u)) /\ (s \o u)[i] = s[i]
    BY <1>1
  <2> QED
    BY <2>1, <1>1 DEF ToSet
<1>5. ASSUME NEW i \in 1..Len(u) PROVE u[i] \in ToSet(s \o u)
  <2>1. Len(s) + i \in 1..(Len(s) + Len(u)) /\ (s \o u)[Len(s) + i] = u[i]
    BY <1>1
  <2> QED
    BY <2>1, <1>1 DEF ToSet
<1> QED
  BY <1>1, <1>3, <1>4, <1>5 DEF ToSet

\* What is left out of a flush has been seen; what is left begins with something new.
LEMMA RestFacts ==
    ASSUME NEW T, NEW todo \in Seq(T), NEW seen
    PROVE  LET rest == Rest(todo, seen)
           IN  /\ rest \in Seq(T)
               /\ ToSet(rest) \subseteq ToSet(todo)
               /\ ToSet(todo) \subseteq ToSet(rest) \cup seen
               /\ rest # <<>> => Head(rest) \notin seen
<1> DEFINE new == {i \in 1..Len(todo) : todo[i] \notin seen}
<1>0. Len(todo) \in Nat /\ DOMAIN todo = 1..Len(todo) /\ \A i \in 1..Len(todo) : todo[i] \in T
  OBVIOUS
<1>1. CASE new = {}
  <2>1. Rest(todo, seen) = <<>>
    BY <1>1 DEF Rest
  <2>2. ToSet(todo) \subseteq seen
    BY <1>0, <1>1 DEF ToSet
  <2>3. <<>> \in Seq(T) /\ ToSet(<<>>) = {}
    BY DEF ToSet
  <2> QED
    BY <2>1, <2>2, <2>3
<1>2. CASE new # {}
  <2>1. \E i \in new : \A j \in new : i <= j
    <3>1. new \subseteq Nat
      BY <1>0
    <3> HIDE DEF new
    <3> QED
      BY <1>2, <3>1, LeastNatural
  <2>2. PICK i : i = CHOOSE k \in new : \A j \in new : k <= j
    OBVIOUS
  <2>3. i \in new /\ \A j \in new : i <= j
    BY <2>1, <2>2
  <2>4. Rest(todo, seen) = SubSeq(todo, i, Len(todo)) /\ i \in 1..Len(todo)
    BY <1>2, <2>2, <2>3 DEF Rest
  <2>5. PICK r : r = SubSeq(todo, i, Len(todo))
    OBVIOUS
  <2>6. /\ Len(r) = Len(todo) - i + 1 /\ r \in Seq(T) /\ DOMAIN r = 1..(Len(todo) - i + 1)
        /\ \A j \in 1..(Len(todo) - i + 1) : r[j] = todo[i + j - 1]
    BY <1>0, <2>4, <2>5
  <2>7. ASSUME NEW j \in 1..(Len(todo) - i + 1) PROVE r[j] \in ToSet(todo)
    <3>1. i + j - 1 \in 1..Len(todo)
      BY <1>0, <2>4
    <3> QED
      BY <1>0, <2>6, <3>1 DEF ToSet
  <2>8. ASSUME NEW k \in 1..Len(todo), todo[k] \notin seen PROVE todo[k] \in ToSet(r)
    <3>1. k >= i
      BY <2>3, <2>8
    <3>2. PICK j \in 1..(Len(todo) - i + 1) : k = i + j - 1
      <4>1. k - i + 1 \in 1..(Len(todo) - i + 1) /\ k = i + (k - i + 1) - 1
        BY <1>0, <2>4, <3>1
      <4> QED
        BY <4>1
    <3> QED
      BY <2>6, <3>2 DEF ToSet
  <2>9. ToSet(r) \subseteq ToSet(todo)
    BY <2>6, <2>7 DEF ToSet
  <2>10. ToSet(todo) \subseteq ToSet(r) \cup seen
    BY <1>0, <2>8 DEF ToSet
  <2>11. Head(r) \notin seen
    <3>1. 1 \in 1..(Len(todo) - i + 1) /\ i + 1 - 1 = i
      BY <1>0, <2>4
    <3>2. Head(r) = todo[i]
      BY <1>0, <2>6, <3>1
    <3> QED
      BY <2>3, <3>2
  <2> QED
    BY <2>4, <2>5, <2>6, <2>9, <2>10, <2>11
<1> QED
  BY <1>1, <1>2

LEMMA HeadTail ==
    ASSUME NEW T, NEW s \in Seq(T), s # <<>>
    PROVE  /\ Head(s) \in ToSet(s) /\ Head(s) \in T /\ Tail(s) \in Seq(T)
           /\ ToSet(s) = {Head(s)} \cup ToSet(Tail(s))
<1>1. /\ Len(s) \in Nat /\ Len(s) > 0 /\ DOMAIN s = 1..Len(s) /\ Head(s) = s[1] /\ Tail(s) \in Seq(T)
      /\ Len(Tail(s)) = Len(s) - 1 /\ DOMAIN Tail(s) = 1..(Len(s) - 1)
      /\ \A i \in 1..(Len(s) - 1) : Tail(s)[i] = s[i + 1]
      /\ \A i \in 1..Len(s) : s[i] \in T
  OBVIOUS
<1>2. ASSUME NEW i \in 1..Len(s) PROVE s[i] \in {Head(s)} \cup ToSet(Tail(s))
  <2>1. CASE i = 1
    BY <2>1, <1>1
  <2>2. CASE i # 1
    <3>1. PICK j \in 1..(Len(s) - 1) : i = j + 1
      <4>1. i - 1 \in 1..(Len(s) - 1) /\ i = (i - 1) + 1
        BY <1>1, <2>2
      <4> QED
        BY <4>1
    <3> QED
      BY <1>1, <3>1 DEF ToSet
  <2> QED
    BY <2>1, <2>2
<1>3. ASSUME NEW i \in 1..(Len(s) - 1) PROVE Tail(s)[i] \in ToSet(s)
  <2>1. i + 1 \in 1..Len(s)
    BY <1>1
  <2> QED
    BY <1>1, <2>1 DEF ToSet
<1>4. Head(s) \in ToSet(s) /\ 1 \in 1..Len(s)
  BY <1>1 DEF ToSet
<1> QED
  BY <1>1, <1>2, <1>3, <1>4 DEF ToSet

-----------------------------------------------------------------------------
(* What is stored *)

\* Everything that was ever written to the conversation.
Told == InLog \cup overwritten

DocsAreTold == \A w \in Writers : \A c \in held[w] : ToSet(c.messages) \subseteq Told

LEMMA Replaced ==
    ASSUME LogTypeOK, DocsAreTold, NEW w \in Writers, NEW m \in Messages, Replace(w, m)
    PROVE  \E c \in held[w] :
               /\ c \in Document
               /\ conv' = [revision |-> c.revision + 1, messages |-> Append(c.messages, m)]
               /\ conv' \in Document
               /\ overwritten' \in SUBSET Messages
               /\ held' \in [Writers -> SUBSET Document]
               /\ held' = [held EXCEPT ![w] = {}]
               /\ InLog' = ToSet(c.messages) \cup {m}
               /\ Told' = Told \cup {m}
<1>1. PICK c \in held[w] :
          /\ conv' = [revision |-> c.revision + 1, messages |-> Append(c.messages, m)]
          /\ overwritten' = (overwritten \cup InLog) \ ToSet(conv'.messages)
          /\ held' = [held EXCEPT ![w] = {}]
  BY DEF Replace
<1>2. c \in Document /\ c.revision \in Nat /\ c.messages \in Seq(Messages)
  BY DEF LogTypeOK, Document
<1>3. /\ conv'.messages = Append(c.messages, m)
      /\ Append(c.messages, m) \in Seq(Messages)
  BY <1>1, <1>2
<1>4. conv' \in Document
  BY <1>1, <1>2, <1>3 DEF Document
<1>5. InLog' = ToSet(c.messages) \cup {m}
  BY <1>2, <1>3, AppendSet DEF InLog
<1>6. InLog \subseteq Messages
  BY DEF LogTypeOK, Document, InLog, ToSet
<1>7. overwritten' \in SUBSET Messages
  BY <1>1, <1>6 DEF LogTypeOK
<1>8. Told' = Told \cup {m}
  BY <1>1, <1>3, <1>5 DEF Told, DocsAreTold, InLog
<1>9. held' \in [Writers -> SUBSET Document]
  BY <1>1 DEF LogTypeOK
<1> QED
  BY <1>1, <1>2, <1>4, <1>5, <1>7, <1>8, <1>9

\* A flush goes on with what it has not seen.
GoesOn(F, todo, seen) ==
    /\ F \subseteq Flight
    /\ \A f \in F : F = {f} /\ f.seen = seen /\ f.todo # <<>> /\ ToSet(todo) \subseteq ToSet(f.todo) \cup seen
    /\ F = {} => ToSet(todo) \subseteq seen

MayGoOn(todo, seen, revision, tries, limit) ==
    /\ todo \in Seq(Spoken) /\ seen \subseteq Spoken /\ revision \in Nat /\ tries \in Nat /\ limit \in 1..2
    /\ todo # <<>> => (tries <= 1 \/ Head(todo) \in seen)

LEMMA FlushingFacts ==
    ASSUME NEW todo, NEW seen, NEW revision, NEW tries, NEW limit,
           MayGoOn(todo, seen, revision, tries, limit)
    PROVE  GoesOn(Flushing(todo, seen, revision, tries, limit), todo, seen)
<1> USE DEF GoesOn, MayGoOn
<1>1. PICK r : r = Rest(todo, seen)
  OBVIOUS
<1>2. /\ r \in Seq(Spoken) /\ ToSet(todo) \subseteq ToSet(r) \cup seen
      /\ r # <<>> => Head(r) \notin seen
  BY <1>1, RestFacts
<1>3. CASE r = <<>>
  <2>1. Flushing(todo, seen, revision, tries, limit) = {} /\ ToSet(r) = {}
    BY <1>1, <1>3 DEF Flushing, ToSet
  <2> QED
    BY <1>2, <2>1
<1>4. CASE r # <<>>
  <2>1. PICK n : n = IF r = todo THEN tries ELSE 0
    OBVIOUS
  <2>2. n \in 0..1
    BY <1>2, <1>4, <2>1
  <2>3. PICK f : f = [at |-> "append", todo |-> r, seen |-> seen, expects |-> revision,
                      tries |-> n, limit |-> limit]
    OBVIOUS
  <2>4. Flushing(todo, seen, revision, tries, limit) = {f}
    BY <1>1, <1>4, <2>1, <2>3 DEF Flushing
  <2>5. f \in Flight
    BY <1>2, <2>2, <2>3 DEF Flight
  <2> QED
    BY <1>2, <1>4, <2>3, <2>4, <2>5
<1> QED
  BY <1>3, <1>4

-----------------------------------------------------------------------------
(* Types *)

FlushIsOne == \A f, g \in flush : f = g
FlushKnows == \A f \in flush : f.seen \subseteq Told /\ (f.at # "read" => f.todo # <<>>)

TypeInv == TypeOK /\ DocsAreTold /\ FlushIsOne /\ FlushKnows

LEMMA TypeInit == Init => TypeInv
<1> SUFFICES ASSUME Init PROVE TypeInv
  OBVIOUS
<1> USE EventsAssumption, FaultsAssumption
<1>1. conv \in Document
  BY DEF Init, LogInit, Document
<1>2. LogTypeOK
  BY <1>1 DEF Init, LogInit, LogTypeOK, Places
<1>3. TypeOK
  <2>1. /\ record \in [status : {"none", "active", "ended"}, turns : Seq(Spoken), tools : Seq(Spoken)]
        /\ flush \in SUBSET Flight /\ dropped \in SUBSET Spoken
        /\ events \in 0..MaxEvents /\ faults \in 0..MaxFaults
    BY DEF Init
  <2>2. pump \in [Sockets -> [Pumps -> {"off", "loop", "waiting", "done", "failed"}]]
    BY DEF Init
  <2> QED
    BY <1>2, <2>1, <2>2 DEF Init, TypeOK
<1>4. DocsAreTold /\ FlushIsOne /\ FlushKnows
  BY DEF Init, LogInit, DocsAreTold, FlushIsOne, FlushKnows
<1> QED
  BY <1>3, <1>4 DEF TypeInv

\* Whoever is in the conversation is one of its writers.
LEMMA MessageTypes ==
    /\ \A t \in Tabs, k \in {"question", "answer", "audit"}, n \in Nat : Message(t, k, n) \in Written
    /\ \A k \in {"turn", "tool", "again"}, n \in Nat : Message(Sidecar, k, n) \in Spoken
    /\ Written \subseteq Messages /\ Spoken \subseteq Messages
    /\ \A m \in Messages : m.by = Sidecar => m \in Spoken
    /\ \A m \in Spoken : Again(m) \in Spoken /\ Again(m).kind = "again" /\ Again(m).n = m.n
  BY WriterAssumption DEF Message, Written, Spoken, Messages, Again

LEMMA InVoiceTypes == ASSUME LogTypeOK PROVE InVoice \in SUBSET Spoken /\ InVoice \subseteq Told
<1>1. InLog \subseteq Messages
  BY DEF LogTypeOK, Document, InLog, ToSet
<1> QED
  BY <1>1, MessageTypes DEF InVoice, Voiced, Told

\* A step of one tab.
LEMMA PageTypes ==
    ASSUME TypeInv, NEW t \in Tabs, Page(t), UNCHANGED <<bridgeVars, sessionVars, late, events, faults>>
    PROVE  TypeInv' /\ Told \subseteq Told'
<1> USE DEF TypeInv
<1>1. t \in Writers /\ LogTypeOK /\ conv.revision \in Nat /\ turns[t] \in Nat
  BY DEF TypeOK, LogTypeOK, Document, Writers
<1>2. CASE \E k \in {"turn", "audit"} : Begin(t, k)
  <2>1. PICK k \in {"turn", "audit"} : Begin(t, k)
    BY <1>2
  <2>2. LogTypeOK' /\ Told' = Told /\ held' = held
    BY <1>1, <2>1 DEF Begin, LogTypeOK, Places, Told, InLog
  <2> QED
    BY <2>2 DEF TypeOK, DocsAreTold, FlushIsOne, FlushKnows, bridgeVars, sessionVars
<1>3. CASE CheckQuestion(t) \/ CheckAnswer(t)
  <2>1. LogTypeOK' /\ Told' = Told /\ held' = [held EXCEPT ![t] = {conv}]
    <3>1. held' \in [Writers -> SUBSET Document]
      BY <1>1, <1>3 DEF CheckQuestion, CheckAnswer, Check, LogTypeOK
    <3> QED
      BY <1>1, <1>3, <3>1 DEF CheckQuestion, CheckAnswer, Check, Goto, LogTypeOK, Places, Told, InLog
  <2>2. DocsAreTold'
    BY <1>1, <2>1 DEF DocsAreTold, LogTypeOK, Told, InLog
  <2> QED
    BY <2>1, <2>2 DEF TypeOK, FlushIsOne, FlushKnows, bridgeVars, sessionVars
<1>4. CASE WriteQuestion(t) \/ WriteAnswer(t)
  <2>1. PICK m \in Messages : Replace(t, m)
    BY <1>1, <1>4, MessageTypes DEF WriteQuestion, WriteAnswer
  <2>2. /\ conv' \in Document /\ overwritten' \in SUBSET Messages
        /\ held' \in [Writers -> SUBSET Document] /\ held' = [held EXCEPT ![t] = {}]
        /\ Told' = Told \cup {m}
    BY <1>1, <2>1, Replaced
  <2>3. conv'.revision \in Nat
    BY <2>2 DEF Document
  <2>4. LogTypeOK'
    BY <1>1, <1>4, <2>2, <2>3 DEF WriteQuestion, WriteAnswer, Goto, LogTypeOK, Places
  <2>5. DocsAreTold'
    BY <1>1, <2>2 DEF DocsAreTold, LogTypeOK
  <2> QED
    BY <2>2, <2>4, <2>5 DEF TypeOK, FlushIsOne, FlushKnows, bridgeVars, sessionVars
<1>5. CASE GiveUp(t)
  <2>1. LogTypeOK' /\ Told' = Told /\ held' = held
    BY <1>1, <1>5 DEF GiveUp, Goto, LogTypeOK, Places, Told, InLog
  <2> QED
    BY <2>1 DEF TypeOK, DocsAreTold, FlushIsOne, FlushKnows, bridgeVars, sessionVars
<1> QED
  BY <1>2, <1>3, <1>4, <1>5 DEF Page

\* A step after which there is the same flush, none, or a new one.
MayStartFlush ==
    \/ flush' = flush \/ flush' = {}
    \/ \E todo \in Seq(Spoken), limit \in 1..2 : StartFlush(todo, limit)

LEMMA FlightStands ==
    ASSUME TypeInv, MayStartFlush, Told \subseteq Told'
    PROVE  flush' \in SUBSET Flight /\ FlushIsOne' /\ FlushKnows'
<1> USE DEF TypeInv
<1>1. CASE flush' = flush \/ flush' = {}
  BY <1>1 DEF TypeOK, FlushIsOne, FlushKnows
<1>2. CASE \E todo \in Seq(Spoken), limit \in 1..2 : StartFlush(todo, limit)
  <2>1. PICK todo \in Seq(Spoken), limit \in 1..2 : StartFlush(todo, limit)
    BY <1>2
  <2>2. PICK f : f = [at |-> "read", todo |-> todo, seen |-> {}, expects |-> 0, tries |-> 0, limit |-> limit]
    OBVIOUS
  <2>3. f \in Flight /\ flush' = {f}
    BY <2>1, <2>2 DEF StartFlush, Flight
  <2> QED
    BY <2>2, <2>3 DEF FlushIsOne, FlushKnows
<1> QED
  BY <1>1, <1>2 DEF MayStartFlush

SessionRecord == [status : {"none", "active", "ended"}, turns : Seq(Spoken), tools : Seq(Spoken)]

LEMMA NotedTypes ==
    ASSUME NEW r \in SessionRecord, NEW m \in Spoken
    PROVE  /\ Noted(r, m) \in SessionRecord
           /\ Noted(r, m).status = r.status /\ Noted(r, m).turns = r.turns
           /\ Noted(r, m).tools = Append(r.tools, m)
<1>1. Append(r.tools, m) \in Seq(Spoken) /\ r.tools \in Seq(Spoken)
  BY DEF SessionRecord
<1> QED
  BY <1>1 DEF Noted, SessionRecord

\* A call is audited, or audited again, or that fails: the turns of the record stand.
LEMMA AuditTypes ==
    ASSUME TypeInv, NEW m \in Spoken, Audit(m) \/ AuditFails(m) \/ AuditAgain(record, m)
    PROVE  /\ record' \in SessionRecord /\ MayStartFlush
           /\ record'.status = record.status /\ record'.turns = record.turns
<1>1. record \in SessionRecord
  BY DEF TypeInv, TypeOK, SessionRecord
<1>2. /\ Noted(record, m) \in SessionRecord
      /\ Noted(record, m).status = record.status /\ Noted(record, m).turns = record.turns
  BY <1>1, NotedTypes
<1>3. PICK k \in Spoken : k = Again(m)
  BY MessageTypes
<1>4. \A r \in {record, Noted(record, m)} :
          /\ r \in SessionRecord /\ r.status = record.status /\ r.turns = record.turns
          /\ Noted(r, k) \in SessionRecord /\ Noted(r, k).status = record.status /\ Noted(r, k).turns = record.turns
  <2> SUFFICES ASSUME NEW r \in {record, Noted(record, m)}
               PROVE  /\ r \in SessionRecord /\ r.status = record.status /\ r.turns = record.turns
                      /\ Noted(r, k) \in SessionRecord
                      /\ Noted(r, k).status = record.status /\ Noted(r, k).turns = record.turns
    OBVIOUS
  <2>1. r \in SessionRecord /\ r.status = record.status /\ r.turns = record.turns
    BY <1>1, <1>2
  <2>2. Noted(r, k) \in SessionRecord /\ Noted(r, k).status = r.status /\ Noted(r, k).turns = r.turns
    BY <2>1, NotedTypes
  <2> QED
    BY <2>1, <2>2
<1>5. <<m>> \in Seq(Spoken) /\ <<k>> \in Seq(Spoken) /\ 1 \in 1..2
  OBVIOUS
<1>6. ASSUME NEW r \in {record, Noted(record, m)}, AuditAgain(r, m)
      PROVE  /\ record' \in {r, Noted(r, k)} /\ MayStartFlush
  BY <1>3, <1>5, <1>6 DEF AuditAgain, MayStartFlush
<1>7. CASE Audit(m) \/ (UNCHANGED record /\ StartFlush(<<m>>, 1))
  BY <1>1, <1>2, <1>5, <1>7 DEF Audit, MayStartFlush
<1>8. CASE \E r \in {record, Noted(record, m)} : AuditAgain(r, m)
  BY <1>4, <1>6, <1>8
<1> QED
  BY <1>7, <1>8 DEF AuditFails

\* A flush that fails: what it had to write is written or not, and the call audited
\* again or not.
LEMMA FailureFacts ==
    ASSUME TypeInv, FlushFails
    PROVE  /\ faults' # 0 /\ UNCHANGED <<tab, turns, registered, dropped, events>>
           /\ record'.status = record.status /\ record'.turns = record.turns
           /\ \E f \in flush :
               /\ \/ f.at = "write" /\ Replace(Sidecar, Head(f.todo))
                  \/ UNCHANGED <<conv, overwritten>> /\ (held' = held \/ held' = [held EXCEPT ![Sidecar] = {}])
               /\ \/ flush' = {} /\ UNCHANGED record
                  \/ /\ f.at = "write" /\ f.limit = 1 /\ Head(f.todo).kind = "tool"
                     /\ Head(f.todo) \in ToSet(f.todo) /\ Head(f.todo) \in Spoken
                     /\ AuditAgain(record, Head(f.todo))
<1>1. PICK f \in flush :
          \/ f.at # "write" /\ flush' = {} /\ UNCHANGED <<conv, held, overwritten, record>>
          \/ /\ f.at = "write"
             /\ \/ Replace(Sidecar, Head(f.todo))
                \/ held' = [held EXCEPT ![Sidecar] = {}] /\ UNCHANGED <<conv, overwritten>>
             /\ IF f.limit = 1 /\ Head(f.todo).kind = "tool"
                THEN AuditAgain(record, Head(f.todo))
                ELSE flush' = {} /\ UNCHANGED record
  BY DEF FlushFails
<1>2. f.at = "write" => Head(f.todo) \in Spoken /\ Head(f.todo) \in ToSet(f.todo)
  <2>1. f.todo \in Seq(Spoken) /\ (f.at = "write" => f.todo # <<>>)
    BY <1>1 DEF TypeInv, TypeOK, Flight, FlushKnows
  <2> QED
    BY <2>1, HeadTail
<1>3. faults' # 0 /\ UNCHANGED <<tab, turns, registered, dropped, events>>
  BY FaultsAssumption DEF FlushFails, TypeInv, TypeOK
<1>4. record'.status = record.status /\ record'.turns = record.turns
  BY <1>1, <1>2, AuditTypes
<1>5. \/ f.at = "write" /\ Replace(Sidecar, Head(f.todo))
      \/ UNCHANGED <<conv, overwritten>> /\ (held' = held \/ held' = [held EXCEPT ![Sidecar] = {}])
  BY <1>1
<1>6. \/ flush' = {} /\ UNCHANGED record
      \/ /\ f.at = "write" /\ f.limit = 1 /\ Head(f.todo).kind = "tool"
         /\ Head(f.todo) \in ToSet(f.todo) /\ Head(f.todo) \in Spoken
         /\ AuditAgain(record, Head(f.todo))
  BY <1>1, <1>2
<1> QED
  BY <1>3, <1>4, <1>5, <1>6

\* A step of the flush.
LEMMA FlushTypes ==
    ASSUME TypeInv, Flush \/ FlushFails
    PROVE  TypeInv' /\ Told \subseteq Told'
<1> USE DEF TypeInv
<1>1. Sidecar \in Writers /\ LogTypeOK /\ conv.revision \in Nat
  BY DEF TypeOK, LogTypeOK, Document, Writers
<1>2. InVoice \in SUBSET Spoken /\ InVoice \subseteq Told
  BY <1>1, InVoiceTypes
<1>3. \A f \in flush : /\ f \in Flight /\ f.todo \in Seq(Spoken) /\ f.seen \in SUBSET Spoken
                        /\ f.expects \in Nat /\ f.tries \in 0..1 /\ f.limit \in 1..2
  BY DEF TypeOK, Flight
<1>4. CASE FlushRead
  <2>1. PICK f \in flush :
            flush' = Flushing(f.todo, IF f.limit = 2 THEN InVoice ELSE {}, conv.revision, 0, f.limit)
    BY <1>4 DEF FlushRead
  <2>2. PICK seen : seen = IF f.limit = 2 THEN InVoice ELSE {}
    OBVIOUS
  <2>3. seen \in SUBSET Spoken /\ seen \subseteq Told
    BY <1>2, <2>2
  <2>4. flush' \subseteq Flight /\ \A g \in flush' : flush' = {g} /\ g.seen = seen /\ g.todo # <<>>
    <3>1. MayGoOn(f.todo, seen, conv.revision, 0, f.limit)
      BY <1>1, <1>3, <2>3 DEF MayGoOn
    <3>2. GoesOn(flush', f.todo, seen)
      BY <2>1, <2>2, <3>1, FlushingFacts
    <3> QED
      BY <3>2 DEF GoesOn
  <2>5. Told' = Told /\ held' = held /\ LogTypeOK'
    BY <1>1, <1>4 DEF FlushRead, logVars, Told, InLog, LogTypeOK
  <2> QED
    BY <1>4, <2>3, <2>4, <2>5 DEF FlushRead, TypeOK, DocsAreTold, FlushIsOne, FlushKnows, bridgeVars
<1>5. CASE FlushCheck
  <2>1. PICK f \in flush : f.at = "append" /\ Check(Sidecar, f.expects) /\ flush' = {[f EXCEPT !.at = "write"]}
    BY <1>5 DEF FlushCheck
  <2>2. LogTypeOK' /\ Told' = Told /\ held' = [held EXCEPT ![Sidecar] = {conv}]
    BY <1>1, <1>5, <2>1 DEF FlushCheck, Check, LogTypeOK, Told, InLog
  <2>3. DocsAreTold'
    BY <1>1, <2>2 DEF DocsAreTold, LogTypeOK, Told, InLog
  <2>4. flush' \subseteq Flight
    BY <2>1, <1>3 DEF Flight
  <2>5. FlushIsOne' /\ FlushKnows'
    BY <2>1, <2>2, <1>3 DEF FlushIsOne, FlushKnows, Flight
  <2> QED
    BY <1>5, <2>2, <2>3, <2>4, <2>5 DEF FlushCheck, TypeOK, bridgeVars
<1>6. CASE FlushWrite
  <2>1. PICK f \in flush :
            /\ f.at = "write" /\ Replace(Sidecar, Head(f.todo))
            /\ flush' = Flushing(f.todo, f.seen \cup {Head(f.todo)}, conv'.revision, 0, f.limit)
    BY <1>6 DEF FlushWrite
  <2>2. PICK m \in Spoken : m = Head(f.todo)
    <3>1. f.todo # <<>>
      BY <2>1 DEF FlushKnows
    <3> QED
      BY <1>3, <3>1, HeadTail
  <2>3. /\ conv' \in Document /\ overwritten' \in SUBSET Messages
        /\ held' \in [Writers -> SUBSET Document] /\ held' = [held EXCEPT ![Sidecar] = {}]
        /\ Told' = Told \cup {m}
    BY <1>1, <2>1, <2>2, Replaced, MessageTypes
  <2>4. PICK seen : seen = f.seen \cup {m}
    OBVIOUS
  <2>5. seen \in SUBSET Spoken /\ seen \subseteq Told' /\ conv'.revision \in Nat
    BY <1>3, <2>2, <2>3, <2>4 DEF FlushKnows, Document
  <2>6. flush' \subseteq Flight /\ \A g \in flush' : flush' = {g} /\ g.seen = seen /\ g.todo # <<>>
    <3>1. MayGoOn(f.todo, seen, conv'.revision, 0, f.limit)
      BY <1>3, <2>5 DEF MayGoOn
    <3>2. GoesOn(flush', f.todo, seen)
      BY <2>1, <2>2, <2>4, <3>1, FlushingFacts
    <3> QED
      BY <3>2 DEF GoesOn
  <2>7. LogTypeOK'
    BY <1>1, <1>6, <2>3 DEF FlushWrite, LogTypeOK
  <2>8. DocsAreTold'
    BY <1>1, <2>3 DEF DocsAreTold, LogTypeOK
  <2> QED
    BY <1>6, <2>3, <2>5, <2>6, <2>7, <2>8 DEF FlushWrite, TypeOK, FlushIsOne, FlushKnows, bridgeVars
<1>7. CASE FlushRefused
  <2>1. PICK f \in flush :
            /\ f.at = "append"
            /\ \/ /\ f.tries + 1 < f.limit \/ Head(f.todo) \in InVoice
                  /\ flush' = Flushing(f.todo, InVoice, conv.revision, f.tries + 1, f.limit)
                  /\ UNCHANGED dropped
               \/ /\ flush' = Flushing(Tail(f.todo), InVoice, conv.revision, 0, f.limit)
                  /\ dropped' = dropped \cup {Head(f.todo)}
    BY <1>7 DEF FlushRefused
  <2>2. f.todo # <<>> /\ Head(f.todo) \in Spoken /\ Tail(f.todo) \in Seq(Spoken)
    <3>1. f.todo # <<>>
      BY <2>1 DEF FlushKnows
    <3> QED
      BY <1>3, <3>1, HeadTail
  <2>3. flush' \subseteq Flight /\ \A g \in flush' : flush' = {g} /\ g.seen = InVoice /\ g.todo # <<>>
    <3>1. CASE /\ f.tries + 1 < f.limit \/ Head(f.todo) \in InVoice
               /\ flush' = Flushing(f.todo, InVoice, conv.revision, f.tries + 1, f.limit)
      <4>1. MayGoOn(f.todo, InVoice, conv.revision, f.tries + 1, f.limit)
        BY <1>1, <1>2, <1>3, <3>1 DEF MayGoOn
      <4>2. GoesOn(flush', f.todo, InVoice)
        BY <3>1, <4>1, FlushingFacts
      <4> QED
        BY <4>2 DEF GoesOn
    <3>2. CASE flush' = Flushing(Tail(f.todo), InVoice, conv.revision, 0, f.limit)
      <4>1. MayGoOn(Tail(f.todo), InVoice, conv.revision, 0, f.limit)
        BY <1>1, <1>2, <1>3, <2>2 DEF MayGoOn
      <4>2. GoesOn(flush', Tail(f.todo), InVoice)
        BY <3>2, <4>1, FlushingFacts
      <4> QED
        BY <4>2 DEF GoesOn
    <3> QED
      BY <2>1, <3>1, <3>2
  <2>4. dropped' \in SUBSET Spoken
    BY <2>1, <2>2 DEF TypeOK
  <2>5. Told' = Told /\ held' = held /\ LogTypeOK'
    BY <1>1, <1>7 DEF FlushRefused, logVars, Told, InLog, LogTypeOK
  <2> QED
    BY <1>2, <1>7, <2>3, <2>4, <2>5 DEF FlushRefused, TypeOK, DocsAreTold, FlushIsOne, FlushKnows, bridgeVars
<1>8. CASE FlushFails
  <2>1. PICK f \in flush :
            \/ f.at # "write" /\ flush' = {} /\ UNCHANGED <<conv, held, overwritten, record>>
            \/ /\ f.at = "write"
               /\ \/ Replace(Sidecar, Head(f.todo))
                  \/ held' = [held EXCEPT ![Sidecar] = {}] /\ UNCHANGED <<conv, overwritten>>
               /\ AuditAgain(record, Head(f.todo)) \/ (flush' = {} /\ UNCHANGED record)
    BY <1>8 DEF FlushFails
  <2>2. f.at = "write" => Head(f.todo) \in Spoken /\ Head(f.todo) \in Messages
    <3>1. f.at = "write" => f.todo # <<>>
      BY <2>1 DEF FlushKnows
    <3> QED
      BY <1>3, <3>1, HeadTail, MessageTypes
  <2>3. /\ conv' \in Document /\ overwritten' \in SUBSET Messages
        /\ held' \in [Writers -> SUBSET Document] /\ \A w \in Writers : held'[w] \subseteq held[w]
        /\ Told \subseteq Told'
    <3>1. CASE f.at = "write" /\ Replace(Sidecar, Head(f.todo))
      BY <1>1, <2>2, <3>1, Replaced
    <3>2. CASE held' = [held EXCEPT ![Sidecar] = {}] /\ UNCHANGED <<conv, overwritten>>
      BY <1>1, <3>2 DEF LogTypeOK, Told, InLog
    <3>3. CASE UNCHANGED <<conv, held, overwritten>>
      BY <1>1, <3>3 DEF LogTypeOK, Told, InLog
    <3> QED
      BY <2>1, <3>1, <3>2, <3>3
  <2>4. LogTypeOK'
    BY <1>1, <1>8, <2>3 DEF FlushFails, LogTypeOK
  <2>5. DocsAreTold'
    BY <1>1, <2>3 DEF DocsAreTold, LogTypeOK
  <2>6. faults' \in 0..MaxFaults
    BY <1>8, FaultsAssumption DEF FlushFails, TypeOK
  <2>7. record' \in SessionRecord /\ MayStartFlush
    <3>1. CASE flush' = {} /\ UNCHANGED record
      BY <3>1 DEF TypeOK, SessionRecord, MayStartFlush
    <3>2. CASE f.at = "write" /\ AuditAgain(record, Head(f.todo))
      BY <2>2, <3>2, AuditTypes
    <3> QED
      BY <2>1, <3>1, <3>2
  <2>8. flush' \in SUBSET Flight /\ FlushIsOne' /\ FlushKnows'
    BY <2>3, <2>7, FlightStands
  <2> QED
    BY <1>8, <2>3, <2>4, <2>5, <2>6, <2>7, <2>8 DEF FlushFails, TypeOK, SessionRecord, bridgeVars
<1> QED
  BY <1>4, <1>5, <1>6, <1>7, <1>8 DEF Flush

\* A step that leaves the conversation alone; it may start a flush.
LEMMA LogStands ==
    ASSUME TypeInv, UNCHANGED logVars, MayStartFlush
    PROVE  /\ LogTypeOK' /\ DocsAreTold' /\ FlushIsOne' /\ FlushKnows' /\ flush' \in SUBSET Flight
           /\ Told' = Told
<1> USE DEF TypeInv
<1>1. LogTypeOK' /\ DocsAreTold' /\ Told' = Told
  BY DEF TypeOK, LogTypeOK, DocsAreTold, Told, InLog, logVars
<1> QED
  BY <1>1, FlightStands

\* The session is ended, or was already, or that fails.
LEMMA EndTypes ==
    ASSUME TypeOK, EndOrFail
    PROVE  /\ record' \in [status : {"none", "active", "ended"}, turns : Seq(Spoken), tools : Seq(Spoken)]
           /\ registered' \in BOOLEAN /\ faults' \in 0..MaxFaults /\ dropped' \in SUBSET Spoken
           /\ MayStartFlush
<1>1. faults' \in 0..MaxFaults
  BY FaultsAssumption DEF TypeOK, EndOrFail, EndFails
<1>2. [record EXCEPT !.status = "ended"] \in SessionRecord
  BY DEF TypeOK, SessionRecord
<1>3. CASE End /\ registered
  <2>1. Entries(record) \in Seq(Spoken)
    BY ConcatSet DEF TypeOK, Entries
  <2>2. /\ record' = [record EXCEPT !.status = "ended"] /\ registered' = FALSE /\ dropped' = {}
        /\ StartFlush(Entries(record), 2)
    BY <1>3 DEF End
  <2>3. 2 \in 1..2
    OBVIOUS
  <2>4. MayStartFlush
    BY <2>1, <2>2, <2>3 DEF MayStartFlush
  <2> QED
    BY <1>1, <1>2, <2>2, <2>4 DEF SessionRecord
<1>4. CASE End /\ ~registered
  BY <1>1, <1>4 DEF TypeOK, End, MayStartFlush, sessionVars
<1>5. CASE EndFails
  BY <1>1, <1>2, <1>5 DEF TypeOK, EndFails, MayStartFlush, SessionRecord
<1> QED
  BY <1>3, <1>4, <1>5 DEF EndOrFail

LEMMA SessionTypes ==
    ASSUME TypeInv, Register \/ PostEnd \/ TimeUp
    PROVE  TypeInv' /\ Told' = Told
<1> USE DEF TypeInv
<1>1. CASE Register
  BY <1>1, LogStands DEF Register, TypeOK, MayStartFlush, bridgeVars
<1>2. CASE PostEnd
  BY <1>2, LogStands, EndTypes DEF PostEnd, TypeOK, bridgeVars
<1>3. CASE TimeUp
  BY <1>3, LogStands DEF TimeUp, TypeOK, MayStartFlush, bridgeVars, sessionVars
<1> QED
  BY <1>1, <1>2, <1>3

LEMMA BridgeTypes ==
    ASSUME TypeInv, NEW s \in Sockets,
           Accept(s) \/ Serve(s) \/ BrowserAudio(s) \/ Speak(s) \/ Leave(s) \/ Hangup(s)
    PROVE  TypeInv' /\ Told' = Told
<1> USE DEF TypeInv
<1> DEFINE States == {"off", "loop", "waiting", "done", "failed"}
<1>0. "fromBrowser" \in Pumps /\ "fromUpstream" \in Pumps
  BY DEF Pumps
<1>01. \A p \in Pumps, at \in States : Pump(s, p, at) => pump' \in [Sockets -> [Pumps -> States]]
  <2> SUFFICES ASSUME NEW p \in Pumps, NEW at \in States, Pump(s, p, at)
               PROVE  pump' \in [Sockets -> [Pumps -> States]]
    OBVIOUS
  <2>1. pump \in [Sockets -> [Pumps -> States]] /\ pump' = [pump EXCEPT ![s] = [pump[s] EXCEPT ![p] = at]]
    BY DEF TypeOK, Pump
  <2>2. [pump[s] EXCEPT ![p] = at] \in [Pumps -> States]
    BY <2>1
  <2> QED
    BY <2>1, <2>2
<1>02. \A c \in {"none", "dialing", "bridged", "gone"} :
          Conn(s, c) => conn' \in [Sockets -> {"none", "dialing", "bridged", "gone"}]
  BY DEF TypeOK, Conn
<1>03. \A b \in {"open", "closed"} :
          /\ browser' = [browser EXCEPT ![s] = b] => browser' \in [Sockets -> {"none", "open", "closed"}]
          /\ upstream' = [upstream EXCEPT ![s] = b] => upstream' \in [Sockets -> {"none", "open", "closed"}]
  BY DEF TypeOK
<1>1. CASE Accept(s)
  <2>1. UNCHANGED logVars /\ MayStartFlush
    BY <1>1, EndTypes DEF Accept, MayStartFlush, sessionVars
  <2>2. /\ record' \in [status : {"none", "active", "ended"}, turns : Seq(Spoken), tools : Seq(Spoken)]
        /\ registered' \in BOOLEAN /\ faults' \in 0..MaxFaults /\ dropped' \in SUBSET Spoken
    BY <1>1, EndTypes DEF Accept, TypeOK, sessionVars
  <2> QED
    BY <1>0, <1>01, <1>02, <1>03, <1>1, <2>1, <2>2, LogStands DEF Accept, TypeOK
<1>2. CASE Dial(s)
  <2>1. pump' \in [Sockets -> [Pumps -> States]]
    BY <1>2 DEF Dial, TypeOK
  <2> QED
    BY <1>0, <1>01, <1>02, <1>03, <1>2, <2>1, LogStands DEF Dial, TypeOK, MayStartFlush, sessionVars
<1>3. CASE DialFails(s)
  <2>1. UNCHANGED logVars /\ MayStartFlush
    BY <1>3, EndTypes DEF DialFails, MayStartFlush, sessionVars
  <2>2. /\ record' \in [status : {"none", "active", "ended"}, turns : Seq(Spoken), tools : Seq(Spoken)]
        /\ registered' \in BOOLEAN /\ faults' \in 0..MaxFaults /\ dropped' \in SUBSET Spoken
    BY <1>3, EndTypes DEF DialFails, TypeOK, sessionVars
  <2> QED
    BY <1>0, <1>01, <1>02, <1>03, <1>3, <2>1, <2>2, LogStands DEF DialFails, TypeOK
<1>4. ASSUME NEW p \in Pumps, Loop(s, p) PROVE TypeInv' /\ Told' = Told
  BY <1>0, <1>01, <1>02, <1>03, <1>4, LogStands DEF Loop, TypeOK, MayStartFlush, sessionVars
<1>5. ASSUME NEW p \in Pumps, TimeOut(s, p) PROVE TypeInv' /\ Told' = Told
  <2>1. UNCHANGED <<logVars, conn, late, events>>
    BY <1>5 DEF TimeOut
  <2>2. EndOrFail \/ UNCHANGED <<sessionVars, faults>>
    BY <1>5 DEF TimeOut, EndOrFail
  <2>3. MayStartFlush
    BY <2>2, EndTypes DEF MayStartFlush, sessionVars
  <2>4. /\ record' \in [status : {"none", "active", "ended"}, turns : Seq(Spoken), tools : Seq(Spoken)]
        /\ registered' \in BOOLEAN /\ faults' \in 0..MaxFaults /\ dropped' \in SUBSET Spoken
    BY <2>2, EndTypes DEF TypeOK, sessionVars
  <2>5. /\ pump' \in [Sockets -> [Pumps -> States]]
        /\ browser' \in [Sockets -> {"none", "open", "closed"}]
        /\ upstream' \in [Sockets -> {"none", "open", "closed"}]
    BY <1>0, <1>01, <1>02, <1>03, <1>5 DEF TimeOut, TypeOK
  <2> QED
    BY <2>1, <2>3, <2>4, <2>5, LogStands DEF TypeOK
<1>6. CASE BrowserGone(s) \/ BrowserAudio(s) \/ UpstreamGone(s) \/ UpstreamChatter(s)
  <2>1. pump' \in [Sockets -> [Pumps -> States]]
    BY <1>0, <1>01, <1>02, <1>03, <1>6 DEF BrowserGone, BrowserAudio, UpstreamGone, UpstreamChatter, PassOn
  <2> QED
    BY <1>6, <2>1, LogStands
    DEF BrowserGone, BrowserAudio, UpstreamGone, UpstreamChatter, TypeOK, MayStartFlush, sessionVars
<1>7. CASE Leave(s) \/ Hangup(s)
  BY <1>0, <1>01, <1>02, <1>03, <1>7, LogStands DEF Leave, Hangup, TypeOK, MayStartFlush, sessionVars
<1>8. CASE Close(s)
  <2>1. pump' \in [Sockets -> [Pumps -> States]]
    BY <1>8 DEF Close, TypeOK
  <2>2. UNCHANGED logVars /\ MayStartFlush
    BY <1>8, EndTypes DEF Close
  <2>3. /\ record' \in [status : {"none", "active", "ended"}, turns : Seq(Spoken), tools : Seq(Spoken)]
        /\ registered' \in BOOLEAN /\ faults' \in 0..MaxFaults /\ dropped' \in SUBSET Spoken
    BY <1>8, EndTypes DEF Close
  <2> QED
    BY <1>0, <1>01, <1>02, <1>03, <1>8, <2>1, <2>2, <2>3, LogStands DEF Close, TypeOK
<1>9. CASE Transcript(s) \/ ToolCall(s)
  <2>1. events' \in 0..MaxEvents /\ events' \in Nat
    BY <1>9, EventsAssumption DEF Transcript, ToolCall, TypeOK
  <2>2. pump' \in [Sockets -> [Pumps -> States]]
    BY <1>0, <1>01, <1>02, <1>03, <1>9 DEF Transcript, ToolCall, PassOn, Pump
  <2>3. PICK a \in Spoken, b \in Spoken : a = Message(Sidecar, "turn", events') /\ b = Message(Sidecar, "tool", events')
    BY <2>1, MessageTypes
  <2>4. faults' \in 0..MaxFaults
    BY <1>9, FaultsAssumption DEF Transcript, ToolCall, TypeOK
  <2>5. record' \in SessionRecord /\ MayStartFlush
    <3>1. CASE Transcript(s)
      <4>1. record \in SessionRecord
        BY DEF TypeOK, SessionRecord
      <4>2. [record EXCEPT !.turns = Append(@, a)] \in SessionRecord
        <5>1. Append(record.turns, a) \in Seq(Spoken)
          BY DEF TypeOK
        <5> QED
          BY <4>1, <5>1 DEF SessionRecord
      <4> QED
        BY <2>3, <3>1, <4>1, <4>2 DEF Transcript, MayStartFlush
    <3>2. CASE ToolCall(s)
      <4>1. Audit(b) \/ AuditFails(b)
        BY <2>3, <3>2 DEF ToolCall
      <4> QED
        BY <4>1, AuditTypes
    <3> QED
      BY <1>9, <3>1, <3>2
  <2> QED
    BY <1>9, <2>1, <2>2, <2>4, <2>5, LogStands DEF Transcript, ToolCall, TypeOK, SessionRecord
<1> QED
  BY <1>1, <1>2, <1>3, <1>4, <1>5, <1>6, <1>7, <1>8, <1>9 DEF Serve, Speak

LEMMA CrashTypes ==
    ASSUME TypeInv, Crash
    PROVE  TypeInv' /\ Told' = Told
<1> USE DEF TypeInv
<1>1. Told' = Told /\ LogTypeOK' /\ DocsAreTold'
  BY DEF Crash, TypeOK, LogTypeOK, Told, InLog, DocsAreTold
<1>2. faults' \in 0..MaxFaults
  BY FaultsAssumption DEF Crash, TypeOK
<1> QED
  BY <1>1, <1>2 DEF Crash, TypeOK, FlushIsOne, FlushKnows

LEMMA TypeStep ==
    ASSUME TypeInv, [Next]_vars
    PROVE  TypeInv' /\ Told \subseteq Told'
<1>1. CASE UNCHANGED vars
  <2>1. TypeInv' /\ Told' = Told
    BY <1>1, LogStands DEF TypeInv, TypeOK, vars, MayStartFlush, bridgeVars, sessionVars
  <2> QED
    BY <2>1
<1>2. ASSUME NEW t \in Tabs, Page(t) /\ UNCHANGED <<bridgeVars, sessionVars, late, events, faults>>
      PROVE  TypeInv' /\ Told \subseteq Told'
  BY <1>2, PageTypes
<1> QED
  BY <1>1, <1>2, FlushTypes, SessionTypes, BridgeTypes, CrashTypes DEF Next

\* What a step does to the session, whichever socket or request it came from.
LEMMA SessionMoves ==
    ASSUME [Next]_vars
    PROVE  \/ UNCHANGED <<record, registered, flush, dropped, faults>>
           \/ Idle /\ EndOrFail
           \/ Register \/ (\E s \in Sockets : Transcript(s) \/ ToolCall(s))
           \/ Flush \/ FlushFails \/ Crash
<1>1. CASE UNCHANGED vars
  BY <1>1 DEF vars, sessionVars
<1>2. ASSUME NEW t \in Tabs, Page(t) /\ UNCHANGED <<bridgeVars, sessionVars, late, events, faults>>
      PROVE  UNCHANGED <<record, registered, flush, dropped, faults>>
  BY <1>2 DEF sessionVars
<1>3. CASE PostEnd \/ TimeUp
  BY <1>3 DEF PostEnd, TimeUp, sessionVars
<1>4. ASSUME NEW s \in Sockets,
             Accept(s) \/ Serve(s) \/ BrowserAudio(s) \/ Speak(s) \/ Leave(s) \/ Hangup(s)
      PROVE  \/ UNCHANGED <<record, registered, flush, dropped, faults>>
             \/ Idle /\ EndOrFail
             \/ Transcript(s) \/ ToolCall(s)
  <2>1. CASE Accept(s) \/ DialFails(s) \/ Close(s)
    BY <2>1 DEF Accept, DialFails, Close, sessionVars
  <2>2. CASE Dial(s) \/ BrowserGone(s) \/ UpstreamGone(s) \/ BrowserAudio(s) \/ UpstreamChatter(s)
    BY <2>2 DEF Dial, BrowserGone, UpstreamGone, BrowserAudio, UpstreamChatter, sessionVars
  <2>3. CASE Leave(s) \/ Hangup(s)
    BY <2>3 DEF Leave, Hangup, sessionVars
  <2>4. ASSUME NEW p \in Pumps, Loop(s, p)
        PROVE  UNCHANGED <<record, registered, flush, dropped, faults>>
    BY <2>4 DEF Loop, sessionVars
  <2>5. ASSUME NEW p \in Pumps, TimeOut(s, p)
        PROVE  \/ UNCHANGED <<record, registered, flush, dropped, faults>>
               \/ Idle /\ EndOrFail
    BY <2>5 DEF TimeOut, EndOrFail, sessionVars
  <2> QED
    BY <1>4, <2>1, <2>2, <2>3, <2>4, <2>5 DEF Serve, Speak
<1> QED
  BY <1>1, <1>2, <1>3, <1>4 DEF Next

\* What is on the record of an ended session was stored, given up, or is in the flush.
Kept == OnRecord \subseteq Told \cup dropped \cup UNION {ToSet(f.todo) : f \in flush}
Quiet == record.status = "ended" /\ faults = 0 => Kept

\* A tool call: audited, or with a failure.
LEMMA ToolCallFacts ==
    ASSUME TypeInv, NEW s \in Sockets, ToolCall(s)
    PROVE  /\ Message(Sidecar, "tool", events') \in Spoken /\ events \in Nat /\ events' = events + 1
           /\ \/ Audit(Message(Sidecar, "tool", events')) /\ faults' = faults
              \/ AuditFails(Message(Sidecar, "tool", events')) /\ faults' = faults + 1
           /\ record' \in SessionRecord /\ record'.status = record.status /\ record'.turns = record.turns
<1>1. events \in Nat /\ events' = events + 1 /\ events' \in Nat
  BY EventsAssumption DEF ToolCall, TypeInv, TypeOK
<1>2. PICK m \in Spoken : m = Message(Sidecar, "tool", events')
  BY <1>1, MessageTypes
<1>3. (Audit(m) /\ faults' = faults) \/ (AuditFails(m) /\ faults' = faults + 1)
  BY <1>2 DEF ToolCall
<1>4. record' \in SessionRecord /\ record'.status = record.status /\ record'.turns = record.turns
  BY <1>3, AuditTypes
<1> QED
  BY <1>1, <1>2, <1>3, <1>4

LEMMA RegistryStep ==
    ASSUME TypeInv, RegistryMatchesRecord, [Next]_vars
    PROVE  RegistryMatchesRecord'
<1> USE DEF TypeInv
<1>0. /\ record.status \in {"none", "active", "ended"} /\ registered \in BOOLEAN /\ faults \in Nat
      /\ \A r, x : /\ [record EXCEPT !.status = x].status = x
                   /\ [record EXCEPT !.turns = r].status = record.status
                   /\ [record EXCEPT !.tools = r].status = record.status
  BY FaultsAssumption DEF TypeOK
<1>1. CASE UNCHANGED <<record, registered, flush, dropped, faults>>
  BY <1>1 DEF RegistryMatchesRecord
<1>2. CASE EndOrFail
  <2>1. CASE End /\ UNCHANGED faults /\ registered
    <3>1. record'.status = "ended" /\ registered' = FALSE
      BY <1>0, <2>1 DEF End
    <3> QED
      BY <3>1 DEF RegistryMatchesRecord
  <2>2. CASE End /\ UNCHANGED faults /\ ~registered
    BY <2>2 DEF End, RegistryMatchesRecord, sessionVars
  <2>3. CASE EndFails
    <3>1. faults' # 0 /\ registered' = FALSE
      BY <1>0, <2>3 DEF EndFails
    <3> QED
      BY <3>1 DEF RegistryMatchesRecord
  <2> QED
    BY <1>2, <2>1, <2>2, <2>3 DEF EndOrFail
<1>3. CASE Register
  BY <1>0, <1>3 DEF Register, RegistryMatchesRecord
<1>4. ASSUME NEW s \in Sockets, Transcript(s) \/ ToolCall(s) PROVE RegistryMatchesRecord'
  <2>1. record'.status = record.status /\ registered' = registered
    <3>1. CASE Transcript(s)
      BY <1>0, <3>1 DEF Transcript
    <3>2. CASE ToolCall(s)
      BY <1>0, <3>2, ToolCallFacts DEF ToolCall
    <3> QED
      BY <1>4, <3>1, <3>2
  <2>2. faults' = 0 => faults = 0
    BY <1>0, <1>4 DEF Transcript, ToolCall
  <2> QED
    BY <2>1, <2>2 DEF RegistryMatchesRecord
<1>5. CASE Flush
  BY <1>5 DEF Flush, FlushRead, FlushCheck, FlushWrite, FlushRefused, RegistryMatchesRecord
<1>6. CASE FlushFails
  BY <1>6, FailureFacts DEF RegistryMatchesRecord
<1>7. CASE Crash
  BY <1>0, <1>7 DEF Crash, RegistryMatchesRecord
<1> QED
  BY <1>1, <1>2, <1>3, <1>4, <1>5, <1>6, <1>7, SessionMoves

\* One step of the flush: what it had to write it has still to write, has given up,
\* or sees in the conversation.
LEMMA FlushKeeps ==
    ASSUME TypeInv, TypeInv', Told \subseteq Told', Flush, NEW m, m \in UNION {ToSet(f.todo) : f \in flush}
    PROVE  m \in Told' \cup dropped' \cup UNION {ToSet(f.todo) : f \in flush'}
<1> USE DEF TypeInv
<1>0. PICK f \in flush : m \in ToSet(f.todo) /\ flush = {f}
  BY DEF FlushIsOne
<1>1. /\ f \in Flight /\ f.todo \in Seq(Spoken) /\ f.seen \in SUBSET Spoken
      /\ f.expects \in Nat /\ f.tries \in 0..1 /\ f.limit \in 1..2 /\ conv.revision \in Nat
  BY <1>0 DEF TypeOK, Flight, LogTypeOK, Document
<1>2. InVoice \in SUBSET Spoken /\ InVoice \subseteq Told
  BY InVoiceTypes DEF TypeOK
<1>3. ASSUME NEW todo, NEW seen, GoesOn(flush', todo, seen), m \in ToSet(todo), seen \subseteq Told'
      PROVE  m \in Told' \cup UNION {ToSet(g.todo) : g \in flush'}
  <2>1. CASE flush' = {}
    BY <1>3, <2>1 DEF GoesOn
  <2>2. CASE flush' # {}
    <3>1. PICK g \in flush' : ToSet(todo) \subseteq ToSet(g.todo) \cup seen
      BY <1>3, <2>2 DEF GoesOn
    <3> QED
      BY <1>3, <3>1
  <2> QED
    BY <2>1, <2>2
<1>4. CASE FlushRead
  <2>1. PICK seen : seen = IF f.limit = 2 THEN InVoice ELSE {}
    OBVIOUS
  <2>2. flush' = Flushing(f.todo, seen, conv.revision, 0, f.limit)
    BY <1>0, <1>4, <2>1 DEF FlushRead
  <2>3. MayGoOn(f.todo, seen, conv.revision, 0, f.limit) /\ seen \subseteq Told'
    BY <1>1, <1>2, <2>1 DEF MayGoOn
  <2>4. GoesOn(flush', f.todo, seen)
    BY <2>2, <2>3, FlushingFacts
  <2> QED
    BY <1>0, <1>3, <2>3, <2>4
<1>5. CASE FlushCheck
  <2>1. flush' = {[f EXCEPT !.at = "write"]}
    BY <1>0, <1>5 DEF FlushCheck
  <2>2. [f EXCEPT !.at = "write"].todo = f.todo
    BY <1>1 DEF Flight
  <2> QED
    BY <1>0, <2>1, <2>2
<1>6. CASE FlushWrite
  <2>1. /\ f.at = "write" /\ Replace(Sidecar, Head(f.todo))
        /\ flush' = Flushing(f.todo, f.seen \cup {Head(f.todo)}, conv'.revision, 0, f.limit)
    BY <1>0, <1>6 DEF FlushWrite
  <2>2. f.todo # <<>> /\ Head(f.todo) \in Spoken
    <3>1. f.todo # <<>>
      BY <1>0, <2>1 DEF FlushKnows
    <3> QED
      BY <1>1, <3>1, HeadTail
  <2>3. Head(f.todo) \in Told' /\ conv'.revision \in Nat
    <3>1. Sidecar \in Writers /\ Head(f.todo) \in Messages
      BY <2>2, MessageTypes DEF Writers
    <3>2. Told' = Told \cup {Head(f.todo)} /\ conv' \in Document
      BY <2>1, <3>1, Replaced DEF TypeOK
    <3> QED
      BY <3>2 DEF Document
  <2>4. PICK seen : seen = f.seen \cup {Head(f.todo)}
    OBVIOUS
  <2>5. MayGoOn(f.todo, seen, conv'.revision, 0, f.limit) /\ seen \subseteq Told'
    BY <1>0, <1>1, <2>2, <2>3, <2>4 DEF MayGoOn, FlushKnows
  <2>6. GoesOn(flush', f.todo, seen)
    BY <2>1, <2>4, <2>5, FlushingFacts
  <2> QED
    BY <1>0, <1>3, <2>5, <2>6
<1>7. CASE FlushRefused
  <2>1. /\ f.at = "append"
        /\ \/ /\ f.tries + 1 < f.limit \/ Head(f.todo) \in InVoice
              /\ flush' = Flushing(f.todo, InVoice, conv.revision, f.tries + 1, f.limit)
           \/ /\ flush' = Flushing(Tail(f.todo), InVoice, conv.revision, 0, f.limit)
              /\ dropped' = dropped \cup {Head(f.todo)}
    BY <1>0, <1>7 DEF FlushRefused
  <2>2. f.todo # <<>> /\ Tail(f.todo) \in Seq(Spoken) /\ ToSet(f.todo) = {Head(f.todo)} \cup ToSet(Tail(f.todo))
    <3>1. f.todo # <<>>
      BY <1>0, <2>1 DEF FlushKnows
    <3> QED
      BY <1>1, <3>1, HeadTail
  <2>3. CASE /\ f.tries + 1 < f.limit \/ Head(f.todo) \in InVoice
             /\ flush' = Flushing(f.todo, InVoice, conv.revision, f.tries + 1, f.limit)
    <3>1. MayGoOn(f.todo, InVoice, conv.revision, f.tries + 1, f.limit)
      BY <1>1, <1>2, <2>3 DEF MayGoOn
    <3>2. GoesOn(flush', f.todo, InVoice)
      BY <2>3, <3>1, FlushingFacts
    <3> QED
      BY <1>0, <1>2, <1>3, <3>2
  <2>4. CASE /\ flush' = Flushing(Tail(f.todo), InVoice, conv.revision, 0, f.limit)
             /\ dropped' = dropped \cup {Head(f.todo)}
    <3>1. MayGoOn(Tail(f.todo), InVoice, conv.revision, 0, f.limit)
      BY <1>1, <1>2, <2>2 DEF MayGoOn
    <3>2. GoesOn(flush', Tail(f.todo), InVoice)
      BY <2>4, <3>1, FlushingFacts
    <3>3. m = Head(f.todo) \/ m \in ToSet(Tail(f.todo))
      BY <1>0, <2>2
    <3> QED
      BY <1>2, <1>3, <2>4, <3>2, <3>3
  <2> QED
    BY <2>1, <2>3, <2>4
<1> QED
  BY <1>4, <1>5, <1>6, <1>7 DEF Flush

LEMMA QuietStep ==
    ASSUME TypeInv, TypeInv', Told \subseteq Told', Quiet, [Next]_vars
    PROVE  Quiet'
<1> SUFFICES ASSUME record'.status = "ended", faults' = 0, NEW m, m \in OnRecord'
             PROVE  m \in Told' \cup dropped' \cup UNION {ToSet(f.todo) : f \in flush'}
  BY DEF Quiet, Kept
<1> USE DEF TypeInv
<1>0. /\ faults \in Nat /\ record.turns \in Seq(Spoken) /\ record.tools \in Seq(Spoken)
      /\ record = [status |-> record.status, turns |-> record.turns, tools |-> record.tools]
  BY FaultsAssumption DEF TypeOK
<1>1. ASSUME UNCHANGED <<record, flush, dropped, faults>>
      PROVE  m \in Told' \cup dropped' \cup UNION {ToSet(f.todo) : f \in flush'}
  BY <1>1 DEF Quiet, Kept, OnRecord, Entries
<1>2. CASE Idle /\ EndOrFail
  <2>1. ~EndFails
    BY <1>0 DEF EndFails
  <2>2. CASE registered
    <3>1. record' = [record EXCEPT !.status = "ended"] /\ StartFlush(Entries(record), 2)
      BY <1>2, <2>1, <2>2 DEF EndOrFail, End
    <3>2. Entries(record') = Entries(record)
      BY <1>0, <3>1 DEF Entries
    <3>3. \E f \in flush' : f.todo = Entries(record)
      BY <3>1 DEF StartFlush
    <3> QED
      BY <3>2, <3>3 DEF OnRecord
  <2>3. CASE ~registered
    <3>1. UNCHANGED <<record, flush, dropped, faults>>
      BY <1>2, <2>1, <2>3 DEF EndOrFail, End, sessionVars
    <3> QED
      BY <1>1, <3>1
  <2> QED
    BY <2>2, <2>3
<1>3. CASE Register
  BY <1>0, <1>3 DEF Register
<1>4. ASSUME NEW s \in Sockets, Transcript(s) PROVE UNCHANGED <<record, flush, dropped, faults>>
  BY <1>0, <1>4 DEF Transcript
<1>5. ASSUME NEW s \in Sockets, ToolCall(s)
      PROVE  m \in Told' \cup dropped' \cup UNION {ToSet(f.todo) : f \in flush'}
  <2>1. PICK b : b = Message(Sidecar, "tool", events')
    OBVIOUS
  <2>2. /\ record' = [record EXCEPT !.tools = Append(record.tools, b)] /\ StartFlush(<<b>>, 1)
        /\ Idle /\ dropped' = dropped /\ faults = 0
    <3>1. faults' # faults + 1
      BY <1>0
    <3>2. Audit(b) /\ faults = 0
      BY <1>5, <2>1, <3>1 DEF ToolCall
    <3> QED
      BY <1>5, <3>2 DEF ToolCall, Listening, Audit, Noted
  <2>3. record' = [status |-> record.status, turns |-> record.turns, tools |-> Append(record.tools, b)]
    BY <1>0, <2>2
  <2>4. OnRecord' = OnRecord \cup {b}
    <3>1. b \in Spoken
      BY <1>5, <2>1, EventsAssumption, MessageTypes DEF ToolCall, TypeOK
    <3>2. Append(record.tools, b) \in Seq(Spoken) /\ ToSet(Append(record.tools, b)) = ToSet(record.tools) \cup {b}
      BY <1>0, <3>1, AppendSet
    <3>3. OnRecord = ToSet(record.turns) \cup ToSet(record.tools)
      BY <1>0, ConcatSet DEF OnRecord, Entries
    <3>4. OnRecord' = ToSet(record.turns \o Append(record.tools, b))
      BY <2>3 DEF OnRecord, Entries
    <3>5. OnRecord' = ToSet(record.turns) \cup ToSet(Append(record.tools, b))
      <4>1. PICK u \in Seq(Spoken) : u = Append(record.tools, b)
        BY <3>2
      <4>2. ToSet(record.turns \o u) = ToSet(record.turns) \cup ToSet(u)
        BY <1>0, ConcatSet
      <4> QED
        BY <3>4, <4>1, <4>2
    <3> QED
      BY <3>2, <3>3, <3>5
  <2>5. b \in UNION {ToSet(f.todo) : f \in flush'}
    <3>1. \E f \in flush' : f.todo = <<b>>
      BY <2>2 DEF StartFlush
    <3>2. b \in ToSet(<<b>>)
      BY DEF ToSet
    <3> QED
      BY <3>1, <3>2
  <2>6. OnRecord \subseteq Told \cup dropped
    BY <2>2, <2>3 DEF Quiet, Kept, Idle
  <2> QED
    BY <2>2, <2>4, <2>5, <2>6
<1>6. CASE Flush
  <2>1. record' = record /\ faults' = faults /\ dropped \subseteq dropped'
    BY <1>6 DEF Flush, FlushRead, FlushCheck, FlushWrite, FlushRefused
  <2>2. m \in Told \cup dropped \cup UNION {ToSet(f.todo) : f \in flush}
    BY <2>1 DEF Quiet, Kept, OnRecord
  <2> QED
    BY <1>6, <2>1, <2>2, FlushKeeps
<1>7. CASE FlushFails \/ Crash
  BY <1>0, <1>7 DEF FlushFails, Crash
<1> QED
  BY <1>1, <1>2, <1>3, <1>4, <1>5, <1>6, <1>7, SessionMoves

-----------------------------------------------------------------------------
(* Questions and answers *)

\* The documents there are: the one that is stored, and those about to replace it.
Docs == {conv} \cup UNION {held[w] : w \in Writers}

QuestionOf(m) == [m EXCEPT !.kind = "question"]
Asked(t)      == Message(t, "question", turns[t])
Answered(t)   == Message(t, "answer", turns[t])

\* m stands at n, and only there, if it is in the document.
OnlyAt(d, m, n) == \A i \in 1..Len(d.messages) : d.messages[i] = m => i = n

Ranked(d) == d.revision = Len(d.messages) + 1
OnTop(d)  == \A i \in 1..Len(d.messages) :
                 /\ d.messages[i].kind = "answer"
                 /\ QuestionOf(d.messages[i]) \in ToSet(d.messages)
                 => i > 1 /\ d.messages[i - 1] = QuestionOf(d.messages[i])

Orderly == \A d \in Docs : Ranked(d) /\ OnTop(d)

Grounded == \A m \in Told : m.kind = "answer" => QuestionOf(m) \in Told

\* Where a tab is in its turn says what of the turn was ever stored, and where.
Numbered(t) == \A m \in Told : m.by = t => m.n <= turns[t]
Fresh(t)    == tab[t].at \in {"thinking", "asking"} => \A m \in Told : m.by = t => m.n # turns[t]
Open(t)     == tab[t].at \in {"answering", "replying"} => Asked(t) \in Told /\ Answered(t) \notin Told
Chained(t)  == tab[t].at = "answering" => \A d \in Docs : OnlyAt(d, Asked(t), tab[t].expects - 1)
Capped(t)   == tab[t].at = "replying" => \A d \in held[t] : OnlyAt(d, Asked(t), Len(d.messages))

InTurn(t) == Numbered(t) /\ Fresh(t) /\ Open(t) /\ Chained(t) /\ Capped(t)

Stacked == Orderly /\ Grounded /\ \A t \in Tabs : InTurn(t)

\* A document with one message more.
Grown(d, m) == [revision |-> d.revision + 1, messages |-> Append(d.messages, m)]

\* An answer may only go on top of its question, and a question not under its answer.
MayFollow(d, m) ==
    /\ m.kind = "answer" => OnlyAt(d, QuestionOf(m), Len(d.messages))
    /\ m.kind = "question" => \A x \in ToSet(d.messages) : x.kind = "answer" => QuestionOf(x) # m

LEMMA GrownFacts ==
    ASSUME NEW d \in Document, NEW m \in Messages
    PROVE  LET e == Grown(d, m)
           IN  /\ Len(d.messages) \in Nat /\ d.revision \in Nat /\ d.messages \in Seq(Messages)
               /\ e.revision = d.revision + 1 /\ e.messages \in Seq(Messages)
               /\ Len(e.messages) = Len(d.messages) + 1 /\ e.messages[Len(d.messages) + 1] = m
               /\ \A i \in 1..Len(d.messages) : e.messages[i] = d.messages[i]
               /\ ToSet(e.messages) = ToSet(d.messages) \cup {m}
<1>1. d.messages \in Seq(Messages) /\ d.revision \in Nat
  BY DEF Document
<1>2. Grown(d, m).revision = d.revision + 1 /\ Grown(d, m).messages = Append(d.messages, m)
  BY DEF Grown
<1>3. ToSet(Append(d.messages, m)) = ToSet(d.messages) \cup {m}
  BY <1>1, AppendSet
<1> QED
  BY <1>1, <1>2, <1>3

LEMMA GrowsInOrder ==
    ASSUME NEW d \in Document, NEW m \in Messages, Ranked(d), OnTop(d), MayFollow(d, m)
    PROVE  Ranked(Grown(d, m)) /\ OnTop(Grown(d, m))
<1>1. PICK e : e = Grown(d, m)
  OBVIOUS
<1>2. /\ Len(d.messages) \in Nat /\ d.revision \in Nat /\ DOMAIN d.messages = 1..Len(d.messages)
      /\ e.revision = d.revision + 1
      /\ Len(e.messages) = Len(d.messages) + 1 /\ e.messages[Len(d.messages) + 1] = m
      /\ \A i \in 1..Len(d.messages) : e.messages[i] = d.messages[i]
      /\ ToSet(e.messages) = ToSet(d.messages) \cup {m}
      /\ \A i \in 1..Len(d.messages) : d.messages[i] \in ToSet(d.messages) /\ d.messages[i] \in Messages
  <2>1. d.messages \in Seq(Messages)
    BY DEF Document
  <2>2. /\ DOMAIN d.messages = 1..Len(d.messages)
        /\ \A i \in 1..Len(d.messages) : d.messages[i] \in ToSet(d.messages) /\ d.messages[i] \in Messages
    BY <2>1 DEF ToSet
  <2> QED
    BY <1>1, <2>2, GrownFacts
<1>3. Ranked(e)
  BY <1>2 DEF Ranked
<1>4. \A x \in Messages : QuestionOf(x).kind = "question"
  BY DEF QuestionOf, Messages, Written, Spoken
<1>5. ASSUME NEW i \in 1..Len(e.messages), e.messages[i].kind = "answer",
             QuestionOf(e.messages[i]) \in ToSet(e.messages)
      PROVE  i > 1 /\ e.messages[i - 1] = QuestionOf(e.messages[i])
  <2>1. CASE i = Len(d.messages) + 1
    <3>1. e.messages[i] = m /\ m.kind = "answer"
      BY <1>2, <1>5, <2>1
    <3>2. QuestionOf(m) \in ToSet(d.messages)
      BY <1>2, <1>4, <1>5, <3>1
    <3>3. PICK j \in 1..Len(d.messages) : d.messages[j] = QuestionOf(m)
      BY <1>2, <3>2 DEF ToSet
    <3>4. j = Len(d.messages)
      BY <3>1, <3>3 DEF MayFollow, OnlyAt
    <3>5. i > 1 /\ i - 1 = j
      BY <1>2, <2>1, <3>3, <3>4
    <3> QED
      BY <1>2, <3>1, <3>3, <3>5
  <2>2. CASE i # Len(d.messages) + 1
    <3>1. i \in 1..Len(d.messages)
      BY <1>2, <2>2
    <3>2. PICK x \in Messages : x = d.messages[i] /\ x = e.messages[i] /\ x \in ToSet(d.messages)
      BY <1>2, <3>1
    <3>3. QuestionOf(x) \in ToSet(d.messages)
      BY <1>2, <1>4, <1>5, <3>2 DEF MayFollow
    <3>4. i > 1 /\ d.messages[i - 1] = QuestionOf(x)
      BY <1>5, <3>1, <3>2, <3>3 DEF OnTop
    <3>5. i - 1 \in 1..Len(d.messages)
      BY <1>2, <3>1, <3>4
    <3> QED
      BY <1>2, <3>2, <3>4, <3>5
  <2> QED
    BY <2>1, <2>2
<1>6. OnTop(e)
  BY <1>5 DEF OnTop
<1> QED
  BY <1>1, <1>3, <1>6

LEMMA GrowsElsewhere ==
    ASSUME NEW d \in Document, NEW m \in Messages, NEW q, NEW n
    PROVE  /\ OnlyAt(d, q, n) /\ q # m => OnlyAt(Grown(d, m), q, n)
           /\ Ranked(d) /\ m \notin ToSet(d.messages) => OnlyAt(Grown(d, m), m, d.revision)
<1>1. PICK e : e = Grown(d, m)
  OBVIOUS
<1>2. /\ Len(d.messages) \in Nat /\ DOMAIN d.messages = 1..Len(d.messages)
      /\ Len(e.messages) = Len(d.messages) + 1 /\ e.messages[Len(d.messages) + 1] = m
      /\ \A i \in 1..Len(d.messages) : e.messages[i] = d.messages[i] /\ d.messages[i] \in ToSet(d.messages)
  <2>1. d.messages \in Seq(Messages)
    BY DEF Document
  <2>2. DOMAIN d.messages = 1..Len(d.messages) /\ \A i \in 1..Len(d.messages) : d.messages[i] \in ToSet(d.messages)
    BY <2>1 DEF ToSet
  <2> QED
    BY <1>1, <2>2, GrownFacts
<1>3. \A i \in 1..Len(e.messages) : i \in 1..Len(d.messages) \/ i = Len(d.messages) + 1
  BY <1>2
<1>4. ASSUME OnlyAt(d, q, n), q # m PROVE OnlyAt(e, q, n)
  BY <1>2, <1>3, <1>4 DEF OnlyAt
<1>5. ASSUME Ranked(d), m \notin ToSet(d.messages) PROVE OnlyAt(e, m, d.revision)
  BY <1>2, <1>3, <1>5 DEF OnlyAt, Ranked
<1> QED
  BY <1>1, <1>4, <1>5

\* The documents are those of the conversation's type, and their messages were told.
LEMMA DocFacts ==
    ASSUME LogTypeOK, DocsAreTold
    PROVE  /\ \A d \in Docs : d \in Document /\ ToSet(d.messages) \subseteq Told
           /\ \A w \in Writers : held[w] \subseteq Docs
           /\ Told \subseteq Messages /\ conv \in Docs
<1>1. InLog \subseteq Messages
  BY DEF LogTypeOK, Document, InLog, ToSet
<1> QED
  BY <1>1 DEF Docs, LogTypeOK, DocsAreTold, Told, InLog

\* The parts of a message a proof looks at.
LEMMA MessageParts ==
    /\ \A w, k, n : /\ Message(w, k, n).by = w /\ Message(w, k, n).kind = k
                    /\ Message(w, k, n).n = n
    /\ \A w, n : QuestionOf(Message(w, "answer", n)) = Message(w, "question", n)
    /\ \A m \in Messages : QuestionOf(m).by = m.by /\ QuestionOf(m).kind = "question" /\ QuestionOf(m).n = m.n
    /\ \A m \in Messages : m.by \in Writers /\ m.n \in Nat
    /\ \A m \in Spoken : m.by = Sidecar /\ m.kind # "question" /\ m.kind # "answer"
  BY DEF Message, QuestionOf, Messages, Written, Spoken, Writers

\* Nothing about a tab's turn changes when somebody else writes m.
LEMMA OthersWrite ==
    ASSUME TypeInv, NEW t \in Tabs, InTurn(t), NEW w \in Writers, NEW m \in Messages, w # t, m.by = w,
           Replace(w, m), tab'[t] = tab[t], turns'[t] = turns[t]
    PROVE  InTurn(t)'
<1> USE DEF TypeInv
<1>1. PICK c \in held[w] :
          /\ c \in Document /\ conv' = Grown(c, m) /\ held' = [held EXCEPT ![w] = {}]
          /\ Told' = Told \cup {m}
  BY Replaced DEF TypeOK, Grown
<1>2. /\ LogTypeOK /\ t \in Writers /\ turns[t] \in Nat /\ held \in [Writers -> SUBSET Document]
      /\ Asked(t).by = t /\ Answered(t).by = t
  BY MessageParts DEF TypeOK, LogTypeOK, Writers, Asked, Answered
<1>3. Asked(t)' = Asked(t) /\ Answered(t)' = Answered(t) /\ Asked(t) # m /\ Answered(t) # m
  BY <1>2 DEF Asked, Answered
<1>4. held'[t] = held[t] /\ \A d \in Docs' : d \in Docs \/ d = Grown(c, m)
  <2>1. \A v \in Writers : held'[v] \subseteq held[v]
    BY <1>1, <1>2
  <2> QED
    BY <1>1, <1>2, <2>1 DEF Docs
<1>5. Numbered(t)' /\ Fresh(t)' /\ Open(t)'
  BY <1>1, <1>3 DEF InTurn, Numbered, Fresh, Open
<1>6. Chained(t)'
  <2>1. ASSUME tab[t].at = "answering", NEW d \in Docs'
        PROVE  OnlyAt(d, Asked(t), tab[t].expects - 1)
    <3>1. c \in Docs
      BY <1>1 DEF Docs
    <3>2. OnlyAt(c, Asked(t), tab[t].expects - 1) /\ (d \in Docs => OnlyAt(d, Asked(t), tab[t].expects - 1))
      BY <2>1, <3>1 DEF InTurn, Chained
    <3>3. OnlyAt(Grown(c, m), Asked(t), tab[t].expects - 1)
      BY <1>1, <1>3, <3>2, GrowsElsewhere
    <3> QED
      BY <1>4, <2>1, <3>2, <3>3
  <2> QED
    BY <1>3, <2>1 DEF Chained
<1>7. Capped(t)'
  BY <1>3, <1>4 DEF InTurn, Capped
<1> QED
  BY <1>5, <1>6, <1>7 DEF InTurn

LEMMA OrderlyWrite ==
    ASSUME TypeInv, Orderly, NEW w \in Writers, NEW m \in Messages, Replace(w, m),
           \A c \in held[w] : MayFollow(c, m)
    PROVE  /\ Orderly' /\ Told' = Told \cup {m}
           /\ \E c \in held[w] : /\ c \in Document /\ c \in Docs /\ conv' = Grown(c, m)
                                 /\ \A d \in Docs' : d \in Docs \/ d = Grown(c, m)
<1> USE DEF TypeInv
<1>1. PICK c \in held[w] :
          /\ c \in Document /\ conv' = Grown(c, m) /\ held' = [held EXCEPT ![w] = {}]
          /\ Told' = Told \cup {m}
  BY Replaced DEF TypeOK, Grown
<1>2. c \in Docs
  BY <1>1 DEF Docs
<1>3. \A d \in Docs' : d \in Docs \/ d = Grown(c, m)
  <2>1. \A v \in Writers : held'[v] \subseteq held[v]
    BY <1>1 DEF TypeOK, LogTypeOK
  <2> QED
    BY <1>1, <2>1 DEF Docs
<1>4. Ranked(Grown(c, m)) /\ OnTop(Grown(c, m))
  BY <1>1, <1>2, GrowsInOrder DEF Orderly
<1>5. Orderly'
  BY <1>3, <1>4 DEF Orderly, Ranked, OnTop
<1> QED
  BY <1>1, <1>2, <1>3, <1>5

\* Nothing about a tab's turn changes when nothing is written and it does not move.
LEMMA TurnStands ==
    ASSUME NEW t \in Tabs, InTurn(t), UNCHANGED <<conv, overwritten>>,
           Docs' \subseteq Docs, held'[t] \subseteq held[t], tab'[t] = tab[t], turns'[t] = turns[t]
    PROVE  InTurn(t)'
<1>1. Told' = Told /\ Asked(t)' = Asked(t) /\ Answered(t)' = Answered(t)
  BY DEF Told, InLog, Asked, Answered
<1>2. Numbered(t)' /\ Fresh(t)' /\ Open(t)'
  BY <1>1 DEF InTurn, Numbered, Fresh, Open
<1>3. Chained(t)' /\ Capped(t)'
  BY <1>1 DEF InTurn, Chained, Capped, OnlyAt
<1> QED
  BY <1>2, <1>3 DEF InTurn

LEMMA SidecarStacks ==
    ASSUME TypeInv, Stacked, FlushKnows, Flush \/ FlushFails
    PROVE  Stacked'
<1> USE DEF TypeInv
<1>0. Sidecar \in Writers /\ held \in [Writers -> SUBSET Document] /\ tab' = tab /\ turns' = turns
  BY DEF Writers, TypeOK, LogTypeOK, Flush, FlushRead, FlushCheck, FlushWrite, FlushRefused, FlushFails, logVars
<1>1. ASSUME UNCHANGED <<conv, overwritten>>, \A w \in Writers : held'[w] \subseteq held[w] \/ held'[w] = {conv},
             \A t \in Tabs : held'[t] \subseteq held[t]
      PROVE  Stacked'
  <2>1. Docs' \subseteq Docs
    BY <1>1 DEF Docs
  <2>2. \A t \in Tabs : InTurn(t)'
    BY <1>0, <1>1, <2>1, TurnStands DEF Stacked
  <2>3. Orderly' /\ Grounded'
    BY <1>1, <2>1 DEF Stacked, Orderly, Ranked, OnTop, Grounded, Told, InLog
  <2> QED
    BY <2>2, <2>3 DEF Stacked
<1>2. ASSUME NEW m \in Spoken, Replace(Sidecar, m) PROVE Stacked'
  <2>1. m \in Messages /\ m.by = Sidecar /\ m.kind # "answer" /\ m.kind # "question"
    BY MessageTypes, MessageParts
  <2>2. \A c \in held[Sidecar] : MayFollow(c, m)
    BY <2>1 DEF MayFollow
  <2>3. Orderly' /\ Told' = Told \cup {m}
    BY <1>0, <1>2, <2>1, <2>2, OrderlyWrite DEF Stacked
  <2>4. Grounded'
    BY <2>1, <2>3 DEF Stacked, Grounded
  <2>5. ASSUME NEW t \in Tabs PROVE InTurn(t)'
    <3>1. t # Sidecar
      BY WriterAssumption
    <3> QED
      BY <1>0, <1>2, <2>1, <3>1, OthersWrite DEF Stacked
  <2> QED
    BY <2>3, <2>4, <2>5 DEF Stacked
<1>3. CASE FlushRead \/ FlushRefused
  <2>1. UNCHANGED <<conv, overwritten, held>>
    BY <1>3 DEF FlushRead, FlushRefused, logVars
  <2> QED
    BY <1>1, <2>1
<1>4. CASE FlushCheck
  <2>1. UNCHANGED <<conv, overwritten>> /\ held' = [held EXCEPT ![Sidecar] = {conv}]
    BY <1>4 DEF FlushCheck, Check
  <2>2. \A w \in Writers : w # Sidecar => held'[w] = held[w]
    BY <1>0, <2>1
  <2>3. held'[Sidecar] = {conv} /\ \A t \in Tabs : t # Sidecar /\ t \in Writers
    BY <1>0, <2>1, WriterAssumption DEF Writers
  <2> QED
    BY <1>1, <2>1, <2>2, <2>3
<1>5. CASE FlushWrite
  <2>1. PICK f \in flush : f.at = "write" /\ Replace(Sidecar, Head(f.todo))
    BY <1>5 DEF FlushWrite
  <2>2. Head(f.todo) \in Spoken
    <3>1. f.todo # <<>> /\ f.todo \in Seq(Spoken)
      BY <2>1 DEF FlushKnows, TypeOK, Flight
    <3> QED
      BY <3>1, HeadTail
  <2> QED
    BY <1>2, <2>1, <2>2
<1>6. CASE FlushFails
  <2>1. PICK f \in flush :
            \/ f.at = "write" /\ Replace(Sidecar, Head(f.todo))
            \/ UNCHANGED <<conv, overwritten>> /\ (held' = held \/ held' = [held EXCEPT ![Sidecar] = {}])
    BY <1>6, FailureFacts
  <2>2. f.at = "write" => Head(f.todo) \in Spoken
    <3>1. f.todo \in Seq(Spoken) /\ (f.at = "write" => f.todo # <<>>)
      BY <2>1 DEF FlushKnows, TypeOK, Flight
    <3> QED
      BY <3>1, HeadTail
  <2>3. CASE UNCHANGED <<conv, overwritten>> /\ (held' = held \/ held' = [held EXCEPT ![Sidecar] = {}])
    <3>1. \A w \in Writers : held'[w] \subseteq held[w]
      BY <1>0, <2>3
    <3> QED
      BY <1>1, <2>3, <3>1 DEF Writers
  <2> QED
    BY <1>2, <2>1, <2>2, <2>3
<1> QED
  BY <1>3, <1>4, <1>5, <1>6 DEF Flush

LEMMA PageStacks ==
    ASSUME TypeInv, Stacked, NEW t \in Tabs, Page(t)
    PROVE  Stacked'
<1> USE DEF TypeInv
<1>0. /\ LogTypeOK /\ DocsAreTold /\ t \in Writers /\ turns[t] \in Nat /\ InTurn(t) /\ tab[t].expects \in Nat
      /\ held \in [Writers -> SUBSET Document] /\ turns \in [Tabs -> Nat] /\ Tabs \subseteq Writers
      /\ tab \in [Tabs -> [at : Places, kind : {"turn", "audit"}, expects : Nat]]
      /\ conv \in Document
  BY DEF TypeOK, LogTypeOK, Writers, Stacked
<1>1. CASE \E k \in {"turn", "audit"} : Begin(t, k)
  <2>1. PICK k \in {"turn", "audit"} : Begin(t, k)
    BY <1>1
  <2>2. UNCHANGED <<conv, held, overwritten>> /\ Docs' = Docs /\ Told' = Told
    BY <2>1 DEF Begin, Docs, Told, InLog
  <2>3. \A u \in Tabs : u # t => tab'[u] = tab[u] /\ turns'[u] = turns[u]
    BY <1>0, <2>1 DEF Begin
  <2>4. tab'[t].at = "thinking" /\ turns'[t] = turns[t] + 1
    BY <1>0, <2>1 DEF Begin
  <2>5. \A m \in Told : m.by = t => m.n <= turns[t] /\ m.n \in Nat
    BY <1>0, DocFacts, MessageParts DEF InTurn, Numbered
  <2>6. InTurn(t)'
    BY <1>0, <2>2, <2>4, <2>5 DEF InTurn, Numbered, Fresh, Open, Chained, Capped
  <2>7. \A u \in Tabs : u # t => InTurn(u)'
    BY <2>2, <2>3, TurnStands DEF Stacked
  <2>8. Orderly' /\ Grounded'
    BY <2>2 DEF Stacked, Orderly, Ranked, OnTop, Grounded
  <2> QED
    BY <2>6, <2>7, <2>8 DEF Stacked
<1>2. CASE CheckQuestion(t) \/ CheckAnswer(t)
  <2>1. UNCHANGED <<conv, overwritten, turns>> /\ held' = [held EXCEPT ![t] = {conv}]
    BY <1>2 DEF CheckQuestion, CheckAnswer, Check
  <2>2. \A u \in Tabs : u # t => tab'[u] = tab[u] /\ held'[u] = held[u]
    BY <1>0, <1>2, <2>1 DEF CheckQuestion, CheckAnswer, Goto
  <2>3. Docs' \subseteq Docs /\ Told' = Told /\ held'[t] = {conv}
    <3>1. \A w \in Writers : held'[w] \subseteq held[w] \/ held'[w] = {conv}
      BY <1>0, <2>1
    <3> QED
      BY <1>0, <2>1, <3>1 DEF Docs, Told, InLog
  <2>4. \A u \in Tabs : u # t => InTurn(u)'
    BY <2>1, <2>2, <2>3, TurnStands DEF Stacked
  <2>5. Orderly' /\ Grounded'
    BY <2>3 DEF Stacked, Orderly, Ranked, OnTop, Grounded
  <2>6. Numbered(t)' /\ Asked(t)' = Asked(t) /\ Answered(t)' = Answered(t)
    BY <1>0, <2>1, <2>3 DEF InTurn, Numbered, Asked, Answered
  <2>7. CASE CheckQuestion(t)
    <3>1. tab[t].at = "thinking" /\ tab'[t].at = "asking"
      BY <1>0, <2>7 DEF CheckQuestion, Goto
    <3>2. InTurn(t)'
      BY <1>0, <2>1, <2>3, <2>6, <3>1 DEF InTurn, Fresh, Open, Chained, Capped
    <3> QED
      BY <2>4, <2>5, <3>2 DEF Stacked
  <2>8. CASE CheckAnswer(t)
    <3>1. tab[t].at = "answering" /\ tab'[t].at = "replying" /\ conv.revision = tab[t].expects
      BY <1>0, <2>8 DEF CheckAnswer, Check, Stale, Goto
    <3>2. conv.revision = Len(conv.messages) + 1 /\ Len(conv.messages) \in Nat
      BY <1>0 DEF Stacked, Orderly, Ranked, Docs, Document
    <3>3. OnlyAt(conv, Asked(t), tab[t].expects - 1)
      BY <1>0, <3>1 DEF InTurn, Chained, Docs
    <3>4. OnlyAt(conv, Asked(t), Len(conv.messages))
      <4>1. tab[t].expects - 1 = Len(conv.messages)
        BY <3>1, <3>2
      <4> QED
        BY <3>3, <4>1
    <3>5. Open(t)' /\ Fresh(t)' /\ Chained(t)'
      BY <1>0, <2>3, <2>6, <3>1 DEF InTurn, Open, Fresh, Chained
    <3>6. Capped(t)'
      BY <2>3, <2>6, <3>4 DEF Capped
    <3>7. InTurn(t)'
      BY <2>6, <3>5, <3>6 DEF InTurn
    <3> QED
      BY <2>4, <2>5, <3>7 DEF Stacked
  <2> QED
    BY <1>2, <2>7, <2>8
<1>3. ASSUME NEW m \in Messages, Replace(t, m), m.by = t, \A u \in Tabs : u # t => tab'[u] = tab[u], turns' = turns
      PROVE  \A u \in Tabs : u # t => InTurn(u)'
  BY <1>0, <1>3, OthersWrite DEF Stacked
<1>4. CASE WriteQuestion(t)
  <2>1. PICK m : m = Message(t, IF tab[t].kind = "turn" THEN "question" ELSE "audit", turns[t])
    OBVIOUS
  <2>2. m \in Messages /\ m.by = t /\ m.n = turns[t] /\ m.kind # "answer"
    BY <1>0, <2>1, MessageTypes, MessageParts
  <2>3. /\ tab[t].at = "asking" /\ Replace(t, m) /\ turns' = turns
        /\ IF tab[t].kind = "turn" THEN Goto(t, "answering", conv'.revision) ELSE Goto(t, "idle", 0)
    BY <1>4, <2>1 DEF WriteQuestion
  <2>4. \A u \in Tabs : u # t => tab'[u] = tab[u]
    BY <1>0, <2>3 DEF Goto
  <2>5. \A u \in Tabs : u # t => InTurn(u)'
    BY <1>3, <2>2, <2>3, <2>4
  <2>6. \A x \in Told : x.by = t => x.n # turns[t]
    BY <1>0, <2>3 DEF InTurn, Fresh
  <2>7. ASSUME NEW c \in held[t] PROVE MayFollow(c, m)
    <3>1. ASSUME NEW x \in ToSet(c.messages), x.kind = "answer", QuestionOf(x) = m PROVE FALSE
      <4>1. x \in Told
        BY <1>0, <3>1 DEF DocsAreTold
      <4>2. m \in Told
        BY <3>1, <4>1 DEF Stacked, Grounded
      <4> QED
        BY <2>2, <2>6, <4>2
    <3> QED
      BY <2>2, <3>1 DEF MayFollow
  <2>8. PICK c \in held[t] :
            /\ Orderly' /\ Told' = Told \cup {m} /\ c \in Document /\ c \in Docs /\ conv' = Grown(c, m)
            /\ \A d \in Docs' : d \in Docs \/ d = Grown(c, m)
    BY <1>0, <2>2, <2>3, <2>7, OrderlyWrite DEF Stacked
  <2>9. Grounded'
    BY <2>2, <2>8 DEF Stacked, Grounded
  <2>10. Numbered(t)' /\ Asked(t)' = Asked(t) /\ Answered(t)' = Answered(t)
    BY <1>0, <2>2, <2>3, <2>8 DEF InTurn, Numbered, Asked, Answered
  <2>11. CASE tab[t].kind # "turn"
    <3>1. tab'[t].at = "idle"
      BY <1>0, <2>3, <2>11 DEF Goto
    <3>2. InTurn(t)'
      BY <2>10, <3>1 DEF InTurn, Fresh, Open, Chained, Capped
    <3> QED
      BY <2>5, <2>8, <2>9, <3>2 DEF Stacked
  <2>12. CASE tab[t].kind = "turn"
    <3>1. tab'[t].at = "answering" /\ tab'[t].expects = conv'.revision
      BY <1>0, <2>3, <2>12 DEF Goto
    <3>2. m = Asked(t) /\ Answered(t) # m /\ Answered(t) \notin Told /\ m \notin Told
      <4>1. Answered(t).by = t /\ Answered(t).n = turns[t] /\ Answered(t).kind = "answer"
        BY <1>0, MessageParts DEF Answered
      <4> QED
        BY <2>1, <2>2, <2>6, <2>12, <4>1 DEF Asked
    <3>3. Open(t)' /\ Fresh(t)' /\ Capped(t)'
      BY <2>8, <2>10, <3>1, <3>2 DEF Open, Fresh, Capped
    <3>4. \A d \in Docs : ToSet(d.messages) \subseteq Told /\ d \in Document
      BY <1>0, DocFacts
    <3>5. conv'.revision - 1 = c.revision /\ Ranked(c)
      BY <2>2, <2>8, GrownFacts DEF Stacked, Orderly
    <3>6. OnlyAt(Grown(c, m), m, c.revision)
      BY <2>2, <2>8, <3>2, <3>4, <3>5, GrowsElsewhere
    <3>7. ASSUME NEW d \in Docs PROVE OnlyAt(d, m, c.revision)
      <4>1. \A i \in 1..Len(d.messages) : d.messages[i] \in ToSet(d.messages)
        BY <3>4 DEF Document, ToSet
      <4> QED
        BY <3>2, <3>4, <4>1 DEF OnlyAt
    <3>8. \A d \in Docs' : OnlyAt(d, m, c.revision)
      BY <2>8, <3>6, <3>7
    <3>9. Chained(t)'
      BY <2>10, <3>1, <3>2, <3>5, <3>8 DEF Chained
    <3>10. InTurn(t)'
      BY <2>10, <3>3, <3>9 DEF InTurn
    <3> QED
      BY <2>5, <2>8, <2>9, <3>10 DEF Stacked
  <2> QED
    BY <2>11, <2>12
<1>5. CASE WriteAnswer(t)
  <2>1. PICK m : m = Answered(t)
    OBVIOUS
  <2>2. m \in Messages /\ m.by = t /\ m.n = turns[t] /\ m.kind = "answer" /\ QuestionOf(m) = Asked(t)
    BY <1>0, <2>1, MessageTypes, MessageParts DEF Answered, Asked
  <2>3. tab[t].at = "replying" /\ Replace(t, m) /\ turns' = turns /\ Goto(t, "idle", 0)
    BY <1>5, <2>1 DEF WriteAnswer, Answered
  <2>4. tab'[t].at = "idle" /\ \A u \in Tabs : u # t => tab'[u] = tab[u]
    BY <1>0, <2>3 DEF Goto
  <2>5. \A u \in Tabs : u # t => InTurn(u)'
    BY <1>3, <2>2, <2>3, <2>4
  <2>6. \A c \in held[t] : MayFollow(c, m)
    BY <1>0, <2>2, <2>3 DEF MayFollow, InTurn, Capped
  <2>7. Orderly' /\ Told' = Told \cup {m}
    BY <1>0, <2>2, <2>3, <2>6, OrderlyWrite DEF Stacked
  <2>8. Grounded'
    <3>1. QuestionOf(m) \in Told
      BY <1>0, <2>2, <2>3 DEF InTurn, Open
    <3> QED
      BY <2>7, <3>1 DEF Stacked, Grounded
  <2>9. InTurn(t)'
    BY <1>0, <2>2, <2>3, <2>4, <2>7 DEF InTurn, Numbered, Fresh, Open, Chained, Capped
  <2> QED
    BY <2>5, <2>7, <2>8, <2>9 DEF Stacked
<1>6. CASE GiveUp(t)
  <2>1. UNCHANGED <<conv, held, overwritten, turns>> /\ Docs' = Docs /\ Told' = Told
    BY <1>6 DEF GiveUp, Docs, Told, InLog
  <2>2. tab'[t].at = "idle" /\ \A u \in Tabs : u # t => tab'[u] = tab[u]
    BY <1>0, <1>6 DEF GiveUp, Goto
  <2>3. InTurn(t)'
    BY <1>0, <2>1, <2>2 DEF InTurn, Numbered, Fresh, Open, Chained, Capped
  <2>4. \A u \in Tabs : u # t => InTurn(u)'
    BY <2>1, <2>2, TurnStands DEF Stacked
  <2>5. Orderly' /\ Grounded'
    BY <2>1 DEF Stacked, Orderly, Ranked, OnTop, Grounded
  <2> QED
    BY <2>3, <2>4, <2>5 DEF Stacked
<1> QED
  BY <1>1, <1>2, <1>4, <1>5, <1>6 DEF Page

\* Only the tabs, the flush and a crash touch the conversation.
LEMMA LogMoves ==
    ASSUME [Next]_vars
    PROVE  UNCHANGED logVars \/ Crash \/ Flush \/ FlushFails \/ \E t \in Tabs : Page(t)
<1>1. CASE UNCHANGED vars
  BY <1>1 DEF vars
<1>2. CASE Register \/ PostEnd \/ TimeUp
  BY <1>2 DEF Register, PostEnd, TimeUp
<1>3. ASSUME NEW s \in Sockets,
             Accept(s) \/ Serve(s) \/ BrowserAudio(s) \/ Speak(s) \/ Leave(s) \/ Hangup(s)
      PROVE  UNCHANGED logVars
  <2>1. CASE Accept(s) \/ Dial(s) \/ DialFails(s) \/ Close(s) \/ Leave(s) \/ Hangup(s)
    BY <2>1 DEF Accept, Dial, DialFails, Close, Leave, Hangup
  <2>2. CASE BrowserGone(s) \/ UpstreamGone(s) \/ BrowserAudio(s) \/ UpstreamChatter(s)
    BY <2>2 DEF BrowserGone, UpstreamGone, BrowserAudio, UpstreamChatter
  <2>3. CASE Transcript(s) \/ ToolCall(s)
    BY <2>3 DEF Transcript, ToolCall
  <2>4. ASSUME NEW p \in Pumps, Loop(s, p) \/ TimeOut(s, p) PROVE UNCHANGED logVars
    BY <2>4 DEF Loop, TimeOut
  <2> QED
    BY <1>3, <2>1, <2>2, <2>3, <2>4 DEF Serve, Speak
<1> QED
  BY <1>1, <1>2, <1>3 DEF Next

LEMMA StackedInit == Init => Stacked
<1> SUFFICES ASSUME Init PROVE Stacked
  OBVIOUS
<1>1. /\ Docs = {conv} /\ conv.revision = 1 /\ Len(conv.messages) = 0 /\ Told = {}
      /\ \A t \in Tabs : tab[t].at = "idle"
  BY DEF Init, LogInit, Docs, Told, InLog, ToSet
<1>2. Orderly
  BY <1>1 DEF Orderly, Ranked, OnTop
<1>3. Grounded /\ \A t \in Tabs : InTurn(t)
  BY <1>1 DEF Grounded, InTurn, Numbered, Fresh, Open, Chained, Capped
<1> QED
  BY <1>2, <1>3 DEF Stacked

LEMMA StackedStep ==
    ASSUME TypeInv, Stacked, [Next]_vars
    PROVE  Stacked'
<1>1. CASE UNCHANGED logVars \/ Crash
  <2>1. /\ UNCHANGED <<conv, overwritten, tab, turns>>
        /\ held' = held \/ held' = [held EXCEPT ![Sidecar] = {}]
    BY <1>1 DEF logVars, Crash
  <2>2. \A w \in Writers : held'[w] \subseteq held[w]
    BY <2>1 DEF TypeInv, TypeOK, LogTypeOK
  <2>3. Docs' \subseteq Docs /\ Told' = Told
    BY <2>1, <2>2 DEF Docs, Told, InLog
  <2>4. \A t \in Tabs : InTurn(t)'
    BY <2>1, <2>2, <2>3, TurnStands DEF Stacked, Writers
  <2>5. Orderly' /\ Grounded'
    BY <2>3 DEF Stacked, Orderly, Ranked, OnTop, Grounded
  <2> QED
    BY <2>4, <2>5 DEF Stacked
<1>2. CASE Flush \/ FlushFails
  BY <1>2, SidecarStacks DEF TypeInv
<1>3. ASSUME NEW t \in Tabs, Page(t) PROVE Stacked'
  BY <1>3, PageStacks
<1> QED
  BY <1>1, <1>2, <1>3, LogMoves

\* A question under its answer, when nothing that was stored is gone.
LEMMA StackedAnswers ==
    ASSUME TypeInv, Stacked
    PROVE  AnswersFollowQuestions
<1> SUFFICES ASSUME Intact, NEW i \in 1..Len(conv.messages), conv.messages[i].kind = "answer"
             PROVE  i > 1 /\ conv.messages[i - 1] = QuestionOf(conv.messages[i])
  BY DEF AnswersFollowQuestions, QuestionOf
<1>1. Told = ToSet(conv.messages) /\ conv.messages[i] \in Told
  <2>1. conv.messages \in Seq(Messages)
    BY DEF TypeInv, TypeOK, LogTypeOK, Document
  <2> QED
    BY <2>1 DEF Told, InLog, Intact, ToSet
<1>2. QuestionOf(conv.messages[i]) \in ToSet(conv.messages)
  BY <1>1 DEF Stacked, Grounded
<1> QED
  BY <1>2 DEF Stacked, Orderly, Docs, OnTop

-----------------------------------------------------------------------------
(* What is said: where it is written and where it waits *)

VoicedIn(d) == {m \in ToSet(d.messages) : Voiced(m)}

\* A document that no question, answer or audit of a tab is missing from.
Complete(d) == \A m \in Told : Voiced(m) \/ m \in ToSet(d.messages)

\* Each entry once, and turns in the order they were said.
Tidy(d) == \A i, j \in 1..Len(d.messages) :
    i < j /\ Voiced(d.messages[i]) /\ Voiced(d.messages[j]) /\ d.messages[i].kind = d.messages[j].kind =>
        /\ d.messages[i] # d.messages[j]
        /\ d.messages[i].kind = "turn" => d.messages[i].n < d.messages[j].n

\* What is said in a complete document is said in the one that is stored, and in the one
\* the sidecar is about to replace.
Heard(d) == \A e \in {conv} \cup held[Sidecar] : VoicedIn(d) \subseteq VoicedIn(e)

\* Nor does the flush have it still to write.
Unheard(d) == \A f \in flush : f.at # "read" => VoicedIn(d) \cap ToSet(f.todo) \subseteq f.seen

WellSaid == \A d \in Docs : Complete(d) => Tidy(d) /\ Heard(d) /\ Unheard(d)

\* Turns come before later turns.
Ascending(s) == \A i, j \in 1..Len(s) : i < j /\ s[i].kind = "turn" /\ s[j].kind = "turn" => s[i].n < s[j].n

IsTurn(m) == Voiced(m) /\ m.kind = "turn"

\* The entries of a session document, none later than n.
Ordered(r, n) ==
    /\ \A i \in 1..Len(r.turns) : r.turns[i].kind = "turn"
    /\ \A i \in 1..Len(r.tools) : r.tools[i].kind \in {"tool", "again"}
    /\ Ascending(r.turns)
    /\ \A m \in ToSet(Entries(r)) : m.n <= n

RecordInOrder == Ordered(record, events)

\* What may be written: a turn that is on the record, and an audit that is unless
\* something failed.
Entered(m) == m.n <= events /\ (IsTurn(m) \/ faults = 0 => m \in OnRecord)

\* What a flush has to write may be written, and is later than what was ever written.
FlushInOrder == \A f \in flush :
    /\ (\A x \in ToSet(f.todo) : Entered(x)) /\ Ascending(f.todo)
    /\ f.at # "read" => Head(f.todo) \notin f.seen
    /\ f.at = "read" /\ f.limit = 1 => ToSet(f.todo) \cap Told = {}
    /\ \A m \in Told, x \in ToSet(f.todo) : IsTurn(m) /\ IsTurn(x) => m.n < x.n

SaidOnRecord == \A m \in Told : Voiced(m) => Entered(m)

\* Turns are flushed with the end of the session, and never again.
TurnsWait ==
    record.status # "ended" =>
        \A m \in Told \cup UNION {ToSet(f.todo) : f \in flush} : ~IsTurn(m)

\* A call whose first audit is being flushed has not been audited again.
Unrepeated == \A f \in flush : f.limit = 1 =>
    \A x, y \in ToSet(f.todo) : x = y /\ (x.kind = "tool" => Again(x) \notin Told)

Spoke == WellSaid /\ RecordInOrder /\ FlushInOrder /\ SaidOnRecord /\ TurnsWait

\* A flush that goes on does so with later entries, and never with one it has seen.
LEMMA FlushingOrder ==
    ASSUME NEW todo \in Seq(Spoken), Ascending(todo), NEW seen, NEW revision, NEW tries, NEW limit,
           NEW g \in Flushing(todo, seen, revision, tries, limit)
    PROVE  /\ g.at = "append" /\ g.seen = seen /\ g.todo # <<>> /\ g.todo \in Seq(Spoken)
           /\ ToSet(g.todo) \subseteq ToSet(todo) /\ Ascending(g.todo)
           /\ Head(g.todo) \notin seen
           /\ todo # <<>> /\ Head(todo) \in seen => ToSet(g.todo) \subseteq ToSet(Tail(todo))
<1> DEFINE new == {i \in 1..Len(todo) : todo[i] \notin seen}
<1>0. Len(todo) \in Nat /\ DOMAIN todo = 1..Len(todo)
  OBVIOUS
<1>1. Rest(todo, seen) # <<>> /\ g.at = "append" /\ g.todo = Rest(todo, seen) /\ g.seen = seen
  BY DEF Flushing
<1>2. new # {}
  BY <1>1 DEF Rest
<1>3. PICK i : i = CHOOSE k \in new : \A j \in new : k <= j
  OBVIOUS
<1>4. i \in new
  <2>1. new \subseteq Nat
    BY <1>0
  <2> HIDE DEF new
  <2>2. \E k \in new : \A j \in new : k <= j
    BY <1>2, <2>1, LeastNatural
  <2> QED
    BY <1>3, <2>2
<1>5. PICK r : r = SubSeq(todo, i, Len(todo))
  OBVIOUS
<1>6. g.todo = r
  BY <1>1, <1>2, <1>3, <1>5 DEF Rest
<1> HIDE DEF new
<1>7. i \in 1..Len(todo) /\ todo[i] \notin seen
  BY <1>4 DEF new
<1>8. /\ r \in Seq(Spoken) /\ Len(r) = Len(todo) - i + 1 /\ DOMAIN r = 1..Len(r) /\ Len(r) \in Nat
      /\ \A j \in 1..Len(r) : i + j - 1 \in 1..Len(todo) /\ r[j] = todo[i + j - 1]
  BY <1>0, <1>5, <1>7
<1>9. ToSet(r) \subseteq ToSet(todo) /\ Head(r) \notin seen
  <2>1. 1 \in 1..Len(r) /\ Head(r) = r[1] /\ i + 1 - 1 = i
    BY <1>0, <1>7, <1>8
  <2> QED
    BY <1>0, <1>7, <1>8, <2>1 DEF ToSet
<1>10. Ascending(r)
  <2> SUFFICES ASSUME NEW j \in 1..Len(r), NEW k \in 1..Len(r), j < k, r[j].kind = "turn", r[k].kind = "turn"
               PROVE  r[j].n < r[k].n
    BY DEF Ascending
  <2>1. i + j - 1 < i + k - 1
    BY <1>7, <1>8
  <2> QED
    BY <1>8, <2>1 DEF Ascending
<1>11. ASSUME todo # <<>>, Head(todo) \in seen PROVE ToSet(r) \subseteq ToSet(Tail(todo))
  <2>1. i # 1
    BY <1>0, <1>7, <1>11
  <2>2. /\ Len(Tail(todo)) = Len(todo) - 1 /\ DOMAIN Tail(todo) = 1..(Len(todo) - 1)
        /\ \A j \in 1..(Len(todo) - 1) : Tail(todo)[j] = todo[j + 1]
    BY <1>0, <1>11
  <2>3. ASSUME NEW j \in 1..Len(r) PROVE r[j] \in ToSet(Tail(todo))
    <3>1. PICK k \in 1..(Len(todo) - 1) : k + 1 = i + j - 1
      <4>1. i + j - 2 \in 1..(Len(todo) - 1) /\ (i + j - 2) + 1 = i + j - 1
        BY <1>0, <1>7, <1>8, <2>1
      <4> QED
        BY <4>1
    <3>2. r[j] = Tail(todo)[k]
      BY <1>8, <2>2, <3>1
    <3> QED
      BY <2>2, <3>2 DEF ToSet
  <2> QED
    BY <1>8, <2>3 DEF ToSet
<1>12. r # <<>>
  BY <1>7, <1>8
<1> QED
  BY <1>1, <1>6, <1>8, <1>9, <1>10, <1>11, <1>12

LEMMA AscendingTail ==
    ASSUME NEW todo \in Seq(Spoken), Ascending(todo), todo # <<>>
    PROVE  /\ Ascending(Tail(todo))
           /\ \A x \in ToSet(Tail(todo)) : IsTurn(Head(todo)) /\ IsTurn(x) => Head(todo).n < x.n
<1>1. /\ Len(todo) \in Nat /\ Len(todo) > 0 /\ Head(todo) = todo[1]
      /\ Len(Tail(todo)) = Len(todo) - 1 /\ DOMAIN Tail(todo) = 1..(Len(todo) - 1)
      /\ \A j \in 1..(Len(todo) - 1) : Tail(todo)[j] = todo[j + 1] /\ j + 1 \in 1..Len(todo)
  OBVIOUS
<1>2. Ascending(Tail(todo))
  <2> SUFFICES ASSUME NEW j \in 1..(Len(todo) - 1), NEW k \in 1..(Len(todo) - 1), j < k,
                      Tail(todo)[j].kind = "turn", Tail(todo)[k].kind = "turn"
               PROVE  Tail(todo)[j].n < Tail(todo)[k].n
    BY <1>1 DEF Ascending
  <2>1. j + 1 < k + 1
    BY <1>1
  <2> QED
    BY <1>1, <2>1 DEF Ascending
<1>3. ASSUME NEW j \in 1..(Len(todo) - 1), IsTurn(Head(todo)), IsTurn(Tail(todo)[j])
      PROVE  Head(todo).n < Tail(todo)[j].n
  <2>1. 1 < j + 1 /\ 1 \in 1..Len(todo)
    BY <1>1
  <2> QED
    BY <1>1, <1>3, <2>1 DEF Ascending, IsTurn
<1> QED
  BY <1>1, <1>2, <1>3 DEF ToSet

LEMMA GrowsTidily ==
    ASSUME NEW d \in Document, NEW m \in Messages, Tidy(d),
           Voiced(m) => m \notin ToSet(d.messages),
           IsTurn(m) => \A x \in ToSet(d.messages) : IsTurn(x) => x.n < m.n
    PROVE  Tidy(Grown(d, m))
<1>1. PICK e : e = Grown(d, m)
  OBVIOUS
<1>2. /\ Len(d.messages) \in Nat /\ DOMAIN d.messages = 1..Len(d.messages)
      /\ Len(e.messages) = Len(d.messages) + 1 /\ e.messages[Len(d.messages) + 1] = m
      /\ \A i \in 1..Len(d.messages) : e.messages[i] = d.messages[i] /\ d.messages[i] \in ToSet(d.messages)
  <2>1. d.messages \in Seq(Messages)
    BY DEF Document
  <2>2. DOMAIN d.messages = 1..Len(d.messages) /\ \A i \in 1..Len(d.messages) : d.messages[i] \in ToSet(d.messages)
    BY <2>1 DEF ToSet
  <2> QED
    BY <1>1, <2>2, GrownFacts
<1>3. SUFFICES ASSUME NEW i \in 1..Len(e.messages), NEW j \in 1..Len(e.messages), i < j,
                      Voiced(e.messages[i]), Voiced(e.messages[j]), e.messages[i].kind = e.messages[j].kind
               PROVE  /\ e.messages[i] # e.messages[j]
                      /\ e.messages[i].kind = "turn" => e.messages[i].n < e.messages[j].n
  BY <1>1 DEF Tidy
<1>4. i \in 1..Len(d.messages) /\ (j \in 1..Len(d.messages) \/ j = Len(d.messages) + 1)
  BY <1>2, <1>3
<1>5. CASE j \in 1..Len(d.messages)
  BY <1>2, <1>3, <1>4, <1>5 DEF Tidy
<1>6. CASE j = Len(d.messages) + 1
  BY <1>2, <1>3, <1>4, <1>6 DEF IsTurn
<1> QED
  BY <1>4, <1>5, <1>6

\* What is in a document with one message more.
LEMMA GrowsVoiced ==
    ASSUME NEW d \in Document, NEW m \in Messages
    PROVE  /\ ToSet(Grown(d, m).messages) = ToSet(d.messages) \cup {m}
           /\ VoicedIn(Grown(d, m)) = VoicedIn(d) \cup (IF Voiced(m) THEN {m} ELSE {})
<1>1. ToSet(Grown(d, m).messages) = ToSet(d.messages) \cup {m}
  BY GrownFacts
<1> QED
  BY <1>1 DEF VoicedIn

-----------------------------------------------------------------------------
(* The documents *)

DocsSay == \A d \in Docs : Complete(d) => Tidy(d) /\ Heard(d)

\* A step that writes nothing.
LEMMA DocsStand ==
    ASSUME DocsSay, UNCHANGED <<conv, overwritten>>, Docs' \subseteq Docs,
           held'[Sidecar] \subseteq held[Sidecar] \cup {conv}
    PROVE  /\ Told' = Told /\ DocsSay'
           /\ \A d \in Docs' : Complete(d)' => d \in Docs /\ Complete(d)
<1>1. Told' = Told
  BY DEF Told, InLog
<1>2. ASSUME NEW d \in Docs', Complete(d)' PROVE d \in Docs /\ Complete(d) /\ Tidy(d) /\ Heard(d)'
  <2>1. d \in Docs /\ Complete(d)
    BY <1>1, <1>2 DEF Complete
  <2> QED
    BY <2>1 DEF DocsSay, Heard
<1>3. \A d : Tidy(d) => Tidy(d)'
  BY DEF Tidy
<1> QED
  BY <1>1, <1>2, <1>3 DEF DocsSay

\* A tab writes a question, an answer or an audit: only what it has just written is
\* complete now, if anything is.
LEMMA DocsAnswer ==
    ASSUME TypeInv, DocsSay, NEW t \in Tabs, NEW m \in Messages, m.by = t, m \notin Told, Replace(t, m)
    PROVE  /\ DocsSay' /\ Told' = Told \cup {m}
           /\ \A d \in Docs' : Complete(d)' => \E c \in Docs : Complete(c) /\ VoicedIn(d) = VoicedIn(c)
<1>1. LogTypeOK /\ DocsAreTold /\ t \in Writers /\ Sidecar \in Writers /\ t # Sidecar /\ ~Voiced(m)
  BY WriterAssumption DEF TypeInv, TypeOK, Writers, Voiced
<1>2. PICK c \in held[t] :
          /\ c \in Document /\ conv' = Grown(c, m) /\ held' = [held EXCEPT ![t] = {}]
          /\ Told' = Told \cup {m}
  BY <1>1, Replaced DEF Grown
<1>3. c \in Docs /\ (\A d \in Docs' : d \in Docs \/ d = conv') /\ held'[Sidecar] = held[Sidecar]
  <2>1. held \in [Writers -> SUBSET Document]
    BY <1>1 DEF LogTypeOK
  <2>2. \A w \in Writers : held'[w] \subseteq held[w]
    BY <1>2, <2>1
  <2> QED
    BY <1>1, <1>2, <2>1, <2>2 DEF Docs
<1>4. ASSUME NEW d \in Docs', Complete(d)' PROVE d = conv' /\ Complete(c)
  <2>1. m \in ToSet(d.messages)
    BY <1>1, <1>2, <1>4 DEF Complete
  <2>2. d = conv'
    BY <1>1, <1>3, <2>1, DocFacts
  <2>3. ToSet(d.messages) = ToSet(c.messages) \cup {m}
    BY <1>2, <2>2, GrowsVoiced
  <2> QED
    BY <1>2, <1>4, <2>2, <2>3 DEF Complete
<1>5. VoicedIn(conv') = VoicedIn(c)
  BY <1>1, <1>2, GrowsVoiced
<1>6. ASSUME Complete(c) PROVE Tidy(conv') /\ \A e \in {conv'} \cup held'[Sidecar] : VoicedIn(conv') \subseteq VoicedIn(e)
  <2>1. Tidy(c) /\ Heard(c)
    BY <1>3, <1>6 DEF DocsSay
  <2>2. Tidy(conv')
    BY <1>1, <1>2, <2>1, GrowsTidily DEF IsTurn
  <2> QED
    BY <1>3, <1>5, <2>1, <2>2 DEF Heard
<1>7. DocsSay'
  BY <1>4, <1>6 DEF DocsSay, Heard, VoicedIn, Tidy, Voiced
<1> QED
  BY <1>2, <1>3, <1>4, <1>5, <1>7

\* The sidecar writes an entry nobody has heard, later than all turns.
LEMMA DocsVoice ==
    ASSUME TypeInv, DocsSay, NEW m \in Spoken, Replace(Sidecar, m),
           \A d \in Docs : Complete(d) => m \notin VoicedIn(d),
           \A x \in Told : IsTurn(x) /\ IsTurn(m) => x.n < m.n
    PROVE  /\ DocsSay' /\ Told' = Told \cup {m}
           /\ \A d \in Docs' : Complete(d)' =>
                  \E c \in Docs : Complete(c) /\ VoicedIn(d) \subseteq VoicedIn(c) \cup {m}
<1>1. LogTypeOK /\ DocsAreTold /\ Sidecar \in Writers /\ m \in Messages /\ Voiced(m)
  BY MessageTypes, MessageParts DEF TypeInv, TypeOK, Writers, Voiced
<1>2. PICK c \in held[Sidecar] :
          /\ c \in Document /\ conv' = Grown(c, m) /\ held' = [held EXCEPT ![Sidecar] = {}]
          /\ Told' = Told \cup {m}
  BY <1>1, Replaced DEF Grown
<1>3. c \in Docs /\ (\A d \in Docs' : d \in Docs \/ d = conv') /\ held'[Sidecar] = {}
  <2>1. held \in [Writers -> SUBSET Document]
    BY <1>1 DEF LogTypeOK
  <2>2. \A w \in Writers : held'[w] \subseteq held[w]
    BY <1>2, <2>1
  <2> QED
    BY <1>1, <1>2, <2>1, <2>2 DEF Docs
<1>4. /\ ToSet(conv'.messages) = ToSet(c.messages) \cup {m}
      /\ VoicedIn(conv') = VoicedIn(c) \cup {m}
  BY <1>1, <1>2, GrowsVoiced
<1>5. ASSUME NEW d \in Docs', Complete(d)'
      PROVE  \/ d \in Docs /\ Complete(d)
             \/ d = conv' /\ Complete(c)
  <2>1. CASE d \in Docs
    BY <1>2, <1>5, <2>1 DEF Complete
  <2>2. CASE d = conv'
    BY <1>1, <1>2, <1>4, <1>5, <2>2 DEF Complete
  <2> QED
    BY <1>3, <2>1, <2>2
<1>6. ASSUME NEW d \in Docs, Complete(d) PROVE Tidy(d) /\ VoicedIn(d) \subseteq VoicedIn(conv')
  BY <1>2, <1>4, <1>6 DEF DocsSay, Heard
<1>7. ASSUME Complete(c) PROVE Tidy(conv')
  <2>1. Tidy(c) /\ m \notin ToSet(c.messages)
    BY <1>1, <1>3, <1>7 DEF DocsSay, VoicedIn
  <2>2. ToSet(c.messages) \subseteq Told
    BY <1>1, <1>3, DocFacts
  <2> QED
    BY <1>1, <1>2, <2>1, <2>2, GrowsTidily
<1>8. ASSUME NEW d \in Docs', Complete(d)'
      PROVE  Tidy(d)' /\ Heard(d)' /\ \E b \in Docs : Complete(b) /\ VoicedIn(d) \subseteq VoicedIn(b) \cup {m}
  <2>1. Tidy(d) /\ VoicedIn(d) \subseteq VoicedIn(conv')
    BY <1>5, <1>6, <1>7, <1>8
  <2>2. Tidy(d)' /\ Heard(d)'
    BY <1>3, <2>1 DEF Tidy, Heard, VoicedIn, Voiced
  <2>3. \E b \in Docs : Complete(b) /\ VoicedIn(d) \subseteq VoicedIn(b) \cup {m}
    BY <1>3, <1>4, <1>5, <1>8
  <2> QED
    BY <2>2, <2>3
<1> QED
  BY <1>2, <1>8 DEF DocsSay

-----------------------------------------------------------------------------
(* The record and the flush *)

LEMMA RecordSet ==
    ASSUME TypeOK
    PROVE  /\ OnRecord = ToSet(record.turns) \cup ToSet(record.tools)
           /\ Entries(record) \in Seq(Spoken) /\ ToSet(Entries(record)) = OnRecord
           /\ record.turns \in Seq(Spoken) /\ record.tools \in Seq(Spoken)
           /\ OnRecord \subseteq Spoken
<1>1. record.turns \in Seq(Spoken) /\ record.tools \in Seq(Spoken)
  BY DEF TypeOK
<1>2. ToSet(record.turns) \subseteq Spoken /\ ToSet(record.tools) \subseteq Spoken
  BY <1>1 DEF ToSet
<1> QED
  BY <1>1, <1>2, ConcatSet DEF OnRecord, Entries

LEMMA RecordAscends == ASSUME TypeOK, RecordInOrder PROVE Ascending(Entries(record))
<1>1. record.turns \in Seq(Spoken) /\ record.tools \in Seq(Spoken)
  BY DEF TypeOK
<1>2. PICK a \in Seq(Spoken), b \in Seq(Spoken) : a = record.turns /\ b = record.tools
  BY <1>1
<1>3. PICK e : e = a \o b
  OBVIOUS
<1>4. /\ Len(a) \in Nat /\ Len(b) \in Nat /\ Len(e) = Len(a) + Len(b)
      /\ \A i \in 1..Len(a) : e[i] = a[i]
      /\ \A i \in 1..Len(b) : e[Len(a) + i] = b[i]
  BY <1>3
<1>5. ASSUME NEW i \in 1..Len(e), e[i].kind = "turn" PROVE i \in 1..Len(a)
  <2>1. CASE i > Len(a)
    <3>1. PICK j \in 1..Len(b) : i = Len(a) + j
      <4>1. i - Len(a) \in 1..Len(b) /\ i = Len(a) + (i - Len(a))
        BY <1>4, <2>1
      <4> QED
        BY <4>1
    <3>2. e[i].kind \in {"tool", "again"}
      BY <1>2, <1>4, <3>1 DEF RecordInOrder, Ordered
    <3> QED
      BY <1>5, <3>2
  <2> QED
    BY <1>4, <2>1
<1>6. Ascending(e)
  BY <1>2, <1>4, <1>5 DEF RecordInOrder, Ordered, Ascending
<1> QED
  BY <1>2, <1>3, <1>6 DEF Entries

\* A transcript is put on the record: the latest entry.
LEMMA Recorded ==
    ASSUME TypeOK, RecordInOrder, events' = events + 1,
           NEW m, m = Message(Sidecar, "turn", events'),
           record' = [record EXCEPT !.turns = Append(@, m)]
    PROVE  RecordInOrder' /\ OnRecord \subseteq OnRecord'
<1>0. /\ record.turns \in Seq(Spoken) /\ record.tools \in Seq(Spoken) /\ events \in Nat
      /\ record = [status |-> record.status, turns |-> record.turns, tools |-> record.tools]
  BY EventsAssumption DEF TypeOK
<1>1. m \in Spoken /\ m.kind = "turn" /\ m.n = events + 1
  BY <1>0, MessageTypes, MessageParts
<1>2. PICK a : a = Append(record.turns, m)
  OBVIOUS
<1>3. record'.turns = a /\ record'.tools = record.tools /\ a \in Seq(Spoken)
  BY <1>0, <1>1, <1>2
<1>4. OnRecord' = ToSet(a) \cup ToSet(record.tools)
  <2>1. PICK b \in Seq(Spoken) : b = record.tools
    BY <1>0
  <2>2. ToSet(a \o b) = ToSet(a) \cup ToSet(b)
    BY <1>3, ConcatSet
  <2> QED
    BY <1>3, <2>1, <2>2 DEF OnRecord, Entries
<1>5. OnRecord' = OnRecord \cup {m}
  <2>1. ToSet(a) = ToSet(record.turns) \cup {m}
    BY <1>0, <1>1, <1>2, AppendSet
  <2> QED
    BY <1>4, <2>1, RecordSet
<1>6. \A x \in OnRecord : x.n <= events /\ x.n \in Nat
  BY RecordSet DEF RecordInOrder, Ordered, Spoken, OnRecord
<1>7. \A i \in 1..Len(record.turns) : record.turns[i] \in OnRecord
  BY <1>0, RecordSet DEF ToSet
<1>8. /\ Len(a) = Len(record.turns) + 1 /\ Len(record.turns) \in Nat /\ a[Len(record.turns) + 1] = m
      /\ \A i \in 1..Len(record.turns) : a[i] = record.turns[i]
  BY <1>0, <1>2
<1>9. \A i \in 1..Len(a) : a[i].kind = "turn"
  BY <1>1, <1>8 DEF RecordInOrder, Ordered
<1>10. Ascending(a)
  <2>1. SUFFICES ASSUME NEW i \in 1..Len(a), NEW j \in 1..Len(a), i < j, a[i].kind = "turn", a[j].kind = "turn"
                 PROVE  a[i].n < a[j].n
    BY DEF Ascending
  <2>2. i \in 1..Len(record.turns) /\ (j \in 1..Len(record.turns) \/ j = Len(record.turns) + 1)
    BY <1>8, <2>1
  <2>3. CASE j \in 1..Len(record.turns)
    BY <1>8, <2>1, <2>2, <2>3 DEF RecordInOrder, Ordered, Ascending
  <2>4. CASE j = Len(record.turns) + 1
    BY <1>0, <1>1, <1>6, <1>7, <1>8, <2>2, <2>4
  <2> QED
    BY <2>2, <2>3, <2>4
<1>11. \A x \in OnRecord' : x.n <= events'
  BY <1>0, <1>1, <1>5, <1>6
<1> QED
  BY <1>3, <1>5, <1>9, <1>10, <1>11 DEF RecordInOrder, Ordered, OnRecord, Ascending

\* An audit is put on a session document.
LEMMA NotedInOrder ==
    ASSUME NEW r \in SessionRecord, NEW m \in Spoken, m.kind \in {"tool", "again"}, NEW n, Ordered(r, n), m.n <= n
    PROVE  Ordered(Noted(r, m), n) /\ ToSet(Entries(Noted(r, m))) = ToSet(Entries(r)) \cup {m}
<1>1. PICK q : q = Noted(r, m)
  OBVIOUS
<1>2. q.turns = r.turns /\ q.tools = Append(r.tools, m) /\ r.turns \in Seq(Spoken) /\ r.tools \in Seq(Spoken)
  BY <1>1, NotedTypes DEF SessionRecord
<1>3. PICK b : b = Append(r.tools, m)
  OBVIOUS
<1>4. b \in Seq(Spoken) /\ ToSet(b) = ToSet(r.tools) \cup {m}
  BY <1>2, <1>3, AppendSet
<1>5. /\ ToSet(Entries(q)) = ToSet(r.turns) \cup ToSet(b)
      /\ ToSet(Entries(r)) = ToSet(r.turns) \cup ToSet(r.tools)
  <2>1. PICK a \in Seq(Spoken), c \in Seq(Spoken) : a = r.turns /\ c = r.tools
    BY <1>2
  <2>2. ToSet(a \o b) = ToSet(a) \cup ToSet(b) /\ ToSet(a \o c) = ToSet(a) \cup ToSet(c)
    BY <1>4, ConcatSet
  <2> QED
    BY <1>2, <1>3, <2>1, <2>2 DEF Entries
<1>6. \A i \in 1..Len(b) : b[i].kind \in {"tool", "again"}
  <2>1. /\ Len(b) = Len(r.tools) + 1 /\ Len(r.tools) \in Nat /\ b[Len(r.tools) + 1] = m
        /\ \A i \in 1..Len(r.tools) : b[i] = r.tools[i]
    BY <1>2, <1>3
  <2> QED
    BY <2>1 DEF Ordered
<1> QED
  BY <1>1, <1>2, <1>3, <1>4, <1>5, <1>6 DEF Ordered

LEMMA OrderedLater ==
    ASSUME NEW r \in SessionRecord, NEW n \in Nat, NEW k \in Nat, n <= k, Ordered(r, n)
    PROVE  Ordered(r, k)
<1>1. ToSet(Entries(r)) \subseteq Spoken
  <2>1. Entries(r) \in Seq(Spoken)
    BY ConcatSet DEF SessionRecord, Entries
  <2> QED
    BY <2>1 DEF ToSet
<1>2. \A m \in ToSet(Entries(r)) : m.n \in Nat /\ m.n <= n
  BY <1>1 DEF Spoken, Ordered
<1>3. \A m \in ToSet(Entries(r)) : m.n <= k
  BY <1>2
<1> QED
  BY <1>3 DEF Ordered

\* A call is audited, or audited again: the record grows by its entries.
LEMMA AuditedInOrder ==
    ASSUME TypeInv, NEW n \in Nat, Ordered(record, n),
           NEW m \in Spoken, m.kind = "tool", m.n <= n, NEW r \in {record, Noted(record, m)},
           record' \in {r, Noted(r, Again(m))}
    PROVE  Ordered(record', n) /\ OnRecord \subseteq ToSet(Entries(record'))
<1>1. record \in SessionRecord /\ OnRecord = ToSet(Entries(record))
  BY DEF TypeInv, TypeOK, SessionRecord, OnRecord
<1>2. PICK k \in Spoken : k = Again(m) /\ k.kind = "again" /\ k.n = m.n
  BY MessageTypes
<1>3. /\ Noted(record, m) \in SessionRecord /\ Ordered(Noted(record, m), n)
      /\ OnRecord \subseteq ToSet(Entries(Noted(record, m)))
  BY <1>1, NotedTypes, NotedInOrder
<1>4. r \in SessionRecord /\ Ordered(r, n) /\ OnRecord \subseteq ToSet(Entries(r))
  BY <1>1, <1>3
<1>5. Ordered(Noted(r, k), n) /\ ToSet(Entries(Noted(r, k))) = ToSet(Entries(r)) \cup {k}
  BY <1>2, <1>4, NotedInOrder
<1> QED
  BY <1>2, <1>4, <1>5

\* What may be written may be written later.
Lasting == \A m \in Spoken : Entered(m) => Entered(m)'

LEMMA EntriesLast ==
    ASSUME TypeInv, events' \in Nat, events <= events', OnRecord \subseteq OnRecord', faults' = 0 => faults = 0
    PROVE  Lasting
<1>1. events \in Nat /\ \A m \in Spoken : m.n \in Nat
  BY EventsAssumption DEF TypeInv, TypeOK, Spoken
<1>2. ASSUME NEW m \in Spoken, Entered(m) PROVE Entered(m)'
  <2>1. m.n <= events'
    BY <1>1, <1>2 DEF Entered
  <2>2. (IsTurn(m) \/ faults = 0) => m \in OnRecord
    BY <1>2 DEF Entered
  <2> QED
    BY <2>1, <2>2 DEF Entered, IsTurn, Voiced
<1> QED
  BY <1>2 DEF Lasting

\* Nothing happens to the record.
LEMMA RecordStays ==
    ASSUME TypeInv, RecordInOrder, UNCHANGED <<record, events>>, faults' = 0 => faults = 0
    PROVE  RecordInOrder' /\ Lasting /\ record'.status = record.status
<1>1. RecordInOrder' /\ OnRecord' = OnRecord
  BY DEF RecordInOrder, Ordered, OnRecord, Entries, Ascending
<1>2. events \in Nat /\ events' = events /\ events <= events
  BY EventsAssumption DEF TypeInv, TypeOK
<1> QED
  BY <1>1, <1>2, EntriesLast

\* What a flush that goes on has still to write.
LEMMA FlushGoesOn ==
    ASSUME TypeInv, NEW todo \in Seq(Spoken), NEW seen, NEW revision, NEW tries, NEW limit,
           flush' = Flushing(todo, seen, revision, tries, limit),
           Ascending(todo), \A x \in ToSet(todo) : Entered(x)', FlushIsOne',
           \A m \in Told', x \in ToSet(todo) :
               IsTurn(m) /\ IsTurn(x) => m.n < x.n \/ (todo # <<>> /\ Head(todo) \in seen /\ x \notin ToSet(Tail(todo))),
           \A d \in Docs' : Complete(d)' => VoicedIn(d) \cap ToSet(todo) \subseteq seen
    PROVE  /\ FlushInOrder'
           /\ \A d \in Docs' : Complete(d)' => Unheard(d)'
           /\ UNION {ToSet(f.todo) : f \in flush'} \subseteq ToSet(todo)
<1>1. ASSUME NEW g \in flush'
      PROVE  /\ g.at = "append" /\ g.seen = seen /\ ToSet(g.todo) \subseteq ToSet(todo) /\ Ascending(g.todo)
             /\ Head(g.todo) \notin seen
             /\ todo # <<>> /\ Head(todo) \in seen => ToSet(g.todo) \subseteq ToSet(Tail(todo))
  BY <1>1, FlushingOrder
<1>2. FlushInOrder'
  <2> SUFFICES ASSUME NEW g \in flush'
               PROVE  /\ (\A x \in ToSet(g.todo) : Entered(x)') /\ Ascending(g.todo)
                      /\ g.at # "read" /\ Head(g.todo) \notin g.seen
                      /\ \A m \in Told', x \in ToSet(g.todo) : IsTurn(m) /\ IsTurn(x) => m.n < x.n
    BY DEF FlushInOrder, Ascending, IsTurn, Voiced
  <2> QED
    BY <1>1
<1>3. \A d \in Docs' : Complete(d)' => Unheard(d)'
  BY <1>1 DEF Unheard, VoicedIn, Voiced
<1> QED
  BY <1>1, <1>2, <1>3

-----------------------------------------------------------------------------
(* What is said is said once, and in order *)

\* What a step may have to do with the conversation, the record and the flush.
LEMMA SayMoves ==
    ASSUME [Next]_vars
    PROVE  \/ UNCHANGED <<logVars, record, flush, events>>
           \/ Idle /\ EndOrFail /\ UNCHANGED <<logVars, events>>
           \/ Register \/ (\E s \in Sockets : Transcript(s) \/ ToolCall(s))
           \/ Flush \/ FlushFails \/ Crash
           \/ \E t \in Tabs : Page(t) /\ UNCHANGED <<record, flush, events>>
<1>1. CASE UNCHANGED vars
  BY <1>1 DEF vars, sessionVars
<1>2. ASSUME NEW t \in Tabs, Page(t) /\ UNCHANGED <<bridgeVars, sessionVars, late, events, faults>>
      PROVE  Page(t) /\ UNCHANGED <<record, flush, events>>
  BY <1>2 DEF sessionVars
<1>3. CASE PostEnd \/ TimeUp
  BY <1>3 DEF PostEnd, TimeUp, sessionVars
<1>4. ASSUME NEW s \in Sockets,
             Accept(s) \/ Serve(s) \/ BrowserAudio(s) \/ Speak(s) \/ Leave(s) \/ Hangup(s)
      PROVE  \/ UNCHANGED <<logVars, record, flush, events>>
             \/ Idle /\ EndOrFail /\ UNCHANGED <<logVars, events>>
             \/ Transcript(s) \/ ToolCall(s)
  <2>1. CASE Accept(s) \/ DialFails(s) \/ Close(s)
    BY <2>1 DEF Accept, DialFails, Close, sessionVars
  <2>2. CASE Dial(s) \/ BrowserGone(s) \/ UpstreamGone(s) \/ BrowserAudio(s) \/ UpstreamChatter(s)
    BY <2>2 DEF Dial, BrowserGone, UpstreamGone, BrowserAudio, UpstreamChatter, sessionVars
  <2>3. CASE Leave(s) \/ Hangup(s)
    BY <2>3 DEF Leave, Hangup, sessionVars
  <2>4. ASSUME NEW p \in Pumps, Loop(s, p) PROVE UNCHANGED <<logVars, record, flush, events>>
    BY <2>4 DEF Loop, sessionVars
  <2>5. ASSUME NEW p \in Pumps, TimeOut(s, p)
        PROVE  \/ UNCHANGED <<logVars, record, flush, events>>
               \/ Idle /\ EndOrFail /\ UNCHANGED <<logVars, events>>
    BY <2>5 DEF TimeOut, EndOrFail, sessionVars
  <2> QED
    BY <1>4, <2>1, <2>2, <2>3, <2>4, <2>5 DEF Serve, Speak
<1> QED
  BY <1>1, <1>2, <1>3, <1>4 DEF Next

LEMMA WaitingTypes == ASSUME TypeInv PROVE \A f \in flush : f.todo \in Seq(Spoken) /\ ToSet(f.todo) \subseteq Spoken
  BY DEF TypeInv, TypeOK, Flight, ToSet

\* What was said may still be written, and what is said now.
LEMMA SaidLasts ==
    ASSUME TypeInv, SaidOnRecord, Lasting, \A m \in Told' : m \in Told \/ ~Voiced(m) \/ Entered(m)'
    PROVE  SaidOnRecord'
<1>1. \A m \in Told : Voiced(m) => m \in Spoken
  BY DocFacts, MessageTypes DEF TypeInv, TypeOK, Voiced
<1>2. \A m \in Told : Voiced(m) => Entered(m)'
  BY <1>1 DEF SaidOnRecord, Lasting
<1> QED
  BY <1>2 DEF SaidOnRecord, Voiced

\* A step of the session that leaves the conversation alone.
LEMMA SpokeStands ==
    ASSUME TypeInv, Spoke, UNCHANGED <<conv, overwritten>>, Docs' \subseteq Docs,
           held'[Sidecar] \subseteq held[Sidecar] \cup {conv},
           \A f \in flush' : f \in flush \/ f.at = "read",
           RecordInOrder', Lasting,
           \A f \in flush' : f \in flush \/
               /\ (\A x \in ToSet(f.todo) : Entered(x)') /\ Ascending(f.todo)
               /\ f.limit = 1 => ToSet(f.todo) \cap Told = {}
               /\ \A m \in Told, x \in ToSet(f.todo) : IsTurn(m) /\ IsTurn(x) => m.n < x.n,
           record'.status # "ended" =>
               /\ record.status # "ended"
               /\ \A f \in flush' : f \in flush \/ \A m \in ToSet(f.todo) : ~IsTurn(m)
    PROVE  Spoke'
<1>1. /\ Told' = Told /\ DocsSay'
      /\ \A d \in Docs' : Complete(d)' => d \in Docs /\ Complete(d)
  BY DocsStand DEF Spoke, WellSaid, DocsSay
<1>2. WellSaid'
  <2>1. \A d \in Docs' : Complete(d)' => Unheard(d)'
    BY <1>1 DEF Spoke, WellSaid, Unheard, VoicedIn, Voiced
  <2> QED
    BY <1>1, <2>1 DEF WellSaid, DocsSay
<1>3. FlushInOrder'
  <2> SUFFICES ASSUME NEW f \in flush'
               PROVE  /\ (\A x \in ToSet(f.todo) : Entered(x)') /\ Ascending(f.todo)
                      /\ f.at # "read" => Head(f.todo) \notin f.seen
                      /\ f.at = "read" /\ f.limit = 1 => ToSet(f.todo) \cap Told = {}
                      /\ \A m \in Told, x \in ToSet(f.todo) : IsTurn(m) /\ IsTurn(x) => m.n < x.n
    BY <1>1 DEF FlushInOrder, Ascending, IsTurn, Voiced
  <2>1. CASE f \in flush
    <3>1. ToSet(f.todo) \subseteq Spoken
      BY <2>1, WaitingTypes
    <3>2. \A x \in ToSet(f.todo) : Entered(x)'
      BY <2>1, <3>1 DEF Spoke, FlushInOrder, Lasting
    <3> QED
      BY <2>1, <3>2 DEF Spoke, FlushInOrder
  <2>2. CASE f \notin flush
    BY <2>2
  <2> QED
    BY <2>1, <2>2
<1>4. SaidOnRecord'
  BY <1>1, SaidLasts DEF Spoke
<1>5. TurnsWait'
  BY <1>1 DEF Spoke, TurnsWait, IsTurn, Voiced
<1> QED
  BY <1>2, <1>3, <1>4, <1>5 DEF Spoke

\* A step that is nothing to the record and the flush, and writes nothing.
LEMMA SpokeStays ==
    ASSUME TypeInv, Spoke, UNCHANGED <<conv, overwritten, record, flush, events>>, Docs' \subseteq Docs,
           held'[Sidecar] \subseteq held[Sidecar] \cup {conv}, faults' = 0 => faults = 0
    PROVE  Spoke'
<1>1. RecordInOrder' /\ Lasting
  BY RecordStays DEF Spoke
<1> QED
  BY <1>1, SpokeStands

\* A tab has written m.
LEMMA SpokeAnswer ==
    ASSUME TypeInv, Spoke, NEW t \in Tabs, NEW m \in Messages, m.by = t, m \notin Told, Replace(t, m),
           UNCHANGED <<record, flush, events>>, faults' = 0 => faults = 0
    PROVE  Spoke'
<1>1. /\ DocsSay' /\ Told' = Told \cup {m} /\ ~Voiced(m)
      /\ \A d \in Docs' : Complete(d)' => \E c \in Docs : Complete(c) /\ VoicedIn(d) = VoicedIn(c)
  BY DocsAnswer, WriterAssumption DEF Spoke, WellSaid, DocsSay, Voiced
<1>2. RecordInOrder' /\ Lasting
  BY RecordStays DEF Spoke
<1>3. WellSaid'
  <2>1. ASSUME NEW d \in Docs', Complete(d)' PROVE Unheard(d)'
    <3>1. PICK c \in Docs : Complete(c) /\ VoicedIn(d) = VoicedIn(c)
      BY <1>1, <2>1
    <3> QED
      BY <3>1 DEF Spoke, WellSaid, Unheard, VoicedIn, Voiced
  <2> QED
    BY <1>1, <2>1 DEF WellSaid, DocsSay
<1>4. FlushInOrder'
  <2> SUFFICES ASSUME NEW f \in flush
               PROVE  /\ (\A x \in ToSet(f.todo) : Entered(x)') /\ Ascending(f.todo)
                      /\ f.at # "read" => Head(f.todo) \notin f.seen
                      /\ f.at = "read" /\ f.limit = 1 => ToSet(f.todo) \cap (Told \cup {m}) = {}
                      /\ \A x \in Told \cup {m}, y \in ToSet(f.todo) : IsTurn(x) /\ IsTurn(y) => x.n < y.n
    BY <1>1 DEF FlushInOrder, Ascending, IsTurn, Voiced
  <2>1. ToSet(f.todo) \subseteq Spoken
    BY WaitingTypes
  <2>2. m \notin Spoken /\ ~IsTurn(m)
    BY <1>1, MessageParts DEF Voiced, IsTurn
  <2>3. \A x \in ToSet(f.todo) : Entered(x)'
    BY <1>2, <2>1 DEF Spoke, FlushInOrder, Lasting
  <2> QED
    BY <2>1, <2>2, <2>3 DEF Spoke, FlushInOrder
<1>5. SaidOnRecord'
  BY <1>1, <1>2, SaidLasts DEF Spoke
<1>6. TurnsWait'
  BY <1>1 DEF Spoke, TurnsWait, IsTurn, Voiced
<1> QED
  BY <1>2, <1>3, <1>4, <1>5, <1>6 DEF Spoke

\* A page tab takes its turn.
LEMMA SpokePage ==
    ASSUME TypeInv, Stacked, Spoke, NEW t \in Tabs, Page(t), UNCHANGED <<record, flush, events>>,
           faults' = 0 => faults = 0
    PROVE  Spoke'
<1>0. /\ t \in Writers /\ t # Sidecar /\ Sidecar \in Writers /\ InTurn(t) /\ turns[t] \in Nat
      /\ held \in [Writers -> SUBSET Document]
  BY WriterAssumption DEF TypeInv, TypeOK, LogTypeOK, Writers, Stacked
<1>1. CASE (\E k \in {"turn", "audit"} : Begin(t, k)) \/ GiveUp(t)
  <2>1. UNCHANGED <<conv, held, overwritten>> /\ Docs' = Docs
    BY <1>1 DEF Begin, GiveUp, Docs
  <2> QED
    BY <2>1, SpokeStays
<1>2. CASE CheckQuestion(t) \/ CheckAnswer(t)
  <2>1. UNCHANGED <<conv, overwritten>> /\ held' = [held EXCEPT ![t] = {conv}]
    BY <1>2 DEF CheckQuestion, CheckAnswer, Check
  <2>2. held'[Sidecar] = held[Sidecar] /\ \A w \in Writers : held'[w] \subseteq held[w] \/ held'[w] = {conv}
    BY <1>0, <2>1
  <2>3. Docs' \subseteq Docs
    BY <2>1, <2>2 DEF Docs
  <2> QED
    BY <2>1, <2>2, <2>3, SpokeStays
<1>3. CASE WriteQuestion(t)
  <2>1. PICK m : m = Message(t, IF tab[t].kind = "turn" THEN "question" ELSE "audit", turns[t])
    OBVIOUS
  <2>2. m \in Messages /\ m.by = t /\ m.n = turns[t]
    BY <1>0, <2>1, MessageTypes, MessageParts
  <2>3. tab[t].at = "asking" /\ Replace(t, m)
    BY <1>3, <2>1 DEF WriteQuestion
  <2>4. m \notin Told
    BY <1>0, <2>2, <2>3 DEF InTurn, Fresh
  <2> QED
    BY <2>2, <2>3, <2>4, SpokeAnswer
<1>4. CASE WriteAnswer(t)
  <2>1. Answered(t) \in Messages /\ Answered(t).by = t
    BY <1>0, MessageTypes, MessageParts DEF Answered
  <2>2. tab[t].at = "replying" /\ Replace(t, Answered(t))
    BY <1>4 DEF WriteAnswer, Answered
  <2>3. Answered(t) \notin Told
    BY <1>0, <2>2 DEF InTurn, Open
  <2> QED
    BY <2>1, <2>2, <2>3, SpokeAnswer
<1> QED
  BY <1>1, <1>2, <1>3, <1>4 DEF Page

\* The flush has looked into the conversation, and goes on with part of what it had.
LEMMA SpokeLooks ==
    ASSUME TypeInv, FlushIsOne', Spoke, UNCHANGED <<conv, held, overwritten, record, events>>,
           NEW f \in flush, NEW todo \in Seq(Spoken), Ascending(todo), ToSet(todo) \subseteq ToSet(f.todo),
           NEW seen, NEW revision, NEW tries, NEW limit, flush' = Flushing(todo, seen, revision, tries, limit),
           \A d \in Docs : Complete(d) => VoicedIn(d) \cap ToSet(todo) \subseteq seen,
           faults' = 0 => faults = 0
    PROVE  Spoke'
<1>1. Docs' = Docs /\ RecordInOrder' /\ Lasting
  BY RecordStays DEF Docs, Spoke
<1>2. /\ Told' = Told /\ DocsSay'
      /\ \A d \in Docs' : Complete(d)' => d \in Docs /\ Complete(d)
  BY <1>1, DocsStand DEF Spoke, WellSaid, DocsSay
<1>3. /\ \A x \in ToSet(todo) : Entered(x)'
      /\ \A m \in Told', x \in ToSet(todo) : IsTurn(m) /\ IsTurn(x) => m.n < x.n
  <2>1. ToSet(f.todo) \subseteq Spoken
    BY WaitingTypes
  <2> QED
    BY <1>1, <1>2, <2>1 DEF Spoke, FlushInOrder, Lasting
<1>4. \A d \in Docs' : Complete(d)' => VoicedIn(d) \cap ToSet(todo) \subseteq seen
  BY <1>2
<1>5. /\ FlushInOrder'
      /\ \A d \in Docs' : Complete(d)' => Unheard(d)'
      /\ UNION {ToSet(g.todo) : g \in flush'} \subseteq ToSet(todo)
  BY <1>3, <1>4, FlushGoesOn
<1>6. WellSaid'
  BY <1>2, <1>5 DEF WellSaid, DocsSay
<1>7. SaidOnRecord'
  BY <1>1, <1>2, SaidLasts DEF Spoke
<1>8. TurnsWait'
  BY <1>2, <1>5 DEF Spoke, TurnsWait, IsTurn, Voiced
<1> QED
  BY <1>1, <1>5, <1>6, <1>7, <1>8 DEF Spoke

\* What a complete document says is in the conversation.
LEMMA HeardIsSeen == ASSUME Spoke, NEW d \in Docs, Complete(d) PROVE VoicedIn(d) \subseteq InVoice
<1>1. VoicedIn(conv) = InVoice
  BY DEF VoicedIn, InVoice, InLog
<1> QED
  BY <1>1 DEF Spoke, WellSaid, Heard

\* The flush writes its next entry, and goes on, ends, or gives way to the flush of a
\* call that is audited again.
LEMMA SpokeWrites ==
    ASSUME TypeInv, FlushIsOne', Spoke, RecordInOrder', Lasting, record'.status = record.status,
           NEW f \in flush, f.at = "write", Replace(Sidecar, Head(f.todo)),
           \/ flush' = {}
           \/ flush' = Flushing(f.todo, f.seen \cup {Head(f.todo)}, conv'.revision, 0, f.limit)
           \/ \E k \in Spoken : /\ StartFlush(<<k>>, 1) /\ ~IsTurn(k) /\ Entered(k)'
                               /\ k \notin Told \cup {Head(f.todo)}
    PROVE  Spoke'
<1>1. f.todo \in Seq(Spoken) /\ f.todo # <<>> /\ ToSet(f.todo) \subseteq Spoken
  BY WaitingTypes DEF TypeInv, FlushKnows
<1>2. PICK m \in Spoken : m = Head(f.todo) /\ m \in ToSet(f.todo) /\ m \notin f.seen
  BY <1>1, HeadTail DEF Spoke, FlushInOrder
<1>3. \A d \in Docs : Complete(d) => m \notin VoicedIn(d) /\ VoicedIn(d) \cap ToSet(f.todo) \subseteq f.seen
  BY <1>2 DEF Spoke, WellSaid, Unheard
<1>4. \A x \in Told, y \in ToSet(f.todo) : IsTurn(x) /\ IsTurn(y) => x.n < y.n
  BY DEF Spoke, FlushInOrder
<1>5. /\ DocsSay' /\ Told' = Told \cup {m}
      /\ \A d \in Docs' : Complete(d)' =>
             \E c \in Docs : Complete(c) /\ VoicedIn(d) \subseteq VoicedIn(c) \cup {m}
  <2>1. DocsSay
    BY DEF Spoke, WellSaid, DocsSay
  <2> QED
    BY <1>2, <1>3, <1>4, <2>1, DocsVoice
<1>6. \A x \in ToSet(f.todo) : Entered(x)'
  BY <1>1 DEF Spoke, FlushInOrder, Lasting
<1>7. /\ FlushInOrder'
      /\ \A d \in Docs' : Complete(d)' => Unheard(d)'
      /\ \A x \in UNION {ToSet(g.todo) : g \in flush'} : x \in ToSet(f.todo) \/ ~IsTurn(x)
  <2>1. CASE flush' = {}
    BY <2>1 DEF FlushInOrder, Unheard
  <2>2. CASE flush' = Flushing(f.todo, f.seen \cup {m}, conv'.revision, 0, f.limit)
    <3>1. Ascending(f.todo)
      BY DEF Spoke, FlushInOrder
    <3>2. \A x \in Told', y \in ToSet(f.todo) :
              IsTurn(x) /\ IsTurn(y) =>
                  \/ x.n < y.n
                  \/ f.todo # <<>> /\ Head(f.todo) \in f.seen \cup {m} /\ y \notin ToSet(Tail(f.todo))
      BY <1>1, <1>2, <1>4, <1>5, <3>1, AscendingTail
    <3>3. \A d \in Docs' : Complete(d)' => VoicedIn(d) \cap ToSet(f.todo) \subseteq f.seen \cup {m}
      BY <1>3, <1>5
    <3>4. /\ FlushInOrder'
          /\ \A d \in Docs' : Complete(d)' => Unheard(d)'
          /\ UNION {ToSet(g.todo) : g \in flush'} \subseteq ToSet(f.todo)
      BY <1>1, <1>6, <2>2, <3>1, <3>2, <3>3, FlushGoesOn
    <3> QED
      BY <3>4
  <2>3. ASSUME NEW k \in Spoken, StartFlush(<<k>>, 1), ~IsTurn(k), Entered(k)', k \notin Told \cup {m}
        PROVE  /\ FlushInOrder'
               /\ \A d \in Docs' : Complete(d)' => Unheard(d)'
               /\ \A x \in UNION {ToSet(g.todo) : g \in flush'} : x \in ToSet(f.todo) \/ ~IsTurn(x)
    <3>1. \A g \in flush' : g.at = "read" /\ g.todo = <<k>>
      BY <2>3 DEF StartFlush
    <3>2. ToSet(<<k>>) = {k} /\ Ascending(<<k>>)
      BY DEF Ascending, ToSet
    <3>3. \A g \in flush' : /\ (\A x \in ToSet(g.todo) : Entered(x)') /\ Ascending(g.todo)
                            /\ ToSet(g.todo) \cap Told' = {} /\ \A x \in ToSet(g.todo) : ~IsTurn(x)
      BY <1>5, <2>3, <3>1, <3>2
    <3>4. FlushInOrder'
      BY <3>1, <3>3 DEF FlushInOrder, Ascending, IsTurn, Voiced
    <3>5. \A d \in Docs' : Unheard(d)'
      BY <3>1 DEF Unheard
    <3> QED
      BY <3>3, <3>4, <3>5
  <2> QED
    BY <1>2, <2>1, <2>2, <2>3
<1>8. WellSaid'
  BY <1>5, <1>7 DEF WellSaid, DocsSay
<1>9. SaidOnRecord'
  BY <1>2, <1>5, <1>6, SaidLasts DEF Spoke
<1>10. TurnsWait'
  BY <1>2, <1>5, <1>7 DEF Spoke, TurnsWait, IsTurn, Voiced
<1> QED
  BY <1>7, <1>8, <1>9, <1>10 DEF Spoke

\* The flush is gone, with the document it was about to replace.
LEMMA SpokeForgets ==
    ASSUME TypeInv, Spoke, UNCHANGED <<conv, overwritten, record, events>>, flush' = {},
           held' = [held EXCEPT ![Sidecar] = {}], faults' = 0 => faults = 0
    PROVE  Spoke'
<1>1. RecordInOrder' /\ Lasting
  BY RecordStays DEF Spoke
<1>2. \A w \in Writers : held'[w] \subseteq held[w]
  BY DEF TypeInv, TypeOK, LogTypeOK
<1>3. Docs' \subseteq Docs /\ held'[Sidecar] \subseteq held[Sidecar]
  BY <1>2 DEF Docs, Writers
<1> QED
  BY <1>1, <1>3, SpokeStands

\* The entry of the second audit: new, and no turn.
LEMMA AgainIsNew ==
    ASSUME TypeInv, Spoke, Unrepeated, NEW f \in flush, f.limit = 1, NEW m \in ToSet(f.todo), m.kind = "tool"
    PROVE  /\ m \in Spoken /\ m.n <= events /\ Again(m) \in Spoken /\ Again(m).n = m.n
           /\ ~IsTurn(Again(m)) /\ Again(m) \notin Told \cup {m}
<1>1. m \in Spoken
  BY WaitingTypes
<1>2. Again(m) \in Spoken /\ Again(m).kind = "again" /\ Again(m).n = m.n
  BY <1>1, MessageTypes
<1>3. m.n <= events
  BY DEF Spoke, FlushInOrder, Entered
<1> QED
  BY <1>1, <1>2, <1>3 DEF Unrepeated, IsTurn

\* The flush fails.
LEMMA SpokeFails ==
    ASSUME TypeInv, FlushIsOne', Spoke, Unrepeated, FlushFails
    PROVE  Spoke'
<1>0. events \in Nat /\ events' = events /\ events <= events /\ faults' # 0 /\ record'.status = record.status
  BY FailureFacts, EventsAssumption DEF TypeInv, TypeOK
<1>1. PICK f \in flush :
          /\ \/ f.at = "write" /\ Replace(Sidecar, Head(f.todo))
             \/ UNCHANGED <<conv, overwritten>> /\ (held' = held \/ held' = [held EXCEPT ![Sidecar] = {}])
          /\ \/ flush' = {} /\ UNCHANGED record
             \/ /\ f.at = "write" /\ f.limit = 1 /\ Head(f.todo).kind = "tool"
                /\ Head(f.todo) \in ToSet(f.todo) /\ Head(f.todo) \in Spoken
                /\ AuditAgain(record, Head(f.todo))
  BY FailureFacts
<1>2. /\ RecordInOrder' /\ Lasting
      /\ \/ flush' = {}
         \/ \E k \in Spoken : /\ StartFlush(<<k>>, 1) /\ ~IsTurn(k) /\ Entered(k)'
                             /\ k \notin Told \cup {Head(f.todo)}
  <2>1. CASE flush' = {} /\ UNCHANGED record
    BY <1>0, <2>1, RecordStays DEF Spoke
  <2>2. CASE /\ f.limit = 1 /\ Head(f.todo).kind = "tool"
             /\ Head(f.todo) \in ToSet(f.todo) /\ Head(f.todo) \in Spoken
             /\ AuditAgain(record, Head(f.todo))
    <3>1. PICK m \in Spoken : m = Head(f.todo)
      BY <2>2
    <3>2. PICK k \in Spoken : /\ k = Again(m) /\ k.n <= events /\ ~IsTurn(k) /\ k \notin Told \cup {m}
                             /\ m.n <= events
      BY <2>2, <3>1, AgainIsNew
    <3>3. Ordered(record', events) /\ OnRecord \subseteq ToSet(Entries(record'))
      <4>1. record' \in {record, Noted(record, Again(m))} /\ Ordered(record, events)
        BY <2>2, <3>1 DEF AuditAgain, Spoke, RecordInOrder
      <4> QED
        BY <1>0, <2>2, <3>1, <3>2, <4>1, AuditedInOrder
    <3>4. RecordInOrder' /\ OnRecord \subseteq OnRecord'
      BY <1>0, <3>3 DEF RecordInOrder, OnRecord
    <3>5. Lasting
      BY <1>0, <3>4, EntriesLast
    <3>6. Entered(k)'
      BY <1>0, <3>2 DEF Entered, IsTurn, Voiced
    <3> QED
      BY <2>2, <3>1, <3>2, <3>4, <3>5, <3>6 DEF AuditAgain
  <2> QED
    BY <1>1, <2>1, <2>2
<1>3. CASE f.at = "write" /\ Replace(Sidecar, Head(f.todo))
  BY <1>0, <1>2, <1>3, SpokeWrites
<1>4. CASE UNCHANGED <<conv, overwritten>> /\ (held' = held \/ held' = [held EXCEPT ![Sidecar] = {}])
  <2>1. \A w \in Writers : held'[w] \subseteq held[w]
    BY <1>4 DEF TypeInv, TypeOK, LogTypeOK
  <2>2. Docs' \subseteq Docs /\ held'[Sidecar] \subseteq held[Sidecar]
    BY <1>4, <2>1 DEF Docs, Writers
  <2>3. \A g \in flush' : /\ g.at = "read" /\ (\A x \in ToSet(g.todo) : Entered(x)') /\ Ascending(g.todo)
                          /\ ToSet(g.todo) \cap Told = {} /\ \A x \in ToSet(g.todo) : ~IsTurn(x)
    <3>1. ASSUME NEW k \in Spoken, StartFlush(<<k>>, 1), ~IsTurn(k), Entered(k)', k \notin Told, NEW g \in flush'
          PROVE  /\ g.at = "read" /\ (\A x \in ToSet(g.todo) : Entered(x)') /\ Ascending(g.todo)
                 /\ ToSet(g.todo) \cap Told = {} /\ \A x \in ToSet(g.todo) : ~IsTurn(x)
      <4>1. g.at = "read" /\ g.todo = <<k>>
        BY <3>1 DEF StartFlush
      <4>2. ToSet(<<k>>) = {k} /\ Ascending(<<k>>)
        BY DEF Ascending, ToSet
      <4> QED
        BY <3>1, <4>1, <4>2
    <3> QED
      BY <1>2, <3>1
  <2> QED
    BY <1>0, <1>2, <1>4, <2>2, <2>3, SpokeStands
<1> QED
  BY <1>1, <1>3, <1>4

LEMMA SpokeFlush ==
    ASSUME TypeInv, FlushIsOne', Spoke, Flush
    PROVE  Spoke'
<1>1. \A f \in flush : f.todo \in Seq(Spoken) /\ Ascending(f.todo) /\ f.limit \in 1..2
  BY DEF Spoke, FlushInOrder, TypeInv, TypeOK, Flight
<1>2. UNCHANGED <<record, events>> /\ (faults' = 0 => faults = 0) /\ RecordInOrder' /\ Lasting /\ record'.status = record.status
  <2>1. UNCHANGED <<record, events>> /\ (faults' = 0 => faults = 0)
    BY DEF Flush, FlushRead, FlushCheck, FlushWrite, FlushRefused
  <2> QED
    BY <2>1, RecordStays DEF Spoke
<1>3. CASE FlushRead
  <2>1. PICK f \in flush :
            /\ f.at = "read"
            /\ flush' = Flushing(f.todo, IF f.limit = 2 THEN InVoice ELSE {}, conv.revision, 0, f.limit)
    BY <1>3 DEF FlushRead
  <2>2. ASSUME NEW d \in Docs, Complete(d)
        PROVE  VoicedIn(d) \cap ToSet(f.todo) \subseteq IF f.limit = 2 THEN InVoice ELSE {}
    <3>1. CASE f.limit = 2
      BY <2>2, <3>1, HeardIsSeen
    <3>2. CASE f.limit = 1
      <4>1. ToSet(f.todo) \cap Told = {}
        BY <2>1, <3>2 DEF Spoke, FlushInOrder
      <4>2. VoicedIn(d) \subseteq Told
        BY <2>2, DocFacts DEF TypeInv, TypeOK, VoicedIn
      <4> QED
        BY <4>1, <4>2
    <3> QED
      BY <1>1, <3>1, <3>2
  <2>3. UNCHANGED <<conv, held, overwritten, record, events>>
    BY <1>3 DEF FlushRead, logVars
  <2>4. PICK seen : seen = IF f.limit = 2 THEN InVoice ELSE {}
    OBVIOUS
  <2> QED
    BY <1>1, <1>2, <2>1, <2>2, <2>3, <2>4, SpokeLooks
<1>4. CASE FlushCheck
  <2>1. PICK f \in flush : f.at = "append" /\ flush' = {[f EXCEPT !.at = "write"]} /\ Check(Sidecar, f.expects)
    BY <1>4 DEF FlushCheck
  <2>2. UNCHANGED <<conv, overwritten>> /\ held' = [held EXCEPT ![Sidecar] = {conv}]
    BY <2>1 DEF Check
  <2>3. Docs' \subseteq Docs /\ held'[Sidecar] = {conv}
    <3>1. held \in [Writers -> SUBSET Document] /\ Sidecar \in Writers
      BY DEF TypeInv, TypeOK, LogTypeOK, Writers
    <3>2. \A w \in Writers : held'[w] \subseteq held[w] \/ held'[w] = {conv}
      BY <2>2, <3>1
    <3> QED
      BY <2>2, <3>1, <3>2 DEF Docs
  <2>4. /\ Told' = Told /\ DocsSay'
        /\ \A d \in Docs' : Complete(d)' => d \in Docs /\ Complete(d)
    BY <2>2, <2>3, DocsStand DEF Spoke, WellSaid, DocsSay
  <2>5. PICK g : g = [f EXCEPT !.at = "write"]
    OBVIOUS
  <2>6. flush' = {g} /\ g.at = "write" /\ g.todo = f.todo /\ g.seen = f.seen
    BY <2>1, <2>5 DEF TypeInv, TypeOK, Flight
  <2>7. \A x \in ToSet(f.todo) : Entered(x)'
    BY <1>2, <2>1, WaitingTypes DEF Spoke, FlushInOrder, Lasting
  <2>8. \A d \in Docs' : Complete(d)' => Unheard(d)'
    BY <2>1, <2>4, <2>6 DEF Spoke, WellSaid, Unheard, VoicedIn, Voiced
  <2>9. FlushInOrder'
    BY <2>1, <2>4, <2>6, <2>7 DEF Spoke, FlushInOrder, Ascending, IsTurn, Voiced
  <2>10. WellSaid' /\ TurnsWait'
    BY <1>2, <2>4, <2>6, <2>8 DEF Spoke, WellSaid, DocsSay, TurnsWait, IsTurn, Voiced
  <2>11. SaidOnRecord'
    BY <1>2, <2>4, SaidLasts DEF Spoke
  <2> QED
    BY <1>2, <2>9, <2>10, <2>11 DEF Spoke
<1>5. CASE FlushWrite
  BY <1>2, <1>5, SpokeWrites DEF FlushWrite
<1>6. CASE FlushRefused
  <2>0. PICK f \in flush :
            /\ f.at = "append"
            /\ \/ flush' = Flushing(f.todo, InVoice, conv.revision, f.tries + 1, f.limit)
               \/ flush' = Flushing(Tail(f.todo), InVoice, conv.revision, 0, f.limit)
    BY <1>6 DEF FlushRefused
  <2> DEFINE tail == Tail(f.todo)
  <2> HIDE DEF tail
  <2>1. PICK todo, tries :
            todo \in {f.todo, tail} /\ flush' = Flushing(todo, InVoice, conv.revision, tries, f.limit)
    <3>1. CASE flush' = Flushing(f.todo, InVoice, conv.revision, f.tries + 1, f.limit)
      BY <3>1
    <3>2. CASE flush' = Flushing(tail, InVoice, conv.revision, 0, f.limit)
      BY <3>2
    <3> QED
      BY <2>0, <3>1, <3>2 DEF tail
  <2>2. f.todo # <<>>
    BY <2>0 DEF TypeInv, FlushKnows
  <2>3. todo \in Seq(Spoken) /\ Ascending(todo) /\ ToSet(todo) \subseteq ToSet(f.todo)
    BY <1>1, <2>1, <2>2, AscendingTail, HeadTail DEF tail
  <2>4. UNCHANGED <<conv, held, overwritten, record, events>>
    BY <1>6 DEF FlushRefused, logVars
  <2>5. \A d \in Docs : Complete(d) => VoicedIn(d) \cap ToSet(todo) \subseteq InVoice
    BY HeardIsSeen
  <2> QED
    BY <1>2, <2>1, <2>3, <2>4, <2>5, SpokeLooks
<1> QED
  BY <1>3, <1>4, <1>5, <1>6 DEF Flush

\* A failure is not forgotten.
LEMMA FaultsStay == ASSUME TypeInv, [Next]_vars PROVE faults' = 0 => faults = 0
<1>0. faults \in Nat
  BY FaultsAssumption DEF TypeInv, TypeOK
<1>1. CASE EndOrFail \/ Register \/ Flush \/ Crash
  BY <1>0, <1>1 DEF EndOrFail, EndFails, Register, Flush, FlushRead, FlushCheck, FlushWrite, FlushRefused, Crash
<1>2. ASSUME NEW s \in Sockets, Transcript(s) \/ ToolCall(s) PROVE faults' = 0 => faults = 0
  BY <1>0, <1>2 DEF Transcript, ToolCall
<1>3. CASE FlushFails
  BY <1>3, FailureFacts
<1> QED
  BY <1>1, <1>2, <1>3, SessionMoves

\* A tool call is audited, or that fails: what is flushed is the entry of this call.
LEMMA AuditSpeaks ==
    ASSUME TypeInv, Spoke, NEW m \in Spoken, m.kind = "tool", events \in Nat, events' = events + 1, m.n = events',
           (Audit(m) /\ faults' = faults) \/ (AuditFails(m) /\ faults' # 0)
    PROVE  /\ RecordInOrder' /\ Lasting
           /\ flush' = {} \/ \E k \in {m, Again(m)} : StartFlush(<<k>>, 1) /\ Entered(k)'
<1>1. PICK k \in Spoken : k = Again(m) /\ k.kind = "again" /\ k.n = m.n
  BY MessageTypes
<1>2. record \in SessionRecord /\ Ordered(record, events') /\ events' \in Nat /\ events <= events' /\ m.n <= events'
  <2>1. record \in SessionRecord
    BY DEF TypeInv, TypeOK, SessionRecord
  <2> QED
    BY <2>1, OrderedLater DEF Spoke, RecordInOrder
<1>3. CASE Audit(m) /\ faults' = faults
  <2>1. record' = Noted(record, m) /\ StartFlush(<<m>>, 1)
    BY <1>3 DEF Audit
  <2>2. /\ Ordered(Noted(record, m), events')
        /\ ToSet(Entries(Noted(record, m))) = ToSet(Entries(record)) \cup {m}
    BY <1>2, NotedInOrder
  <2>3. RecordInOrder' /\ OnRecord' = OnRecord \cup {m}
    BY <2>1, <2>2 DEF RecordInOrder, OnRecord
  <2>4. Lasting
    BY <1>2, <1>3, <2>3, EntriesLast
  <2>5. Entered(m)'
    BY <1>2, <2>3 DEF Entered
  <2> QED
    BY <2>1, <2>3, <2>4, <2>5
<1>4. CASE AuditFails(m) /\ faults' # 0
  <2>1. RecordInOrder' /\ OnRecord \subseteq OnRecord'
    <3>1. CASE UNCHANGED record
      <4>1. Ordered(record', events') /\ OnRecord' = OnRecord
        BY <1>2, <3>1 DEF OnRecord
      <4> QED
        BY <4>1 DEF RecordInOrder
    <3>2. ASSUME NEW r \in {record, Noted(record, m)}, AuditAgain(r, m) PROVE RecordInOrder' /\ OnRecord \subseteq OnRecord'
      <4>1. record' \in {r, Noted(r, Again(m))}
        BY <3>2 DEF AuditAgain
      <4>2. Ordered(record', events') /\ OnRecord \subseteq ToSet(Entries(record'))
        BY <1>2, <4>1, AuditedInOrder
      <4> QED
        BY <4>2 DEF RecordInOrder, OnRecord
    <3> QED
      BY <1>4, <3>1, <3>2 DEF AuditFails
  <2>2. Lasting
    BY <1>2, <1>4, <2>1, EntriesLast
  <2>3. Entered(m)' /\ Entered(k)'
    BY <1>1, <1>2, <1>4 DEF Entered, IsTurn
  <2>4. flush' = {} \/ StartFlush(<<m>>, 1) \/ StartFlush(<<k>>, 1)
    BY <1>1, <1>4 DEF AuditFails, AuditAgain
  <2> QED
    BY <1>1, <2>1, <2>2, <2>3, <2>4
<1> QED
  BY <1>3, <1>4

\* The session ends: its flush may write what is on the record.
LEMMA SpokeEnd ==
    ASSUME TypeInv, RegistryMatchesRecord, Spoke, EndOrFail, UNCHANGED <<logVars, events>>,
           faults' = 0 => faults = 0
    PROVE  Spoke'
<1>0. TypeOK /\ record \in SessionRecord
  BY DEF TypeInv, TypeOK, SessionRecord
<1>1. UNCHANGED <<conv, held, overwritten, events>> /\ Docs' = Docs
  BY DEF logVars, Docs
<1>2. CASE UNCHANGED <<record, flush>>
  BY <1>1, <1>2, SpokeStays
<1>3. CASE /\ registered /\ record' = [record EXCEPT !.status = "ended"]
           /\ flush' = flush \/ StartFlush(Entries(record), 2)
  <2>1. /\ record'.status = "ended" /\ record'.turns = record.turns /\ record'.tools = record.tools
        /\ record.status = "active"
    BY <1>0, <1>3 DEF RegistryMatchesRecord, SessionRecord
  <2>2. RecordInOrder' /\ OnRecord' = OnRecord
    BY <1>1, <2>1 DEF Spoke, RecordInOrder, Ordered, OnRecord, Entries, Ascending
  <2>3. events \in Nat /\ events' = events /\ events <= events
    BY <1>0, <1>1, EventsAssumption DEF TypeOK
  <2>4. Lasting
    BY <2>2, <2>3, EntriesLast
  <2>5. Ascending(Entries(record)) /\ ToSet(Entries(record)) = OnRecord
    BY <1>0, RecordAscends, RecordSet DEF Spoke
  <2>6. \A x \in OnRecord : Entered(x)'
    <3>1. \A x \in OnRecord : x.n <= events'
      BY <2>2, <2>3 DEF RecordInOrder, Ordered, OnRecord
    <3> QED
      BY <2>2, <3>1 DEF Entered
  <2>7. \A m \in Told : ~IsTurn(m)
    BY <2>1 DEF Spoke, TurnsWait
  <2>8. \A f \in flush' : f \in flush \/ (f.at = "read" /\ f.todo = Entries(record) /\ f.limit = 2)
    BY <1>3 DEF StartFlush
  <2> QED
    BY <1>1, <2>1, <2>2, <2>4, <2>5, <2>6, <2>7, <2>8, SpokeStands
<1> QED
  BY <1>2, <1>3 DEF EndOrFail, End, EndFails, sessionVars

\* A transcript is put on the record, or is not.
LEMMA SpokeTranscript ==
    ASSUME TypeInv, Spoke, NEW s \in Sockets, Transcript(s), faults' = 0 => faults = 0
    PROVE  Spoke'
<1>0. TypeOK /\ record \in SessionRecord
  BY DEF TypeInv, TypeOK, SessionRecord
<1>1. /\ UNCHANGED <<conv, held, overwritten, flush>> /\ Docs' = Docs
      /\ events \in Nat /\ events' = events + 1 /\ events' \in Nat /\ events <= events'
  BY <1>0, EventsAssumption DEF Transcript, logVars, Docs, TypeOK
<1>2. RecordInOrder' /\ OnRecord \subseteq OnRecord' /\ record'.status = record.status
  <2>1. CASE record' = record
    <3>1. Ordered(record', events') /\ OnRecord' = OnRecord
      BY <1>0, <1>1, <2>1, OrderedLater DEF Spoke, RecordInOrder, OnRecord
    <3> QED
      BY <2>1, <3>1 DEF RecordInOrder
  <2>2. CASE record' = [record EXCEPT !.turns = Append(@, Message(Sidecar, "turn", events'))]
    <3>1. PICK m : m = Message(Sidecar, "turn", events')
      OBVIOUS
    <3>2. RecordInOrder' /\ OnRecord \subseteq OnRecord'
      BY <1>0, <1>1, <2>2, <3>1, Recorded DEF Spoke
    <3>3. record'.status = record.status
      BY <1>0, <2>2 DEF SessionRecord
    <3> QED
      BY <3>2, <3>3
  <2> QED
    BY <2>1, <2>2 DEF Transcript
<1>3. Lasting
  BY <1>1, <1>2, EntriesLast
<1> QED
  BY <1>1, <1>2, <1>3, SpokeStands

\* A tool call: the entry to be flushed is new.
LEMMA SpokeToolCall ==
    ASSUME TypeInv, Spoke, NEW s \in Sockets, ToolCall(s)
    PROVE  Spoke'
<1>1. UNCHANGED <<conv, held, overwritten>> /\ Docs' = Docs
  BY DEF ToolCall, logVars, Docs
<1>2. PICK m \in Spoken : m = Message(Sidecar, "tool", events') /\ m.kind = "tool" /\ m.n = events'
  BY ToolCallFacts, MessageParts
<1>3. /\ events \in Nat /\ events' = events + 1 /\ record'.status = record.status
      /\ (Audit(m) /\ faults' = faults) \/ (AuditFails(m) /\ faults' # 0)
  <2>1. faults \in Nat
    BY FaultsAssumption DEF TypeInv, TypeOK
  <2> QED
    BY <1>2, <2>1, ToolCallFacts
<1>4. /\ RecordInOrder' /\ Lasting
      /\ flush' = {} \/ \E k \in {m, Again(m)} : StartFlush(<<k>>, 1) /\ Entered(k)'
  BY <1>2, <1>3, AuditSpeaks
<1>5. \A k \in {m, Again(m)} : k.kind # "turn" /\ k.n = events + 1 /\ Voiced(k)
  BY <1>2, <1>3, MessageTypes, MessageParts DEF Voiced
<1>6. \A k \in {m, Again(m)} : k \notin Told /\ ~IsTurn(k)
  BY <1>3, <1>5 DEF Spoke, SaidOnRecord, Entered, IsTurn
<1>7. ASSUME NEW k \in {m, Again(m)}, StartFlush(<<k>>, 1), Entered(k)', NEW f \in flush'
      PROVE  /\ f.at = "read" /\ (\A x \in ToSet(f.todo) : Entered(x)') /\ Ascending(f.todo)
             /\ ToSet(f.todo) \cap Told = {} /\ \A x \in ToSet(f.todo) : ~IsTurn(x)
  <2>1. f.at = "read" /\ f.todo = <<k>>
    BY <1>7 DEF StartFlush
  <2>2. ToSet(<<k>>) = {k} /\ Ascending(<<k>>)
    BY DEF Ascending, ToSet
  <2> QED
    BY <1>6, <1>7, <2>1, <2>2
<1>8. \A f \in flush' : /\ f.at = "read" /\ (\A x \in ToSet(f.todo) : Entered(x)') /\ Ascending(f.todo)
                        /\ ToSet(f.todo) \cap Told = {} /\ \A x \in ToSet(f.todo) : ~IsTurn(x)
  BY <1>4, <1>7
<1> QED
  BY <1>1, <1>3, <1>4, <1>8, SpokeStands

LEMMA SpokeRegister ==
    ASSUME TypeInv, Spoke, Register
    PROVE  Spoke'
<1>1. UNCHANGED <<conv, held, overwritten, flush, events, faults>> /\ Docs' = Docs
  BY DEF Register, logVars, Docs
<1>2. /\ record'.turns = record.turns /\ record'.tools = record.tools
      /\ record.status = "none" /\ record'.status = "active"
  BY DEF Register, TypeInv, TypeOK
<1>3. RecordInOrder' /\ OnRecord' = OnRecord
  BY <1>1, <1>2 DEF Spoke, RecordInOrder, Ordered, OnRecord, Entries, Ascending
<1>4. events \in Nat /\ events' = events /\ events <= events
  BY <1>1, EventsAssumption DEF TypeInv, TypeOK
<1>5. Lasting
  BY <1>1, <1>3, <1>4, EntriesLast
<1> QED
  BY <1>1, <1>2, <1>3, <1>5, SpokeStands

LEMMA SpokeInit == Init => Spoke /\ Unrepeated
<1> SUFFICES ASSUME Init PROVE Spoke /\ Unrepeated
  OBVIOUS
<1>1. /\ Docs = {conv} /\ Told = {} /\ flush = {} /\ record.turns = <<>> /\ record.tools = <<>>
      /\ Len(conv.messages) = 0 /\ VoicedIn(conv) = {}
  BY DEF Init, LogInit, Docs, Told, InLog, ToSet, VoicedIn
<1>2. ToSet(Entries(record)) = {}
  BY <1>1 DEF Entries, ToSet
<1>3. held[Sidecar] = {}
  BY DEF Init, LogInit, Writers
<1>4. WellSaid
  BY <1>1, <1>3 DEF WellSaid, Tidy, Heard, Unheard
<1>5. RecordInOrder
  BY <1>1, <1>2 DEF RecordInOrder, Ordered, Ascending
<1>6. FlushInOrder /\ SaidOnRecord /\ TurnsWait /\ Unrepeated
  BY <1>1 DEF FlushInOrder, SaidOnRecord, TurnsWait, Unrepeated
<1> QED
  BY <1>4, <1>5, <1>6 DEF Spoke

LEMMA SpokeStep ==
    ASSUME TypeInv, TypeInv', RegistryMatchesRecord, Stacked, Spoke, Unrepeated, [Next]_vars
    PROVE  Spoke'
<1>0. (faults' = 0 => faults = 0) /\ FlushIsOne'
  BY FaultsStay DEF TypeInv
<1>1. CASE UNCHANGED <<logVars, record, flush, events>>
  <2>1. UNCHANGED <<conv, held, overwritten>> /\ Docs' = Docs
    BY <1>1 DEF logVars, Docs
  <2> QED
    BY <1>0, <1>1, <2>1, SpokeStays
<1>2. CASE Flush
  BY <1>0, <1>2, SpokeFlush
<1>3. CASE FlushFails
  BY <1>0, <1>3, SpokeFails
<1>4. ASSUME NEW t \in Tabs, Page(t), UNCHANGED <<record, flush, events>> PROVE Spoke'
  BY <1>0, <1>4, SpokePage
<1>5. CASE EndOrFail /\ UNCHANGED <<logVars, events>>
  BY <1>0, <1>5, SpokeEnd
<1>6. CASE Crash
  BY <1>0, <1>6, SpokeForgets DEF Crash
<1>7. ASSUME NEW s \in Sockets, Transcript(s) \/ ToolCall(s) PROVE Spoke'
  BY <1>0, <1>7, SpokeTranscript, SpokeToolCall
<1> QED
  BY <1>1, <1>2, <1>3, <1>4, <1>5, <1>6, <1>7, SayMoves, SpokeRegister

-----------------------------------------------------------------------------
(* A call is audited again once *)

\* A tab says nothing for the sidecar.
LEMMA TabsTell ==
    ASSUME TypeInv, NEW t \in Tabs, Page(t)
    PROVE  \A m \in Told' : m \in Told \/ m.by # Sidecar
<1>0. t \in Writers /\ t # Sidecar /\ turns[t] \in Nat /\ LogTypeOK /\ DocsAreTold
  BY WriterAssumption DEF TypeInv, TypeOK, LogTypeOK, Writers
<1>1. CASE (\E k \in {"turn", "audit"} : Begin(t, k)) \/ GiveUp(t) \/ CheckQuestion(t) \/ CheckAnswer(t)
  BY <1>1 DEF Begin, GiveUp, CheckQuestion, CheckAnswer, Check, Told, InLog
<1>2. ASSUME NEW m \in Messages, m.by = t, Replace(t, m) PROVE \A x \in Told' : x \in Told \/ x.by # Sidecar
  <2>1. Told' = Told \cup {m}
    BY <1>0, <1>2, Replaced
  <2> QED
    BY <1>0, <1>2, <2>1
<1>3. CASE WriteQuestion(t)
  <2>1. PICK m : m = Message(t, IF tab[t].kind = "turn" THEN "question" ELSE "audit", turns[t])
    OBVIOUS
  <2>2. m \in Messages /\ m.by = t
    BY <1>0, <2>1, MessageTypes, MessageParts
  <2> QED
    BY <1>2, <1>3, <2>1, <2>2 DEF WriteQuestion
<1>4. CASE WriteAnswer(t)
  <2>1. Message(t, "answer", turns[t]) \in Messages /\ Message(t, "answer", turns[t]).by = t
    BY <1>0, MessageTypes, MessageParts
  <2> QED
    BY <1>2, <1>4, <2>1 DEF WriteAnswer
<1> QED
  BY <1>1, <1>2, <1>3, <1>4 DEF Page

\* The flush of a call goes on.
LEMMA UnrepeatedGoesOn ==
    ASSUME TypeInv, Unrepeated, NEW f \in flush, Told' \subseteq Told \cup ToSet(f.todo),
           \A g \in flush' : g.limit = f.limit /\ ToSet(g.todo) \subseteq ToSet(f.todo)
    PROVE  Unrepeated'
<1> SUFFICES ASSUME f.limit = 1, NEW x \in ToSet(f.todo), NEW y \in ToSet(f.todo)
             PROVE  x = y /\ (x.kind = "tool" => Again(x) \notin Told')
  BY DEF Unrepeated, Again
<1>1. x = y /\ (x.kind = "tool" => Again(x) \notin Told)
  BY DEF Unrepeated
<1>2. Again(x).kind = "again"
  BY WaitingTypes, MessageTypes
<1>3. \A z \in ToSet(f.todo) : z = x
  BY DEF Unrepeated
<1> QED
  BY <1>1, <1>2, <1>3

\* What the flush of one call has to write.
LEMMA UnrepeatedAlone ==
    ASSUME NEW k, StartFlush(<<k>>, 1), k.kind = "tool" => Again(k) \notin Told'
    PROVE  Unrepeated'
<1>1. \A g \in flush' : g.todo = <<k>>
  BY DEF StartFlush
<1>2. ToSet(<<k>>) = {k}
  BY DEF ToSet
<1> QED
  BY <1>1, <1>2 DEF Unrepeated, Again

LEMMA UnrepeatedStep ==
    ASSUME TypeInv, Spoke, Unrepeated, [Next]_vars
    PROVE  Unrepeated'
<1>0. \A f \in flush : f.todo \in Seq(Spoken) /\ Ascending(f.todo)
  BY WaitingTypes DEF Spoke, FlushInOrder
<1>1. ASSUME UNCHANGED flush, \A m \in Told' : m \in Told \/ m.by # Sidecar PROVE Unrepeated'
  <2> SUFFICES ASSUME NEW f \in flush, f.limit = 1, NEW x \in ToSet(f.todo), NEW y \in ToSet(f.todo)
               PROVE  x = y /\ (x.kind = "tool" => Again(x) \notin Told')
    BY <1>1 DEF Unrepeated, Again
  <2>1. x = y /\ (x.kind = "tool" => Again(x) \notin Told)
    BY DEF Unrepeated
  <2>2. Again(x).by = Sidecar
    BY WaitingTypes, MessageTypes DEF Spoken
  <2> QED
    BY <1>1, <2>1, <2>2
<1>2. UNCHANGED logVars => Told' = Told
  BY DEF logVars, Told, InLog
<1>3. CASE UNCHANGED logVars /\ UNCHANGED flush
  BY <1>1, <1>2, <1>3
<1>4. CASE EndOrFail /\ UNCHANGED logVars
  <2>1. UNCHANGED flush \/ \A f \in flush' : f.limit = 2
    BY <1>4 DEF EndOrFail, End, EndFails, StartFlush, sessionVars
  <2> QED
    BY <1>3, <1>4, <2>1 DEF Unrepeated
<1>5. CASE Register
  BY <1>3, <1>5 DEF Register
<1>6. ASSUME NEW s \in Sockets, Transcript(s) PROVE Unrepeated'
  BY <1>3, <1>6 DEF Transcript
<1>7. ASSUME NEW s \in Sockets, ToolCall(s) PROVE Unrepeated'
  <2>1. PICK m \in Spoken : m = Message(Sidecar, "tool", events') /\ m.kind = "tool" /\ m.n = events'
    BY <1>7, ToolCallFacts, MessageParts
  <2>2. events \in Nat /\ events' = events + 1 /\ (Audit(m) \/ AuditFails(m)) /\ Told' = Told
    BY <1>2, <1>7, <2>1, ToolCallFacts DEF ToolCall
  <2>3. Again(m).kind = "again" /\ Again(m).n = events + 1 /\ Again(m).by = Sidecar
    BY <2>1, <2>2, MessageTypes DEF Spoken
  <2>4. Again(m) \notin Told
    BY <2>2, <2>3 DEF Spoke, SaidOnRecord, Entered, Voiced
  <2>5. flush' = {} \/ StartFlush(<<m>>, 1) \/ StartFlush(<<Again(m)>>, 1)
    BY <2>2 DEF Audit, AuditFails, AuditAgain
  <2>6. CASE flush' = {}
    BY <2>6 DEF Unrepeated
  <2> QED
    BY <2>2, <2>3, <2>4, <2>5, <2>6, UnrepeatedAlone
<1>8. CASE FlushRead \/ FlushRefused
  <2>0. PICK f \in flush :
            \E todo, seen, revision, tries :
                /\ todo = f.todo \/ (todo = Tail(f.todo) /\ f.at = "append")
                /\ flush' = Flushing(todo, seen, revision, tries, f.limit)
    BY <1>8 DEF FlushRead, FlushRefused
  <2>1. PICK todo, seen, revision, tries :
            /\ todo = f.todo \/ (todo = Tail(f.todo) /\ f.at = "append")
            /\ flush' = Flushing(todo, seen, revision, tries, f.limit)
    BY <2>0
  <2>2. todo \in Seq(Spoken) /\ Ascending(todo) /\ ToSet(todo) \subseteq ToSet(f.todo)
    BY <1>0, <2>1, AscendingTail, HeadTail DEF TypeInv, FlushKnows
  <2>3. \A g \in flush' : ToSet(g.todo) \subseteq ToSet(todo) /\ g.limit = f.limit
    <3>1. \A g \in flush' : ToSet(g.todo) \subseteq ToSet(todo)
      BY <2>1, <2>2, FlushingOrder
    <3>2. \A g \in flush' : g.limit = f.limit
      BY <2>1 DEF Flushing
    <3> QED
      BY <3>1, <3>2
  <2>4. Told' = Told
    BY <1>8 DEF FlushRead, FlushRefused, logVars, Told, InLog
  <2> QED
    BY <2>2, <2>3, <2>4, UnrepeatedGoesOn
<1>9. CASE FlushCheck
  <2>1. PICK f \in flush : flush' = {[f EXCEPT !.at = "write"]} /\ Check(Sidecar, f.expects)
    BY <1>9 DEF FlushCheck
  <2>2. \A g \in flush' : g.todo = f.todo /\ g.limit = f.limit
    BY <2>1 DEF TypeInv, TypeOK, Flight
  <2>3. Told' = Told
    BY <2>1 DEF Check, Told, InLog
  <2> QED
    BY <2>2, <2>3, UnrepeatedGoesOn
<1>10. CASE FlushWrite
  <2>1. PICK f \in flush :
            /\ f.at = "write" /\ Replace(Sidecar, Head(f.todo))
            /\ flush' = Flushing(f.todo, f.seen \cup {Head(f.todo)}, conv'.revision, 0, f.limit)
    BY <1>10 DEF FlushWrite
  <2>2. \A g \in flush' : ToSet(g.todo) \subseteq ToSet(f.todo) /\ g.limit = f.limit
    <3>1. \A g \in flush' : ToSet(g.todo) \subseteq ToSet(f.todo)
      BY <1>0, <2>1, FlushingOrder
    <3>2. \A g \in flush' : g.limit = f.limit
      BY <2>1 DEF Flushing
    <3> QED
      BY <3>1, <3>2
  <2>3. Head(f.todo) \in ToSet(f.todo) /\ Head(f.todo) \in Messages
    BY <1>0, <2>1, HeadTail, WaitingTypes, MessageTypes DEF TypeInv, FlushKnows
  <2>4. Told' = Told \cup {Head(f.todo)}
    BY <2>1, <2>3, Replaced DEF TypeInv, TypeOK, Writers
  <2> QED
    BY <2>2, <2>3, <2>4, UnrepeatedGoesOn
<1>11. CASE FlushFails
  <2>1. flush' = {} \/ \E f \in flush : Head(f.todo) \in Spoken /\ AuditAgain(record, Head(f.todo))
    BY <1>11, FailureFacts
  <2>2. CASE flush' = {}
    BY <2>2 DEF Unrepeated
  <2>3. ASSUME NEW m \in Spoken, AuditAgain(record, m) PROVE Unrepeated'
    <3>1. Again(m).kind = "again" /\ (flush' = {} \/ StartFlush(<<Again(m)>>, 1))
      BY <2>3, MessageTypes DEF AuditAgain
    <3> QED
      BY <2>2, <3>1, UnrepeatedAlone
  <2> QED
    BY <2>1, <2>2, <2>3
<1>12. CASE Crash
  BY <1>12 DEF Crash, Unrepeated
<1>13. ASSUME NEW t \in Tabs, Page(t), UNCHANGED flush PROVE Unrepeated'
  BY <1>1, <1>13, TabsTell
<1> QED
  BY <1>3, <1>4, <1>5, <1>6, <1>7, <1>8, <1>9, <1>10, <1>11, <1>12, <1>13, SayMoves DEF Flush

\* When nothing that was stored is gone, the conversation is a complete document.
LEMMA SpokeInOrder ==
    ASSUME TypeInv, Spoke
    PROVE  FlushKeepsOrder
<1> SUFFICES ASSUME Intact
             PROVE  Tidy(conv) /\ \A m \in InVoice : m.kind = "turn" \/ faults = 0 => m \in OnRecord
  BY DEF FlushKeepsOrder, Tidy
<1>1. Told = InLog
  BY DEF Told, Intact
<1>2. conv \in Docs /\ Complete(conv)
  BY <1>1 DEF Docs, Complete, InLog
<1>3. \A m \in InVoice : m.kind = "turn" \/ faults = 0 => m \in OnRecord
  BY <1>1 DEF Spoke, SaidOnRecord, InVoice, Entered, IsTurn
<1> QED
  BY <1>2, <1>3 DEF Spoke, WellSaid

-----------------------------------------------------------------------------
(* Theorems *)

IInv == TypeInv /\ RegistryMatchesRecord /\ Quiet /\ Stacked /\ Spoke /\ Unrepeated

LEMMA Invariance == Spec => []IInv
<1>1. Init => IInv
  <2> SUFFICES ASSUME Init PROVE IInv
    OBVIOUS
  <2>1. TypeInv /\ Stacked /\ Spoke /\ Unrepeated
    BY TypeInit, StackedInit, SpokeInit
  <2>2. RegistryMatchesRecord /\ Quiet
    BY DEF Init, RegistryMatchesRecord, Quiet
  <2> QED
    BY <2>1, <2>2 DEF IInv
<1>2. IInv /\ [Next]_vars => IInv'
  <2> SUFFICES ASSUME IInv, [Next]_vars PROVE IInv'
    OBVIOUS
  <2>1. TypeInv' /\ Told \subseteq Told'
    BY TypeStep DEF IInv
  <2>2. RegistryMatchesRecord'
    BY RegistryStep DEF IInv
  <2>3. Quiet'
    BY <2>1, QuietStep DEF IInv
  <2>4. Stacked'
    BY StackedStep DEF IInv
  <2>5. Spoke' /\ Unrepeated'
    BY <2>1, SpokeStep, UnrepeatedStep DEF IInv
  <2> QED
    BY <2>1, <2>2, <2>3, <2>4, <2>5 DEF IInv
<1> QED
  BY <1>1, <1>2, PTL DEF Spec

\* The conversation, the session record, the sockets and the flush keep their types:
\* in particular a flush counts no more than two tries of
\* _flush_to_conversation_best_effort on one entry, however often it is refused.
THEOREM TypeCorrect == Spec => []TypeOK
<1>1. IInv => TypeOK
  BY DEF IInv, TypeInv
<1> QED
  BY <1>1, Invariance, PTL

\* SidecarRuntime._active and the saved record never tell two stories: the registry
\* lists active sessions only, and without a failed save or a crash all of them.
THEOREM RegistryIsTrue == Spec => []RegistryMatchesRecord
<1>1. IInv => RegistryMatchesRecord
  BY DEF IInv
<1> QED
  BY <1>1, Invariance, PTL

\* _flush_to_conversation_best_effort: when a session is over and its flush done, every
\* entry of its record was stored, or was refused twice by that flush, or audits a call
\* that came after the end and was refused when it was made.
THEOREM NothingIsMislaid == Spec => []NothingIsLostQuietly
<1>1. IInv => NothingIsLostQuietly
  BY DEF IInv, Quiet, Kept, NothingIsLostQuietly, Idle, Told
<1> QED
  BY <1>1, Invariance, PTL

\* propose_draft, _persist_results_turn and handle_help_turn: however the tabs and the
\* sidecar interleave, an answer stands right behind its question.
THEOREM AnswersStandByQuestions == Spec => []AnswersFollowQuestions
<1>1. IInv => AnswersFollowQuestions
  BY StackedAnswers DEF IInv
<1> QED
  BY <1>1, Invariance, PTL

\* _flush_to_conversation_best_effort: whatever the tabs write meanwhile, and whatever
\* is retried, refused, cut short by a crash or left by an OSError, no entry is in the
\* conversation twice (a call that is audited again has two entries), turns are in the
\* order they were said, a turn there is on the record, and an audit is unless something
\* failed.
THEOREM FlushIsOrderly == Spec => []FlushKeepsOrder
<1>1. IInv => FlushKeepsOrder
  BY SpokeInOrder DEF IInv
<1> QED
  BY <1>1, Invariance, PTL
=============================================================================
