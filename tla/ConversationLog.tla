----------------------------- MODULE ConversationLog -----------------------------
(***************************************************************************)
(* One conversation document of the assistant repository and the tabs of   *)
(* the Research Assistant page that write to it.                           *)
(* append_conversation_message reads the document, compares its revision   *)
(* with the one the caller expects, and replaces the file: two steps, with *)
(* no lock between them, so a write can put back what another has changed. *)
(*                                                                         *)
(* The next-state relation is in VoiceSession, which adds the sidecar as   *)
(* one more writer.                                                        *)
(***************************************************************************)
EXTENDS Naturals, Sequences, SequencesExt

CONSTANTS
    Tabs,       \* page sessions on this conversation, threads of the Streamlit server
    Sidecar,    \* the process that flushes the voice session
    MaxTurns    \* turns a tab takes

ASSUME WriterAssumption == Sidecar \notin Tabs
ASSUME TurnsAssumption == MaxTurns \in Nat

VARIABLES
    conv,         \* the document: revision and messages
    held,         \* the document a writer has checked and is about to replace, in a set
    tab,          \* where a tab is in a turn, and the revision it expects
    turns,        \* turns a tab has begun
    overwritten   \* messages some writer was told are stored, and are not any more

logVars == <<conv, held, tab, turns, overwritten>>

Writers == Tabs \cup {Sidecar}

\* Who wrote a message, what it is, and which of the writer's it is.
Message(w, k, n) == [by |-> w, kind |-> k, n |-> n]

InLog == ToSet(conv.messages)

LogInit ==
    /\ conv = [revision |-> 1, messages |-> <<>>]
    /\ held = [w \in Writers |-> {}]
    /\ tab = [t \in Tabs |-> [at |-> "idle", kind |-> "turn", expects |-> 0]]
    /\ turns = [t \in Tabs |-> 0]
    /\ overwritten = {}

-----------------------------------------------------------------------------
(* append_conversation_message *)

Stale(revision) == conv.revision # revision

Check(w, revision) ==
    /\ ~Stale(revision)
    /\ held' = [held EXCEPT ![w] = {conv}]
    /\ UNCHANGED <<conv, overwritten>>

\* os.replace, whatever the document has become since the check.
Replace(w, m) ==
    \E c \in held[w] :
        /\ conv' = [revision |-> c.revision + 1, messages |-> Append(c.messages, m)]
        /\ overwritten' = (overwritten \cup InLog) \ ToSet(conv'.messages)
        /\ held' = [held EXCEPT ![w] = {}]

-----------------------------------------------------------------------------
(* A tab: a turn (thesis draft, results, help) writes a question and its  *)
(* answer after the model has replied; an audit writes one line.          *)

Goto(t, at, revision) == tab' = [tab EXCEPT ![t].at = at, ![t].expects = revision]

\* The conversation is read for its history long before anything is appended.
Begin(t, k) ==
    /\ tab[t].at = "idle"
    /\ turns[t] < MaxTurns
    /\ turns' = [turns EXCEPT ![t] = @ + 1]
    /\ tab' = [tab EXCEPT ![t] = [at |-> "thinking", kind |-> k, expects |-> conv.revision]]
    /\ UNCHANGED <<conv, held, overwritten>>

\* Mutant: the answer goes on top of whatever is there.
CheckAnswerAnyway(t) ==
    /\ tab[t].at = "answering"
    /\ Check(t, conv.revision)
    /\ Goto(t, "replying", 0)
    /\ UNCHANGED turns

CheckQuestion(t) ==
    /\ tab[t].at = "thinking"
    /\ Check(t, tab[t].expects)
    /\ Goto(t, "asking", 0)
    /\ UNCHANGED turns

\* The revision of the document this write returned is the one the answer expects.
WriteQuestion(t) ==
    /\ tab[t].at = "asking"
    /\ Replace(t, Message(t, IF tab[t].kind = "turn" THEN "question" ELSE "audit", turns[t]))
    /\ IF tab[t].kind = "turn" THEN Goto(t, "answering", conv'.revision) ELSE Goto(t, "idle", 0)
    /\ UNCHANGED turns

CheckAnswer(t) ==
    /\ tab[t].at = "answering"
    /\ Check(t, tab[t].expects)
    /\ Goto(t, "replying", 0)
    /\ UNCHANGED turns

WriteAnswer(t) ==
    /\ tab[t].at = "replying"
    /\ Replace(t, Message(t, "answer", turns[t]))
    /\ Goto(t, "idle", 0)
    /\ UNCHANGED turns

\* RepositoryConflictError ends the turn with what it has stored; a reply that is
\* refused or fails ends it before it has stored anything.
GiveUp(t) ==
    /\ \/ tab[t].at = "thinking"
       \/ tab[t].at = "answering" /\ Stale(tab[t].expects)
    /\ Goto(t, "idle", 0)
    /\ UNCHANGED <<conv, held, turns, overwritten>>

Page(t) ==
    \/ \E k \in {"turn", "audit"} : Begin(t, k)
    \/ CheckQuestion(t) \/ WriteQuestion(t) \/ CheckAnswer(t) \/ WriteAnswer(t) \/ GiveUp(t)

-----------------------------------------------------------------------------
(* Types *)

Written  == [by : Tabs, kind : {"question", "answer", "audit"}, n : Nat]
Spoken   == [by : {Sidecar}, kind : {"turn", "tool", "again"}, n : Nat]
Messages == Written \cup Spoken
Document == [revision : Nat, messages : Seq(Messages)]
Places   == {"idle", "thinking", "asking", "answering", "replying"}

LogTypeOK ==
    /\ conv \in Document
    /\ held \in [Writers -> SUBSET Document]
    /\ tab \in [Tabs -> [at : Places, kind : {"turn", "audit"}, expects : Nat]]
    /\ turns \in [Tabs -> Nat]
    /\ overwritten \in SUBSET Messages
=============================================================================
