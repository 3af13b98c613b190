---------------------------- MODULE SessionStore ----------------------------
(***************************************************************************)
(* SessionStore of src/ts/hub/session-store.ts: the messages of each       *)
(* session, capped, and dropped when the session has not been used for the *)
(* time to live. One store serves all connections of the hub.              *)
(***************************************************************************)
EXTENDS Naturals, Sequences

CONSTANT MaxMessages  (* messages kept of a session, 12 in the code *)

ASSUME StoreAssumption == MaxMessages \in Nat \ {0}

VARIABLES
  messages,  (* the map: [session -> messages, oldest first]  *)
  old        (* sessions whose updatedAt lies before now - ttl *)

store == <<messages, old>>

StoreInit == messages = <<>> /\ old = {}

InStore == DOMAIN messages
MessagesOf(s) == IF s \in InStore THEN messages[s] ELSE <<>>

Newest(kept) ==
  SubSeq(kept, IF Len(kept) > MaxMessages THEN Len(kept) - MaxMessages + 1 ELSE 1,
         Len(kept))

append(s, message) ==
  /\ messages' = [t \in InStore \union {s} |->
       IF t = s THEN Newest(Append(MessagesOf(s), message)) ELSE messages[t]]
  /\ old' = old \ {s}

cleanup ==
  /\ messages' = [t \in InStore \ old |-> messages[t]]
  /\ old' = {}

\* Returned by getHistory, which runs cleanup first.
History(s) == IF s \in DOMAIN messages' THEN messages'[s] ELSE <<>>

\* Time passes without a message in s.
GrowOld(s) ==
  /\ s \in InStore
  /\ old' = old \union {s}
  /\ UNCHANGED messages
=============================================================================
