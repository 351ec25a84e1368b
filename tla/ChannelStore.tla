---------------------------- MODULE ChannelStore ----------------------------
(***************************************************************************)
(* What a ChannelWriter promises: a table of channels in which a save      *)
(* replaces one channel and a delete removes one, each in one step that no *)
(* other call can be lost in.  The MongoDB and MySQL providers are this    *)
(* table.  A table kept in a file may also be lost as a whole, for good,   *)
(* when writing it fails half way.                                         *)
(***************************************************************************)
CONSTANTS Cams, Channels, Lost

VARIABLE store    \* id -> channel for the ids in the table, or Lost

Tables == UNION {[ids -> Channels] : ids \in SUBSET Cams}

Init == store \in Tables \cup {Lost}

Save(ch) ==
  /\ store # Lost
  /\ store' = [id \in DOMAIN store \cup {ch.id} |-> IF id = ch.id THEN ch ELSE store[id]]

Delete(id) ==
  /\ store # Lost /\ id \in DOMAIN store
  /\ store' = [other \in DOMAIN store \ {id} |-> store[other]]

Lose == store' = Lost

Next == (\E ch \in Channels : Save(ch)) \/ (\E id \in Cams : Delete(id)) \/ Lose

Spec == Init /\ [][Next]_store
=============================================================================
