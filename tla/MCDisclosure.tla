---------------------------- MODULE MCDisclosure ----------------------------
(* DisclosureRegistry on one disclosure whose producer, or someone holding    *)
(* its key, sends a good chain, a fork of it, a stale event, a foreign event  *)
(* and checkpoints in any order, any number of times.                         *)
EXTENDS DisclosureProperties

Event(id, seq, prev, cursor, stream, hash, sig) ==
    [id |-> id, seq |-> seq, prev |-> prev, cursor |-> cursor, stream |-> stream,
     hash |-> hash, sig |-> sig]

Marker(hash, count, last, cursor, sig) ==
    [hash |-> hash, eventCount |-> count, lastHash |-> last, cursor |-> cursor,
     stream |-> "s", sig |-> sig]

MCEnvelopes ==
    {Event("a", 0, NoHash, 1, "s", "ha", 1),
     Event("b", 1, "ha", 3, "s", "hb", 1),
     Event("b", 1, "ha", 3, "s", "hb", 2),      \* re-signed with another key
     Event("f", 1, "ha", 4, "s", "hf", 1),      \* a fork of b
     Event("c", 2, "hb", 5, "s", "hc", 1)}

MCMarkers ==
    {Marker("k1", 1, "ha", 1, 1),
     Marker("k2", 1, "ha", 2, 1),
     Marker("k3", 1, "ha", 3, 1),       \* claims the cursor of b
     Marker("k4", 2, "hb", 4, 1),
     Marker("k4", 2, "hb", 4, 2)}       \* re-signed with another key

MCGrant(active) ==
    [target |-> "m", active |-> active, expiresAt |-> 2,
     capabilities |-> {"conversation.read", "branch.create"}]

MCTerms ==
    {[expiresAt |-> 2, capabilities |-> {"conversation.read", "branch.create"},
      grants |-> {MCGrant(TRUE)}, bytes |-> 1],
     [expiresAt |-> 2, capabilities |-> {"conversation.read"},
      grants |-> {}, bytes |-> 0]}

MCReaders == {[member |-> "m", teams |-> {}, active |-> TRUE]}

=============================================================================
