-------------------------------- MODULE MCGate --------------------------------
(* A small instance of Gate: an underwriter, a member it backs, and a fresh key. *)
EXTENDS Gate

MCMembers == 1..3
MCFounders == {1, 2}
MCSupply == [m \in MCMembers |-> IF m = 1 THEN 3 ELSE 0]
MCStakes == [a \in Arcs |-> IF a = <<1, 2>> THEN 4 ELSE 0]

Envelope(i, kind, of, to, level, notAfter, copies) ==
    [id |-> i, kind |-> kind, of |-> of, to |-> to, level |-> level, notAfter |-> notAfter,
     copies |-> copies]

\* a newcomer is seated by member 2, acts, settles and leaves
Newcomer == {Envelope(1, "Accept", 3, 2, 0, 2, {{2, 3}, {2}}),
             Envelope(2, "Register", 3, 3, 0, 0, {{3}, {2}}),
             Envelope(3, "Settle", 3, 2, 0, 1, {{2, 3}}),
             Envelope(4, "Exit", 3, 3, 0, 1, {{3}})}

\* member 2 proposes past its headroom, the underwriter lowers what it declared
Ceiling == {Envelope(5, "Propose", 2, 2, 0, 1, {{2}}),
            Envelope(6, "Lower", 1, 1, 1, 0, {{1}}),
            Envelope(7, "Forfeit", 2, 2, 0, 2, {{}})}

MCRefused == {2}
MCEnvelopes == Newcomer \cup Ceiling
=============================================================================
