----------------------------- MODULE MCServer -----------------------------
(* Instances of Server for TLC: the identities a1 and a2 are one secret    *)
(* entry before and after its key was rotated (same ID), b is another      *)
(* entry, g1 and g2 can be generated.                                      *)
EXTENDS Server, TLC

CONSTANTS a1, a2, b, g1, g2, ka, kb, kg, old, new, k0, k1

MCSecret == {a1, a2, b, g1, g2}
MCGenerated == {g1, g2}
MCKey == {ka, kb, kg}
MCKeyOf == (a1 :> ka) @@ (a2 :> ka) @@ (b :> kb) @@ (g1 :> kg) @@ (g2 :> kg)
MCName == {old, new}
MCKnobs == {k0, k1}

On(s) == [secret |-> s, name |-> old, enabled |-> TRUE, valid |-> TRUE]
Renamed(s) == [On(s) EXCEPT !.name = new]
Off(s) == [On(s) EXCEPT !.enabled = FALSE]
Broken(s) == [On(s) EXCEPT !.valid = FALSE]

Base == [enabled |-> TRUE, knobs |-> k0, fakeSNI |-> TRUE, ws |-> TRUE, max |-> 2,
         secrets |-> {On(a1), On(b)}]

\* Loaded at boot: the usual file, a file whose only secret does not parse, or one
\* without secrets, so that one is generated, with another port and no WebSocket.
UsualBoot == {Base}
AllBoot == {Base, [Base EXCEPT !.secrets = {Broken(a1)}]}
AnyBoot == AllBoot \cup {[Base EXCEPT !.knobs = k1, !.ws = FALSE, !.secrets = {}]}

\* Saved in the panel: the first secret rotated, the other one renamed and the
\* limit lowered ...
Rotated == [Base EXCEPT !.secrets = {On(a2), Renamed(b)}, !.max = 1]
\* ... the proxy switched off, with every secret ...
Disabled == [Base EXCEPT !.enabled = FALSE, !.secrets = {Off(a1), Off(b)}]
\* ... another port, no WebSocket, and all secrets deleted, so that one is
\* generated.
Moved == [Base EXCEPT !.knobs = k1, !.ws = FALSE, !.secrets = {}]

MCUpdates == {Rotated, Disabled, Moved}
\* ... or the first of these, and the proxy switched off with its secrets deleted.
TwoUpdates == {Rotated, [Base EXCEPT !.enabled = FALSE, !.secrets = {}]}
FewUpdates == {Base, [Rotated EXCEPT !.max = 2], [Base EXCEPT !.enabled = FALSE]}

Symm == Permutations(Conn)
=============================================================================
