---- MODULE MCSubMounts ----
(* Exports nested three deep, side by side, and with a gap in the middle. *)
EXTENDS SubMounts

MCTokens == {"/", "-1", "foo", "share", "a", "b", "c", "d"}
MCShare == <<"share">>
MCBase == <<"foo">>

A == MCShare \o <<"/", "a">>
AB == A \o <<"/", "b">>
ABC == AB \o <<"/", "c">>
D == MCShare \o <<"/", "d">>

MCExportSets == {{}, {D}, {A, AB, ABC}, {A, AB, D}, {A, ABC, D}}
MCForeign == <<MCBase \o <<"-1">>, MCBase \o <<"-1", "/", "a">>>>
====
