----------------------------- MODULE MCWireStore -----------------------------
(* Bounds for checking WireStore: two or three agents, one of them with two   *)
(* spellings, and a handful of send requests.                                 *)
EXTENDS WireStore, TLC

CONSTANTS lead, sub, cli, leadAlias, m1, m2, m3, r1, r2

MCAgents == {lead, sub}
MCSpellings == {lead, sub, leadAlias}
MCCanon == (lead :> lead) @@ (sub :> sub) @@ (leadAlias :> lead)

\* With a sender that receives nothing.
WithCli == MCAgents \cup {cli}
CliSpellings == MCSpellings \cup {cli}
CliCanon == MCCanon @@ (cli :> cli)

\* Recipients of a send: sub alone, or sub and lead under its second spelling.
SubOnly == {{sub}}
AliasAndSub == {{leadAlias, sub}}

InboxSymmetry == Permutations(Msgs) \cup Permutations(Readers)
=============================================================================
