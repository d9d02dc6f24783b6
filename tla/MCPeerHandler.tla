--------------------------- MODULE MCPeerHandler ----------------------------
(***************************************************************************)
(* PeerHandler with a full node h1 and a seed node h2.                     *)
(***************************************************************************)
EXTENDS PeerHandler

FromNode(host, api, mode) == [host |-> host, api |-> api, mode |-> mode]
FromSeed == FromNode("h2", "a3", "seed")
Announcing(status) == [type |-> "Announcement", status |-> status]

\* The API port of h1 changes.
StableAnswers ==
    ("h1" :> {FromNode("h1", "a1", "full"), FromNode("h1", "a2", "full")}) @@ ("h2" :> {FromSeed})
\* Each node keeps its ports, and h2 never answers, although it announces itself.
OneAnswer == ("h1" :> {FromNode("h1", "a1", "full")}) @@ ("h2" :> {})
\* A node alone.
FullAnswer == "h1" :> {FromNode("h1", "a1", "full")}
\* The mode of h1 changes.
SwitchingAnswers == ("h1" :> {FromNode("h1", "a1", "full"), FromNode("h1", "a1", "seed")})

OneRequest == {Announcing(FromNode("h1", "a1", "full"))}
FromStranger == {Announcing(FromNode("h2", "a2", "seed")), [type |-> "PeerList"]}

Lookups == "n" :> {"h1"}
TwoLookups == ("n" :> {"h1"}) @@ ("m" :> {})
NoLookups == <<>>

=============================================================================
