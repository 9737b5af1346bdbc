------------------------------- MODULE MCAdminAPI ------------------------------
(* Values of the constants of AdminAPI for TLC.                            *)
EXTENDS AdminAPI

MCUrl(site, path, upper) ==
    [scheme |-> "https", site |-> site, authority |-> FALSE, path |-> path,
     id |-> "p", upper |-> upper]

MCChannel(at) == [name |-> "news", at |-> at]
MCBody(channels, urls, range, limit) ==
    [channels |-> channels, urls |-> urls, range |-> range, limit |-> limit]

\* Two spellings of one problem with a channel; two sites.
MCMixed == MCBody(<<MCChannel(FALSE)>>, <<MCUrl("codeforces", "problemset", FALSE),
                                         MCUrl("codeforces", "contest", TRUE)>>, "ordered", 0)
MCSites == MCBody(<<>>, <<MCUrl("leetcode", "description", FALSE),
                          MCUrl("coderun", "problem", FALSE)>>, "none", 2)

\* A channel listed twice.
MCTwice == MCBody(<<MCChannel(TRUE), MCChannel(FALSE)>>, <<>>, "ordered", 1)

\* A channel without a range; nothing at all; a path of another site; too great
\* a limit.
MCInvalid ==
    {MCBody(<<MCChannel(TRUE)>>, <<>>, "none", 0),
     MCBody(<<>>, <<>>, "none", 1),
     MCBody(<<>>, <<MCUrl("leetcode", "contest", FALSE)>>, "none", 1),
     MCBody(<<>>, <<MCUrl("coderun", "problem", TRUE)>>, "none", MaxItems + 1)}

\* The first client sends any body as actor 1 with key 1; the second is the
\* same actor or not, and has the same key or not.
MCWishes ==
    {w \in [Clients -> [actor: Actors, key: 1..2,
                        input: MCInvalid \union {MCMixed, MCSites, MCTwice}]] :
        w[1].actor = 1 /\ w[1].key = 1 /\ w[2].input = MCSites}
==============================================================================
