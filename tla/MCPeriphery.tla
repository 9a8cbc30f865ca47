---------------------------- MODULE MCPeriphery ----------------------------
EXTENDS Periphery, TLC

CONSTANTS a1, a2, b1

\* The proportions of jobs.py and seed_sources.py: hn asks for several intervals,
\* producthunt for one; a review site's fetch reads more than one page.
MCInterval ==
    [hn |-> 2, producthunt |-> 3, reddit |-> 2, indiehackers |-> 3, review_sites |-> 3]
MCWindow ==
    [hn |-> 6, producthunt |-> 3, reddit |-> 0, indiehackers |-> 0, review_sites |-> 0]
MCPageSize ==
    [hn |-> 1, producthunt |-> 1, reddit |-> 1, indiehackers |-> 1, review_sites |-> 1]
MCMaxPages ==
    [hn |-> 1, producthunt |-> 1, reddit |-> 1, indiehackers |-> 1, review_sites |-> 2]

\* One post more than the pages hold.
MCMaxPosts ==
    [hn |-> 2, producthunt |-> 2, reddit |-> 2, indiehackers |-> 2, review_sites |-> 3]

\* Two reviews of product A and one of B.  One file is as exported, one repeats a
\* review and has a bad row between.
MCProduct == (a1 :> "A") @@ (a2 :> "A") @@ (b1 :> "B")
MCFiles == {<<a1, b1, a2>>, <<a1, Invalid, a1>>}

\* A source per product, or --source-name with a name that seed_sources also uses.
MCNamings == {[k \in {"A", "B"} |-> k], [k \in {"A", "B"} |-> "s1"]}
MCSeedNames == <<"s1", "s2">>
=============================================================================
