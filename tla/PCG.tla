--------------------------------- MODULE PCG ---------------------------------
(***************************************************************************)
(* The procedure creation graph (lib/MTA/PCG.cpp, include/MTA/PCG.h): the  *)
(* coarse answer to which functions may run in parallel, from the call     *)
(* graph alone.  A spawner may return while a thread it created runs, a    *)
(* spawnee may run in such a thread, a follower may be called after a      *)
(* spawner has returned.                                                   *)
(***************************************************************************)
EXTENDS ThreadProgram

VARIABLE pcg   \* the three sets of functions

\* The functions of S and those that lead to them, or that they lead to, by calls.
WithCallers(S) == S \cup {e[1] : e \in {d \in PathsOf(EdgesOf({"call"})) : d[2] \in S}}
WithCallees(S) == S \cup {e[2] : e \in {d \in PathsOf(EdgesOf({"call"})) : d[1] \in S}}

\* initFromThreadAPI and collectSpawners
Spawners == WithCallers({FunOf(s) : s \in Sites({"fork"})})

\* initFromThreadAPI and collectSpawnees
Spawnees == WithCallees({Callee(s) : s \in Sites({"fork"})})

\* The forks, and the calls of spawners.
SpawnSites == Sites({"fork"}) \cup {s \in Sites({"call"}) : Callee(s) \in Spawners}

\* The statements of the block of a site and of those it leads to.
BlocksAfter(site) ==
    ReachedFrom(BlockOf(site), [s \in StmtsOf(FunOf(site)) |-> Succs(s)])

\* Mutant of IdentifiedFollowers: only what is in the block of the spawn site.
FollowersInBlock ==
    {Callee(s) : s \in Sites({"call"}) \cap UNION {BlockOf(site) : site \in SpawnSites}}

\* identifyFollowers: a spawn site makes its callee no follower.
IdentifiedFollowers ==
    {Callee(s) : s \in (Sites({"call"}) \ SpawnSites)
                        \cap UNION {BlocksAfter(site) : site \in SpawnSites}}

\* collectFollowers
Followers == WithCallees(IdentifiedFollowers)

PCGInit == pcg = [spawners |-> {}, spawnees |-> {}, followers |-> {}]

\* analyze
InferFromCallGraph ==
    /\ stage = "pcg"
    /\ stage' = "done"
    /\ pcg' = [spawners |-> Spawners, spawnees |-> Spawnees, followers |-> Followers]
    /\ UNCHANGED <<prog, code, callPaths>>

mayHappenInParallelBetweenFunctions(f, g) ==
    /\ f \in pcg.spawnees \/ g \in pcg.spawnees
    /\ {f, g} \subseteq pcg.spawners \cup pcg.spawnees \cup pcg.followers
=============================================================================
