----------------------- MODULE GalhoDependencySearch -----------------------
(***************************************************************************)
(* The depth-first search of detect_dep_cycle as the code runs it, to be   *)
(* compared with WouldCycle, the definition by closed sets that Create of  *)
(* GalhoRuntime uses.                                                      *)
(***************************************************************************)
EXTENDS GalhoRuntime

\* What is left to do at one context: the dependencies it has yet to follow, and the names
\* that have been visited.
Jobs == (SUBSET Galhos) \X (SUBSET Galhos)

\* dfs_finds_cycle, entered at the name current: a name is followed once, and only if it has
\* a context.  among is the loop over the dependencies of that context.
Entered(among, current, visited) ==
  IF current \in visited \/ phase[current] = "Absent"
  THEN [found |-> FALSE, visited |-> visited \cup {current}]
  ELSE among[<<dependsOn[current], visited \cup {current}>>]

\* One turn of that loop: it ends at the target, and what one dependency visited, the next
\* one does not visit again.
Turn(target, among, deps, visited) ==
  IF deps = {} THEN [found |-> FALSE, visited |-> visited]
  ELSE LET next == CHOOSE d \in deps : TRUE
           sub  == Entered(among, next, visited)
       IN  IF next = target \/ sub.found
           THEN [found |-> TRUE, visited |-> sub.visited]
           ELSE among[<<deps \ {next}, sub.visited>>]

FindsAmong(target) ==
  LET among[job \in Jobs] == Turn(target, among, job[1], job[2])
  IN  among

FindsCycle(target, current) == Entered(FindsAmong(target), current, {}).found

\* Faulty variant: a galho that depends on itself is not looked for.
CycleDetectedElsewhere(n, D) == \E d \in D : FindsCycle(n, d)

\* detect_dep_cycle.  The names one search has visited are forgotten before the next.
CycleDetected(n, D) == n \in D \/ \E d \in D : FindsCycle(n, d)

\* Pruning by visited names and giving up at names with no context lose no cycle and
\* invent none: the search agrees with reachability for every galho that could be
\* created next, whatever has been created before.
SearchAgrees ==
  \A n \in Galhos \ Known : \A D \in SUBSET Galhos :
    CycleDetected(n, D) <=> WouldCycle(n, D)
=============================================================================
