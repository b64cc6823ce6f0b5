------------------------------ MODULE FlowWalk ------------------------------
(***************************************************************************)
(* One execution of a Flow workflow: the walk of its graph from the        *)
(* trigger by execute_node_chain (services/flow_executor_service.py), over *)
(* every graph the strict validation lets through                          *)
(* (services/flow_workflow_validator.py) on the nodes 1 .. N.              *)
(*                                                                         *)
(* What a node asks of the broker is one of its outcomes: an order or a    *)
(* data node returns no condition, a condition node is true, false or an   *)
(* error, and any of them may raise.  The edges of a node are followed in  *)
(* any order.  The names of the specification begin with Walk, for modules *)
(* that extend this one beside FlowTriggers, which asks for the execution. *)
(***************************************************************************)
EXTENDS Naturals, Sequences, FiniteSets

CONSTANTS
    N,         \* nodes of a graph
    Kinds,     \* kinds of nodes
    MaxEdges,  \* edges of a graph
    MaxDepth,  \* MAX_NODE_DEPTH
    MaxVisits  \* MAX_NODE_VISITS

Gate == {"andGate", "orGate", "notGate"}
Checks == {"condition", "fundCheck"}  \* fundCheck: saved with a legacy operator
Branching == Gate \cup Checks

ASSUME WalkAssumption ==
    /\ N \in Nat \ {0} /\ MaxEdges \in Nat /\ MaxDepth \in Nat /\ MaxVisits \in Nat
    /\ Kinds \subseteq Branching \cup {"action"}

VARIABLES
    kind,   \* of each node
    edges,  \* of the graph: from, to, and the branch of a condition
    stack,  \* of each call under way, the edges it has still to follow
    result, \* context.condition_results
    ran,    \* how often each node was executed
    had,    \* what each condition came out as, and the gates that had to wait
    visits, \* the sum of visited_count
    status  \* of the execution record

graph == <<kind, edges>>
walkVars == <<graph, stack, result, ran, had, visits, status>>

Node == 1 .. N
Pair == {p \in Node \X Node : p[1] < p[2]}  \* acyclic, in a topological order
Wire == {"none", "", "true", "false"}

In(n) == {e \in edges : e.to = n}
Out(n) == {e \in edges : e.from = n}

\* validate_workflow: one trigger, acyclic, all nodes reachable, branch
\* handles on branching nodes only.
Valid(k, wires) ==
    /\ k[1] \in {"action", "condition"}
    /\ \A p \in Pair : wires[p] \in {"true", "false"} => k[p[1]] \in Branching
    /\ \A n \in Node \ {1} : \E p \in Pair : p[2] = n /\ wires[p] # "none"

WalkInit ==
    /\ kind \in [Node -> Kinds]
    /\ \E wires \in [Pair -> Wire] :
          /\ Valid(kind, wires)
          /\ edges = {[from |-> p[1], to |-> p[2], handle |-> wires[p]] :
                         p \in {p \in Pair : wires[p] # "none"}}
          /\ Cardinality(edges) <= MaxEdges
    /\ stack = << {[from |-> 0, to |-> 1, handle |-> ""]} >>
    /\ result = [n \in Node |-> "none"]
    /\ ran = [n \in Node |-> 0]
    /\ had = [n \in Node |-> {}]
    /\ visits = 0
    /\ status = "running"

Top == stack[Len(stack)]
Depth == Len(stack) - 1

\* The calls that have no more edges to follow return.
Unwound(s) ==
    LET open == {i \in 1 .. Len(s) : s[i] # {}}
    IN SubSeq(s, 1, IF open = {} THEN 0 ELSE CHOOSE i \in open : \A j \in open : j <= i)

\* The call of node e.to: its edges still to follow are fs.
Call(e, fs) ==
    /\ stack' = Unwound([stack EXCEPT ![Len(stack)] = @ \ {e}] \o << fs >>)
    /\ status' = IF stack' = << >> THEN "completed" ELSE "running"

\* slip: a condition that could not be evaluated counts as false
FollowedFalse(n, outcome) ==
    CASE outcome \in {"true", "false"} -> {e \in Out(n) : e.handle \in {"", outcome}}
      [] outcome = "error" -> {e \in Out(n) : e.handle \in {"", "false"}}
      [] OTHER -> Out(n)

\* slip: a condition that could not be evaluated ends its branch of the walk
FollowedNone(n, outcome) ==
    CASE outcome \in {"true", "false"} -> {e \in Out(n) : e.handle \in {"", outcome}}
      [] outcome = "error" -> {}
      [] OTHER -> Out(n)

\* Without a condition in the result no edge is filtered.
Followed(n, outcome) ==
    CASE outcome \in {"true", "false"} -> {e \in Out(n) : e.handle \in {"", outcome}}
      [] outcome = "error" -> {e \in Out(n) : e.handle = ""}
      [] OTHER -> Out(n)

\* Node n is executed with an outcome; an error is stored as false.
NodeRuns(e, outcome) ==
    LET n == e.to IN
    /\ ran' = [ran EXCEPT ![n] = @ + 1]
    /\ result' = IF outcome = "none" THEN result
                 ELSE [result EXCEPT ![n] = IF outcome = "error" THEN "false" ELSE outcome]
    /\ had' = [had EXCEPT ![n] = @ \cup ({outcome} \ {"none"})]
    /\ Call(e, Followed(n, outcome))

Visit(e) ==
    /\ status = "running" /\ e \in Top
    /\ Depth <= MaxDepth /\ visits < MaxVisits
    /\ visits' = visits + 1
    /\ UNCHANGED graph

RunAction(e) ==
    /\ Visit(e) /\ kind[e.to] = "action"
    /\ NodeRuns(e, "none")

\* execute_fund_check refuses a legacy less-than: an error without a condition.
Outcome(k) == IF k = "fundCheck" THEN {"none"} ELSE {"true", "false", "error"}

RunCheck(e) ==
    /\ Visit(e) /\ kind[e.to] \in Checks
    /\ \E outcome \in Outcome(kind[e.to]) : NodeRuns(e, outcome)

\* What the gate may come out as; a NOT takes the first of its edges.
Combined(g) ==
    LET ins == {result[e.from] : e \in In(g)} IN
    CASE kind[g] = "andGate" -> {IF ins = {"true"} THEN "true" ELSE "false"}
      [] kind[g] = "orGate" -> {IF "true" \in ins THEN "true" ELSE "false"}
      [] kind[g] = "notGate" -> {IF v = "true" THEN "false" ELSE "true" : v \in ins}

Waits(g) == \E e \in In(g) : result[e.from] = "none"

\* slip: a gate that has fired fires again
EvaluateAgain(e) ==
    /\ Visit(e) /\ kind[e.to] \in Gate
    /\ ~Waits(e.to)
    /\ \E v \in Combined(e.to) : NodeRuns(e, v)

Evaluate(e) ==
    /\ Visit(e) /\ kind[e.to] \in Gate
    /\ result[e.to] = "none" /\ ~Waits(e.to)
    /\ \E v \in Combined(e.to) : NodeRuns(e, v)

\* A gate that has fired or still waits returns without following its edges.
SkipGate(e) ==
    /\ Visit(e) /\ kind[e.to] \in Gate
    /\ result[e.to] # "none" \/ Waits(e.to)
    /\ Call(e, {})
    /\ had' = [had EXCEPT ![e.to] = IF Waits(e.to) THEN @ \cup {"waits"} ELSE @]
    /\ UNCHANGED <<result, ran>>

\* A limit is exceeded, or a node raises: the rest of the walk is given up.
Fail ==
    /\ status = "running"
    /\ status' = "failed"
    /\ UNCHANGED <<graph, stack, result, ran, had, visits>>

Walk(e) == RunAction(e) \/ RunCheck(e) \/ Evaluate(e) \/ SkipGate(e)

WalkNext == (status = "running" /\ \E e \in Top : Walk(e)) \/ Fail

WalkSpec == WalkInit /\ [][WalkNext]_walkVars

-----------------------------------------------------------------------------
\* Types of the walk's state.
WalkTypeOK ==
    /\ kind \in [Node -> Kinds]
    /\ \A e \in edges : e.from \in Node /\ e.to \in Node /\ e.handle \in Wire \ {"none"}
    /\ \A i \in 1 .. Len(stack) : stack[i] \subseteq edges \cup {[from |-> 0, to |-> 1, handle |-> ""]}
    /\ Len(stack) <= MaxDepth + 2
    /\ result \in [Node -> {"none", "true", "false"}]
    /\ ran \in [Node -> Nat]
    /\ \A n \in Node : had[n] \subseteq {"true", "false", "error", "waits"}
    /\ visits \in 0 .. MaxVisits
    /\ status \in {"running", "completed", "failed"}

\* A gate that several paths reach is evaluated once in a run, so what is
\* downstream of it is not ordered twice by one signal.
GateFiresOnce ==
    /\ WalkTypeOK
    /\ \A g \in Node : kind[g] \in Gate => ran[g] <= 1

\* Through any nesting of conditions, gates and joins, a node is executed
\* only along an edge whose condition came out that way; a condition that
\* could not be evaluated opens neither branch.
BranchesAreDecided ==
    \A n \in Node \ {1} : ran[n] > 0 =>
        \E e \in In(n) : ran[e.from] > 0 /\ (e.handle # "" => e.handle \in had[e.from])

\* "Skipping here is safe because the later input's own traversal reaches
\* this gate again" (flow_executor_service.py), when the inputs are wired
\* without a branch: a completed run leaves no such gate unevaluated that has
\* a result for each of its inputs, errors included.
GateReached ==
    status = "completed" =>
        \A g \in Node :
            kind[g] \in Gate /\ ~Waits(g) /\ (\A e \in In(g) : e.handle = "") => ran[g] > 0

\* The same of every gate that has been skipped while it waited, as the
\* comment has it.
SkippedIsReached ==
    status = "completed" =>
        \A g \in Node : "waits" \in had[g] /\ ~Waits(g) => ran[g] > 0

=============================================================================
