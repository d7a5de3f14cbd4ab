----------------------------- MODULE RaftElection -----------------------------
(***************************************************************************)
(* The leader election of the study program golang/raft: nodes of one      *)
(* process that ask each other for votes by direct calls, one goroutine    *)
(* per peer.  CallRequestVote reads the term anew, after AttempElection    *)
(* has given up the lock, so that a call can ask for votes in a term its   *)
(* node does not stand for.                                                *)
(*                                                                         *)
(* main lets node 1 stand once; here every node may, again and again, also *)
(* while an earlier AttempElection of it still waits.  votes and term are  *)
(* local to each call of it, and term names the call: the lock makes every *)
(* one of a node's calls take a term of its own.                           *)
(***************************************************************************)
EXTENDS Naturals, FiniteSets

CONSTANTS
  Nodes,         \* peers
  NoVote,        \* -1
  MaxTerm,       \* bound: no node stands beyond it
  MaxAttempts    \* bound: how often nodes stand, together

ASSUME RaftAssumption ==
  /\ IsFiniteSet(Nodes) /\ NoVote \notin Nodes
  /\ MaxTerm \in Nat /\ MaxAttempts \in Nat

VARIABLES
  cluster,       \* registered nodes
  state, currentTerm, voteFor,
  votes,         \* of each attempt that waits for its calls: who voted for it
  calls,         \* CallRequestVote goroutines: [of, to, args], args 0: not read
  granted,       \* history: <<term, voter, candidate>> of every vote there was
  elected        \* history: <<term, node, term of the attempt that counted>>

node     == <<state, currentTerm, voteFor>>
election == <<votes, calls>>
history  == <<granted, elected>>
vars     == <<cluster, node, election, history>>

majority == Cardinality(Nodes) \div 2 + 1

\* A call of AttempElection: its node and its local term.
Attempts == Nodes \X (1..MaxTerm)
standing == DOMAIN votes                        \* the attempts that wait
stood    == {g \in granted : g[2] = g[3]}       \* own votes: the attempts so far

-----------------------------------------------------------------------------
Init ==
  /\ cluster = {}
  /\ state = [n \in Nodes |-> "follower"]
  /\ currentTerm = [n \in Nodes |-> 0] /\ voteFor = [n \in Nodes |-> NoVote]
  /\ votes = [e \in {} |-> {}] /\ calls = {}
  /\ granted = {} /\ elected = {}

NewRaft(n) ==
  /\ n \notin cluster /\ cluster' = cluster \cup {n}
  /\ UNCHANGED <<node, election, history>>

\* AttempElection up to wg.Wait; nothing asks whether another one waits.
AttempElection(n) ==
  LET e == <<n, currentTerm[n] + 1>> IN
  /\ n \in cluster /\ currentTerm[n] < MaxTerm /\ Cardinality(stood) < MaxAttempts
  /\ state' = [state EXCEPT ![n] = "cadidate"]
  /\ currentTerm' = [currentTerm EXCEPT ![n] = @ + 1]
  /\ voteFor' = [voteFor EXCEPT ![n] = n]
  /\ votes' = [a \in standing \cup {e} |-> IF a = e THEN {n} ELSE votes[a]]
  /\ calls' = calls \cup {[of |-> e, to |-> p, args |-> 0] : p \in Nodes \ {n}}
  /\ granted' = granted \cup {<<e[2], n, n>>}
  /\ UNCHANGED <<cluster, elected>>

\* CallRequestVote takes the lock again for the term of its arguments.
CallRequestVote(c) ==
  /\ c.args = 0
  /\ calls' = (calls \ {c}) \cup {[c EXCEPT !.args = currentTerm[c.of[1]]]}
  /\ UNCHANGED <<cluster, node, votes, history>>

NotRegistered(c) ==      \* sendRequestVote returns false
  /\ c.args > 0 /\ c.to \notin cluster /\ calls' = calls \ {c}
  /\ UNCHANGED <<cluster, node, votes, history>>

OldTerm(c) ==
  /\ c.args < currentTerm[c.to] /\ UNCHANGED <<node, votes, granted>>

\* Mutant: the node does not look whom it voted for in this term.
CurrentTermUnchecked(c) ==
  /\ c.args >= currentTerm[c.to]
  /\ currentTerm' = [currentTerm EXCEPT ![c.to] = c.args]
  /\ state' = IF c.args > currentTerm[c.to] THEN [state EXCEPT ![c.to] = "follower"]
                                            ELSE state
  /\ voteFor' = [voteFor EXCEPT ![c.to] = c.of[1]]
  /\ votes' = [votes EXCEPT ![c.of] = @ \cup {c.to}]
  /\ granted' = granted \cup {<<c.args, c.to, c.of[1]>>}

\* A newer term makes the node a follower without a vote; then the first who
\* asks gets it.
CurrentTerm(c) ==
  /\ c.args >= currentTerm[c.to]
  /\ currentTerm' = [currentTerm EXCEPT ![c.to] = c.args]
  /\ state' = IF c.args > currentTerm[c.to] THEN [state EXCEPT ![c.to] = "follower"]
                                            ELSE state
  /\ \/ /\ c.args > currentTerm[c.to] \/ voteFor[c.to] \in {NoVote, c.of[1]}
        /\ voteFor' = [voteFor EXCEPT ![c.to] = c.of[1]]
        /\ votes' = [votes EXCEPT ![c.of] = @ \cup {c.to}]
        /\ granted' = granted \cup {<<c.args, c.to, c.of[1]>>}
     \/ /\ c.args = currentTerm[c.to] /\ voteFor[c.to] \notin {NoVote, c.of[1]}
        /\ UNCHANGED <<voteFor, votes, granted>>

\* The peer handles the request and the goroutine counts the answer.
HandleRequestVote(c) ==
  /\ c.args > 0 /\ c.to \in cluster /\ calls' = calls \ {c}
  /\ OldTerm(c) \/ CurrentTerm(c)
  /\ UNCHANGED <<cluster, elected>>

\* AttempElection after wg.Wait: the attempt counts its own votes, but against
\* the state and the term its node has by now.
CountVotes(e) ==
  LET n == e[1] IN
  /\ \A c \in calls : c.of # e
  /\ \/ /\ state[n] = "cadidate" /\ Cardinality(votes[e]) >= majority
        /\ state' = [state EXCEPT ![n] = "leader"]
        /\ elected' = elected \cup {<<currentTerm[n], n, e[2]>>}
     \/ /\ ~(state[n] = "cadidate" /\ Cardinality(votes[e]) >= majority)
        /\ UNCHANGED <<state, elected>>
  /\ votes' = [a \in standing \ {e} |-> votes[a]]
  /\ UNCHANGED <<cluster, currentTerm, voteFor, calls, granted>>

Next ==
  \/ \E n \in Nodes : NewRaft(n) \/ AttempElection(n)
  \/ \E e \in standing : CountVotes(e)
  \/ \E c \in calls : CallRequestVote(c) \/ NotRegistered(c) \/ HandleRequestVote(c)

Spec == Init /\ [][Next]_vars

-----------------------------------------------------------------------------
\* A leader of a term by votes of an earlier attempt: its node has stood in
\* the term as well, while that attempt waited.
CountedLate(l) == l[3] < l[1] /\ <<l[1], l[2], l[2]>> \in stood

\* Two nodes become leader in one term only if one of them has stood in it while
\* an earlier attempt of it still waited, and the earlier attempt has made it
\* leader: the code compares the state, but not its term, when it counts
\* (raft/main.go:75).  Without such a count no two nodes lead a term, although
\* votes arrive late, are asked for in a term that may have moved on and are
\* given to whoever asks first.
SecondLeaderCountedLate ==
  \A k, l \in elected :
    k[1] = l[1] /\ k[2] # l[2] => CountedLate(k) \/ CountedLate(l)
=============================================================================
