-------------------------- MODULE RaftElectionProofs --------------------------
(***************************************************************************)
(* Proof that RaftElection elects two leaders in a term only by a count    *)
(* that comes late, for any finite set of nodes.                           *)
(***************************************************************************)
EXTENDS RaftElection, FiniteSetTheorems, TLAPS

TypeInv ==
  /\ cluster \subseteq Nodes
  /\ state \in [Nodes -> {"follower", "cadidate", "leader"}]
  /\ currentTerm \in [Nodes -> Nat] /\ voteFor \in [Nodes -> Nodes \cup {NoVote}]
  /\ standing \subseteq Attempts /\ votes \in [standing -> SUBSET Nodes]
  /\ calls \subseteq [of : Attempts, to : Nodes, args : Nat]
  /\ granted \subseteq Nat \X Nodes \X Nodes
  /\ elected \subseteq Nat \X Nodes \X Nat

\* A node votes once in a term, and remembers the vote of its current term.
VotesKept ==
  \A t \in Nat, v, c \in Nodes : <<t, v, c>> \in granted =>
    /\ t <= currentTerm[v]
    /\ t = currentTerm[v] => voteFor[v] = c
    /\ \A d \in Nodes : <<t, v, d>> \in granted => d = c

\* A candidate stands in its current term: a newer one makes it a follower.
CandidatesStood ==
  \A n \in Nodes : state[n] = "cadidate" => <<currentTerm[n], n, n>> \in granted

\* A call asks for votes in the term of its attempt or in a later one.
CallsCurrent ==
  /\ \A e \in standing : e[2] <= currentTerm[e[1]]
  /\ \A c \in calls :
       /\ c.of \in standing
       /\ c.args > 0 => c.of[2] <= c.args /\ c.args <= currentTerm[c.of[1]]

\* As long as its node is in the term of an attempt, the attempt's votes are
\* votes in that term.
VotesCurrent ==
  \A e \in standing : currentTerm[e[1]] = e[2] =>
    \A v \in votes[e] : <<e[2], v, e[1]>> \in granted

\* A leader stood in its term, and had a majority in it unless an earlier attempt
\* counted.
Majority(t, n) ==
  \E Q \in SUBSET Nodes :
    Cardinality(Q) >= majority /\ \A v \in Q : <<t, v, n>> \in granted

LeadersStood ==
  \A l \in elected :
    /\ l[3] <= l[1] /\ <<l[1], l[2], l[2]>> \in granted
    /\ l[3] = l[1] => Majority(l[1], l[2])

IInv == /\ TypeInv /\ VotesKept /\ CandidatesStood /\ CallsCurrent /\ VotesCurrent
        /\ LeadersStood

-----------------------------------------------------------------------------
LEMMA MajoritiesMeet ==
  ASSUME NEW P \in SUBSET Nodes, NEW Q \in SUBSET Nodes,
         Cardinality(P) >= majority, Cardinality(Q) >= majority
  PROVE  P \cap Q # {}
<1>1. IsFiniteSet(Nodes) /\ IsFiniteSet(P) /\ IsFiniteSet(Q)
  BY RaftAssumption, FS_Subset
<1>2. Cardinality(Nodes) \in Nat /\ Cardinality(P) \in Nat /\ Cardinality(Q) \in Nat
  BY <1>1, FS_CardinalityType
<1>3. Cardinality(P) + Cardinality(Q) > Cardinality(Nodes)
  BY <1>2 DEF majority
<1> QED
  BY <1>1, <1>3, FS_MajoritiesIntersect

LEMMA QuorumsDecide == IInv => SecondLeaderCountedLate
<1> SUFFICES ASSUME IInv, NEW k \in elected, NEW l \in elected, k[1] = l[1],
                    ~CountedLate(k), ~CountedLate(l)
             PROVE  k[2] = l[2]
  BY DEF SecondLeaderCountedLate
<1>0. /\ k[1] \in Nat /\ k[2] \in Nodes /\ k[3] \in Nat
      /\ l[1] \in Nat /\ l[2] \in Nodes /\ l[3] \in Nat
  BY DEF IInv, TypeInv
<1>1. k[3] = k[1] /\ l[3] = l[1]
  <2>1. <<k[1], k[2], k[2]>> \in stood /\ <<l[1], l[2], l[2]>> \in stood
    BY DEF IInv, LeadersStood, stood
  <2>2. k[3] <= k[1] /\ l[3] <= l[1]
    BY DEF IInv, LeadersStood
  <2> QED
    BY <1>0, <2>1, <2>2 DEF CountedLate
<1>2. PICK P \in SUBSET Nodes :
        Cardinality(P) >= majority /\ \A v \in P : <<k[1], v, k[2]>> \in granted
  BY <1>1 DEF IInv, LeadersStood, Majority
<1>3. PICK Q \in SUBSET Nodes :
        Cardinality(Q) >= majority /\ \A v \in Q : <<l[1], v, l[2]>> \in granted
  BY <1>1 DEF IInv, LeadersStood, Majority
<1>4. PICK v \in Nodes : v \in P /\ v \in Q
  BY <1>2, <1>3, MajoritiesMeet
<1>5. <<k[1], v, k[2]>> \in granted /\ <<k[1], v, l[2]>> \in granted
  BY <1>2, <1>3, <1>4
<1> QED
  BY <1>0, <1>4, <1>5 DEF IInv, VotesKept

LEMMA InitIInv == Init => IInv
BY DEF Init, IInv, TypeInv, VotesKept, CandidatesStood, CallsCurrent, VotesCurrent,
       LeadersStood, standing

\* Votes are never taken back, so what leaders had they keep.
LEMMA LeadersStay ==
  ASSUME LeadersStood, elected' = elected, granted \subseteq granted'
  PROVE  LeadersStood'
BY DEF LeadersStood, Majority, majority

-----------------------------------------------------------------------------
LEMMA AttempElectionIInv ==
  ASSUME IInv, NEW n \in Nodes, AttempElection(n)
  PROVE  IInv'
<1> DEFINE e == <<n, currentTerm[n] + 1>>
<1>0. /\ currentTerm[n] < MaxTerm /\ cluster' = cluster /\ elected' = elected
      /\ state' = [state EXCEPT ![n] = "cadidate"]
      /\ currentTerm' = [currentTerm EXCEPT ![n] = @ + 1]
      /\ voteFor' = [voteFor EXCEPT ![n] = n]
      /\ votes' = [a \in standing \cup {e} |-> IF a = e THEN {n} ELSE votes[a]]
      /\ calls' = calls \cup
           {[of |-> e, to |-> p, args |-> 0] : p \in Nodes \ {n}}
      /\ granted' = granted \cup {<<currentTerm[n] + 1, n, n>>}
  BY DEF AttempElection
<1>1. currentTerm[n] \in Nat /\ currentTerm'[n] = currentTerm[n] + 1
  BY <1>0 DEF IInv, TypeInv
<1>2. standing' = standing \cup {e}
  BY <1>0 DEF standing
<1>3. e \in Attempts
  BY <1>0, <1>1, RaftAssumption DEF Attempts
<1>4. \A c \in calls' : \/ c \in calls
                         \/ \E p \in Nodes : c = [of |-> e, to |-> p, args |-> 0]
  BY <1>0
<1>5. TypeInv'
  <2>1. /\ cluster' \subseteq Nodes
        /\ state' \in [Nodes -> {"follower", "cadidate", "leader"}]
        /\ currentTerm' \in [Nodes -> Nat] /\ voteFor' \in [Nodes -> Nodes \cup {NoVote}]
        /\ granted' \subseteq Nat \X Nodes \X Nodes
        /\ elected' \subseteq Nat \X Nodes \X Nat
    BY <1>0, <1>1 DEF IInv, TypeInv
  <2>2. standing' \subseteq Attempts /\ votes' \in [standing' -> SUBSET Nodes]
    BY <1>0, <1>2, <1>3 DEF IInv, TypeInv
  <2>3. calls' \subseteq [of : Attempts, to : Nodes, args : Nat]
    <3> SUFFICES ASSUME NEW c \in calls', c \notin calls
                 PROVE  c \in [of : Attempts, to : Nodes, args : Nat]
      BY DEF IInv, TypeInv
    <3>1. PICK p \in Nodes : c = [of |-> e, to |-> p, args |-> 0]
      BY <1>4
    <3> HIDE DEF e
    <3> QED
      BY <1>3, <3>1
  <2> QED
    BY <2>1, <2>2, <2>3 DEF TypeInv
<1>6. VotesKept'
  <2> SUFFICES ASSUME NEW t \in Nat, NEW v \in Nodes, NEW c \in Nodes,
                      <<t, v, c>> \in granted'
               PROVE  /\ t <= currentTerm'[v]
                      /\ t = currentTerm'[v] => voteFor'[v] = c
                      /\ \A d \in Nodes : <<t, v, d>> \in granted' => d = c
    BY DEF VotesKept
  <2>2. \A d \in Nodes : <<t, v, d>> \in granted => t <= currentTerm[v]
    BY DEF IInv, VotesKept
  <2>3. CASE v = n
    <3>1. CASE <<t, v, c>> \in granted
      <4>1. t <= currentTerm[n]
        BY <2>2, <2>3, <3>1
      <4> QED
        BY <1>0, <1>1, <2>3, <3>1, <4>1 DEF IInv, VotesKept
    <3>2. CASE <<t, v, c>> \notin granted
      <4>1. t = currentTerm[n] + 1 /\ c = n
        BY <1>0, <3>2
      <4> QED
        BY <1>0, <1>1, <2>2, <2>3, <4>1 DEF IInv, TypeInv
    <3> QED
      BY <3>1, <3>2
  <2>4. CASE v # n
    BY <1>0, <2>4 DEF IInv, TypeInv, VotesKept
  <2> QED
    BY <2>3, <2>4
<1>7. CandidatesStood'
  BY <1>0, <1>1 DEF IInv, TypeInv, CandidatesStood
<1>8. \A m \in Nodes : /\ currentTerm[m] \in Nat /\ currentTerm[m] <= currentTerm'[m]
                       /\ m # n => currentTerm'[m] = currentTerm[m]
  BY <1>0, <1>1 DEF IInv, TypeInv
<1>9. \A a \in standing : a[1] \in Nodes /\ a[2] \in Nat /\ a[2] <= currentTerm[a[1]]
  BY DEF IInv, TypeInv, CallsCurrent, Attempts
<1>10. CallsCurrent'
  <2>1. \A a \in standing' : a[2] <= currentTerm'[a[1]]
    BY <1>1, <1>2, <1>8, <1>9
  <2>2. ASSUME NEW c \in calls'
        PROVE  /\ c.of \in standing'
               /\ c.args > 0 => c.of[2] <= c.args /\ c.args <= currentTerm'[c.of[1]]
    <3>1. CASE c \in calls
      <4>1. /\ c.of \in standing /\ c.args \in Nat
            /\ c.args > 0 => c.of[2] <= c.args /\ c.args <= currentTerm[c.of[1]]
        BY <3>1 DEF IInv, TypeInv, CallsCurrent
      <4>2. currentTerm[c.of[1]] \in Nat /\ currentTerm[c.of[1]] <= currentTerm'[c.of[1]]
        BY <1>8, <1>9, <4>1
      <4>3. currentTerm'[c.of[1]] \in Nat
        BY <1>1, <1>8, <1>9, <4>1
      <4> QED
        BY <1>2, <4>1, <4>2, <4>3
    <3>2. CASE c \notin calls
      BY <1>2, <1>4, <3>2
    <3> QED
      BY <3>1, <3>2
  <2> QED
    BY <2>1, <2>2 DEF CallsCurrent
<1>11. VotesCurrent'
  <2> SUFFICES ASSUME NEW a \in standing', currentTerm'[a[1]] = a[2],
                      NEW v \in votes'[a]
               PROVE  <<a[2], v, a[1]>> \in granted'
    BY DEF VotesCurrent
  <2>1. CASE a = e
    BY <1>0, <1>2, <2>1
  <2>2. CASE a # e
    <3>1. a \in standing /\ v \in votes[a]
      BY <1>0, <1>2, <2>2
    <3>2. a[1] # n
      BY <1>1, <1>9, <3>1
    <3> QED
      BY <1>0, <1>8, <1>9, <3>1, <3>2 DEF IInv, VotesCurrent
  <2> QED
    BY <2>1, <2>2
<1>12. LeadersStood'
  BY <1>0, LeadersStay DEF IInv
<1> QED
  BY <1>5, <1>6, <1>7, <1>10, <1>11, <1>12 DEF IInv

LEMMA OldTermIInv ==
  ASSUME IInv, NEW c \in calls, HandleRequestVote(c), OldTerm(c)
  PROVE  IInv'
BY DEF HandleRequestVote, OldTerm, node, IInv, TypeInv, VotesKept, CandidatesStood,
       CallsCurrent, VotesCurrent, LeadersStood, Majority, standing

LEMMA CurrentTermIInv ==
  ASSUME IInv, NEW c \in calls, HandleRequestVote(c), CurrentTerm(c)
  PROVE  IInv'
<1> DEFINE v == c.to
           f == c.of[1]
           voted == /\ voteFor' = [voteFor EXCEPT ![v] = f]
                    /\ votes' = [votes EXCEPT ![c.of] = @ \cup {v}]
                    /\ granted' = granted \cup {<<c.args, v, f>>}
                    /\ c.args > currentTerm[v] \/ voteFor[v] \in {NoVote, f}
           kept == UNCHANGED <<voteFor, votes, granted>> /\ c.args = currentTerm[v]
<1>0. /\ v \in Nodes /\ c.of \in Attempts /\ f \in Nodes /\ c.of[2] \in Nat
      /\ c.args \in Nat /\ c.args > 0 /\ currentTerm[v] \in Nat
  BY DEF HandleRequestVote, IInv, TypeInv, Attempts
<1>1. /\ calls' = calls \ {c} /\ cluster' = cluster
      /\ elected' = elected /\ c.args >= currentTerm[v]
      /\ currentTerm' = [currentTerm EXCEPT ![v] = c.args]
      /\ state' = IF c.args > currentTerm[v] THEN [state EXCEPT ![v] = "follower"]
                                             ELSE state
      /\ voted \/ kept
  BY DEF HandleRequestVote, CurrentTerm
<1>2. standing' = standing
  BY <1>1 DEF standing, IInv, TypeInv
<1>3. TypeInv'
  <2>1. /\ state' \in [Nodes -> {"follower", "cadidate", "leader"}]
        /\ currentTerm' \in [Nodes -> Nat] /\ calls' \subseteq calls
    BY <1>0, <1>1 DEF IInv, TypeInv
  <2>2. CASE voted
    <3>1. votes' \in [standing -> SUBSET Nodes]
      BY <1>0, <2>2 DEF IInv, TypeInv
    <3> QED
      BY <1>0, <1>1, <1>2, <2>1, <2>2, <3>1 DEF IInv, TypeInv
  <2>3. CASE kept
    BY <1>1, <1>2, <2>1, <2>3 DEF IInv, TypeInv
  <2> QED
    BY <1>1, <2>2, <2>3
<1>4. granted \subseteq granted'
  BY <1>1
<1>5. \A t \in Nat, d \in Nodes : <<t, v, d>> \in granted =>
        /\ t <= c.args
        /\ t = c.args => t = currentTerm[v] /\ voteFor[v] = d
  BY <1>0, <1>1 DEF IInv, VotesKept
<1>6. VotesKept'
  <2> SUFFICES ASSUME NEW t \in Nat, NEW w \in Nodes, NEW x \in Nodes,
                      <<t, w, x>> \in granted'
               PROVE  /\ t <= currentTerm'[w]
                      /\ t = currentTerm'[w] => voteFor'[w] = x
                      /\ \A d \in Nodes : <<t, w, d>> \in granted' => d = x
    BY DEF VotesKept
  <2>1. CASE w # v
    BY <1>0, <1>1, <2>1 DEF IInv, TypeInv, VotesKept
  <2>2. CASE w = v /\ kept
    BY <1>0, <1>1, <2>2 DEF IInv, TypeInv, VotesKept
  <2>3. CASE w = v /\ voted
    <3>1. currentTerm'[v] = c.args /\ voteFor'[v] = f
      BY <1>0, <1>1, <2>3 DEF IInv, TypeInv
    <3>2. \A d \in Nodes : <<c.args, v, d>> \in granted => d = f
      <4> SUFFICES ASSUME NEW d \in Nodes, <<c.args, v, d>> \in granted
                   PROVE  d = f
        OBVIOUS
      <4>1. c.args = currentTerm[v] /\ voteFor[v] = d
        BY <1>0, <1>5
      <4> QED
        BY <1>0, <2>3, <4>1, RaftAssumption
    <3>3. \A d \in Nodes : <<c.args, v, d>> \in granted' => d = f
      BY <2>3, <3>2
    <3>4. CASE t = c.args
      BY <1>0, <2>3, <3>1, <3>3, <3>4
    <3>5. CASE t # c.args
      <4>1. /\ <<t, v, x>> \in granted
            /\ \A d \in Nodes : <<t, v, d>> \in granted' => <<t, v, d>> \in granted
        BY <2>3, <3>5
      <4> QED
        BY <1>5, <2>3, <3>1, <3>5, <4>1 DEF IInv, VotesKept
    <3> QED
      BY <3>4, <3>5
  <2> QED
    BY <1>1, <2>1, <2>2, <2>3
<1>7. \A n \in Nodes : state'[n] = "cadidate" =>
        state[n] = "cadidate" /\ currentTerm'[n] = currentTerm[n]
  BY <1>0, <1>1 DEF IInv, TypeInv
<1>8. CandidatesStood'
  BY <1>4, <1>7 DEF IInv, CandidatesStood
<1>9. \A n \in Nodes : /\ currentTerm[n] \in Nat /\ currentTerm'[n] \in Nat
                       /\ currentTerm[n] <= currentTerm'[n]
  BY <1>0, <1>1 DEF IInv, TypeInv
<1>10. \A a \in standing : a[1] \in Nodes /\ a[2] \in Nat /\ a[2] <= currentTerm[a[1]]
  BY DEF IInv, TypeInv, CallsCurrent, Attempts
<1>11. CallsCurrent'
  <2>1. \A a \in standing' : a[2] <= currentTerm'[a[1]]
    BY <1>2, <1>9, <1>10
  <2>2. ASSUME NEW d \in calls'
        PROVE  /\ d.of \in standing'
               /\ d.args > 0 => d.of[2] <= d.args /\ d.args <= currentTerm'[d.of[1]]
    <3>1. /\ d.of \in standing /\ d.args \in Nat
          /\ d.args > 0 => d.of[2] <= d.args /\ d.args <= currentTerm[d.of[1]]
      BY <1>1 DEF IInv, TypeInv, CallsCurrent
    <3> QED
      BY <1>2, <1>9, <1>10, <3>1
  <2> QED
    BY <2>1, <2>2 DEF CallsCurrent
<1>12. VotesCurrent'
  <2> SUFFICES ASSUME NEW a \in standing, currentTerm'[a[1]] = a[2],
                      NEW w \in votes'[a]
               PROVE  <<a[2], w, a[1]>> \in granted'
    BY <1>2 DEF VotesCurrent
  <2>1. currentTerm[a[1]] = a[2]
    BY <1>9, <1>10
  <2>2. CASE w \in votes[a]
    BY <1>4, <2>1, <2>2 DEF IInv, VotesCurrent
  <2>3. CASE w \notin votes[a]
    <3>1. voted /\ a = c.of /\ w = v
      BY <1>0, <1>1, <2>3 DEF IInv, TypeInv
    <3>2. c.of[2] <= c.args /\ c.args <= currentTerm[f]
      BY <1>0 DEF IInv, CallsCurrent
    <3>3. c.args = a[2]
      BY <1>0, <1>9, <2>1, <3>1, <3>2
    <3> QED
      BY <3>1, <3>3
  <2> QED
    BY <2>2, <2>3
<1>13. LeadersStood'
  BY <1>1, <1>4, LeadersStay DEF IInv
<1> QED
  BY <1>3, <1>6, <1>8, <1>11, <1>12, <1>13 DEF IInv

LEMMA CountVotesIInv ==
  ASSUME IInv, NEW e \in standing, CountVotes(e)
  PROVE  IInv'
<1> DEFINE n == e[1]
           elects == /\ state[n] = "cadidate" /\ Cardinality(votes[e]) >= majority
                     /\ state' = [state EXCEPT ![n] = "leader"]
                     /\ elected' = elected \cup {<<currentTerm[n], n, e[2]>>}
<1>0. /\ \A c \in calls : c.of # e
      /\ votes' = [a \in standing \ {e} |-> votes[a]] /\ cluster' = cluster
      /\ currentTerm' = currentTerm /\ voteFor' = voteFor
      /\ calls' = calls /\ granted' = granted
      /\ UNCHANGED <<state, elected>> \/ elects
  BY DEF CountVotes
<1>1. /\ n \in Nodes /\ e[2] \in Nat /\ currentTerm[n] \in Nat /\ e[2] <= currentTerm[n]
      /\ votes[e] \in SUBSET Nodes
  BY DEF IInv, TypeInv, CallsCurrent, Attempts
<1>2. standing' = standing \ {e}
  BY <1>0 DEF standing
<1>3. TypeInv'
  <2>1. /\ state' \in [Nodes -> {"follower", "cadidate", "leader"}]
        /\ elected' \subseteq Nat \X Nodes \X Nat
    BY <1>0, <1>1 DEF IInv, TypeInv
  <2>2. standing' \subseteq Attempts /\ votes' \in [standing' -> SUBSET Nodes]
    BY <1>0, <1>2 DEF IInv, TypeInv
  <2> QED
    BY <1>0, <2>1, <2>2 DEF IInv, TypeInv
<1>4. VotesKept'
  BY <1>0 DEF IInv, VotesKept
<1>5. CandidatesStood'
  BY <1>0, <1>1 DEF IInv, TypeInv, CandidatesStood
<1>6. CallsCurrent' /\ VotesCurrent'
  BY <1>0, <1>2 DEF IInv, TypeInv, CallsCurrent, VotesCurrent
<1>7. LeadersStood'
  <2>1. CASE UNCHANGED <<state, elected>>
    BY <1>0, <2>1, LeadersStay DEF IInv
  <2>2. CASE elects
    <3>1. <<currentTerm[n], n, n>> \in granted
      BY <1>1, <2>2 DEF IInv, CandidatesStood
    <3>2. e[2] = currentTerm[n] => Majority(currentTerm[n], n)
      BY <1>1, <2>2 DEF IInv, VotesCurrent, Majority
    <3>3. \A t, m : Majority(t, m) => Majority(t, m)'
      BY <1>0 DEF Majority, majority
    <3> SUFFICES ASSUME NEW l \in elected'
                 PROVE  /\ l[3] <= l[1] /\ <<l[1], l[2], l[2]>> \in granted
                        /\ l[3] = l[1] => Majority(l[1], l[2])
      BY <1>0, <3>3 DEF LeadersStood, Majority, majority
    <3>4. CASE l \in elected
      BY <3>4 DEF IInv, LeadersStood
    <3>5. CASE l = <<currentTerm[n], n, e[2]>>
      BY <1>1, <3>1, <3>2, <3>5
    <3> QED
      BY <2>2, <3>4, <3>5
  <2> QED
    BY <1>0, <2>1, <2>2
<1> QED
  BY <1>3, <1>4, <1>5, <1>6, <1>7 DEF IInv

LEMMA CallRequestVoteIInv ==
  ASSUME IInv, NEW c \in calls, CallRequestVote(c)
  PROVE  IInv'
<1>1. /\ UNCHANGED <<cluster, state, currentTerm, voteFor, votes, granted, elected>>
      /\ calls' = (calls \ {c}) \cup {[c EXCEPT !.args = currentTerm[c.of[1]]]}
  BY DEF CallRequestVote, node, history
<1>2. /\ c \in [of : Attempts, to : Nodes, args : Nat]
      /\ c.of \in standing /\ c.of[1] \in Nodes /\ currentTerm[c.of[1]] \in Nat
      /\ c.of[2] <= currentTerm[c.of[1]]
  BY DEF IInv, TypeInv, CallsCurrent, Attempts
<1>3. standing' = standing
  BY <1>1 DEF standing
<1>4. \A d \in calls' : \/ d \in calls
                        \/ /\ d.of = c.of /\ d.args = currentTerm[c.of[1]]
                           /\ d \in [of : Attempts, to : Nodes, args : Nat]
  BY <1>1, <1>2
<1>5. TypeInv'
  BY <1>1, <1>3, <1>4 DEF IInv, TypeInv
<1>6. CallsCurrent'
  BY <1>1, <1>2, <1>3, <1>4 DEF IInv, CallsCurrent
<1>7. VotesKept' /\ CandidatesStood' /\ VotesCurrent'
  BY <1>1, <1>3 DEF IInv, VotesKept, CandidatesStood, VotesCurrent
<1>8. LeadersStood'
  BY <1>1, LeadersStay DEF IInv
<1> QED
  BY <1>5, <1>6, <1>7, <1>8 DEF IInv

LEMMA NextIInv == IInv /\ [Next]_vars => IInv'
<1> SUFFICES ASSUME IInv, [Next]_vars PROVE IInv'
  OBVIOUS
<1> USE DEF IInv, TypeInv, VotesKept, CandidatesStood, CallsCurrent, VotesCurrent,
            LeadersStood, Majority, standing
<1>1. ASSUME NEW n \in Nodes, NewRaft(n) PROVE IInv'
  BY <1>1 DEF NewRaft, node, election, history
<1>2. ASSUME NEW c \in calls, NotRegistered(c) PROVE IInv'
  BY <1>2 DEF NotRegistered, node, history
<1>3. CASE UNCHANGED vars
  BY <1>3 DEF vars, node, election, history
<1>4. ASSUME NEW c \in calls, HandleRequestVote(c) PROVE IInv'
  BY <1>4, OldTermIInv, CurrentTermIInv DEF HandleRequestVote
<1> QED
  BY <1>1, <1>2, <1>3, <1>4, CallRequestVoteIInv, AttempElectionIInv, CountVotesIInv
     DEF Next

\* Two nodes become leader in one term only if one of them has stood in it while
\* an earlier attempt of it still waited, and counted that attempt's votes: for
\* any finite cluster, any number of attempts and any overlap of them
\* (raft/main.go:75).
THEOREM TimelyLeaderIsUnique == Spec => []SecondLeaderCountedLate
<1> QED
  BY InitIInv, NextIInv, QuorumsDecide, PTL DEF Spec
=============================================================================
