------------------------- MODULE SlackChannelProofs -------------------------
(***************************************************************************)
(* Safety of SlackChannel for every number of posts, passes, sweeps, socket*)
(* loops, faults and restarts.                                             *)
(***************************************************************************)
EXTENDS SlackChannel, WellFoundedInduction, FiniteSetTheorems, TLAPS

\* A non-empty set of naturals below a bound has a greatest element, and Max
\* finds it.
LEMMA MaxFact ==
    ASSUME NEW N \in Nat, NEW S \in SUBSET (0..N), S # {}
    PROVE  Max(S) \in S /\ \A y \in S : y <= Max(S)
<1> DEFINE U == {n \in Nat : \A x \in S : x <= n}
<1>1. N \in U
  OBVIOUS
<1>2. PICK u \in U : \A n \in U : u <= n
  <2> DEFINE R == {ss \in Nat \X Nat : ss[1] < ss[2]}
  <2>1. U # {} /\ U \subseteq Nat
    BY <1>1
  <2>2. IsWellFoundedOn(R, Nat)
    BY NatLessThanWellFounded DEF OpToRel
  <2> HIDE DEF U, R
  <2>3. PICK u \in U : \A n \in U : ~(<<n, u>> \in R)
    BY <2>1, <2>2, WFMin
  <2>4. ASSUME NEW n \in U PROVE u <= n
    <3>1. n \in Nat /\ u \in Nat
      BY <2>1
    <3>2. n < u => <<n, u>> \in R
      BY <3>1 DEF R
    <3>3. QED
      BY <2>3, <3>1, <3>2
  <2>5. QED
    BY <2>4
<1>3. u \in S
  <2>1. SUFFICES ASSUME u \notin S PROVE FALSE
    OBVIOUS
  <2>2. PICK x \in S : TRUE
    OBVIOUS
  <2>3. u # 0
    BY <2>1, <2>2
  <2>4. u - 1 \in U
    BY <2>1, <2>3
  <2>5. QED
    BY <1>2, <2>4
<1>4. \E x \in S : \A y \in S : x >= y
  BY <1>3
<1>5. QED
  BY <1>4 DEF Max

LEMMA GreatestFact ==
    ASSUME NEW N \in Nat, NEW S \in SUBSET (0..N), NEW n \in 0..N
    PROVE  /\ Greatest(S, n) \in S \cup {n} /\ Greatest(S, n) \in 0..N
           /\ n <= Greatest(S, n) /\ \A m \in S : m <= Greatest(S, n)
<1>1. S \cup {n} \in SUBSET (0..N) /\ S \cup {n} # {}
  OBVIOUS
<1>2. Max(S \cup {n}) \in S \cup {n} /\ \A m \in S \cup {n} : m <= Max(S \cup {n})
  BY <1>1, MaxFact
<1>3. QED
  BY <1>1, <1>2 DEF Greatest

-----------------------------------------------------------------------------
(***************************************************************************)
(* Types of what the inbound side reads and writes.                        *)
(***************************************************************************)
CursorFile == [conv : 0..MaxPosts, threads : [1..MaxPosts -> 0..MaxPosts]]

ActivePass ==
    [pc : {"history", "messages", "replies", "saving"}, cur : CursorFile, latest : 0..MaxPosts,
     threads : SUBSET (1..MaxPosts), batch : SUBSET (1..MaxPosts), took : SUBSET (1..MaxPosts)]

\* How often post m was enqueued.
Times(m) == Len(copies[m])

Typed ==
    /\ parent \in Seq(0..MaxPosts) /\ \A m \in Posts : parent[m] < m
    /\ left \in Budgets /\ Len(parent) + left.posts <= MaxPosts
    /\ copies \in Seq(Seq(Stages)) /\ Len(copies) = Len(parent)
    /\ artifacts \subseteq 1..MaxPosts
    /\ cursor \in CursorFile
    /\ pass \in [Passers -> ActivePass \cup {NoPass}]
    /\ delivered \subseteq Posts
    /\ raced \subseteq Posts /\ \A m \in raced : parent[m] = 0
    /\ buffer \in [Loops -> Seq(1..MaxPosts)]
    /\ \A i \in Loops : \A n \in 1..Len(buffer[i]) : buffer[i][n] \in delivered

\* Every pass is the record of one under way, or idle.
LEMMA PassCases ==
    ASSUME Typed, NEW p \in Passers
    PROVE  /\ Active(p) => pass[p] \in ActivePass /\ pass[p].pc \in {"history", "messages", "replies", "saving"}
           /\ pass[p] \in ActivePass => Active(p)
           /\ ~Active(p) => pass[p] = NoPass
<1>1. pass[p] \in ActivePass \/ pass[p] = NoPass
  BY DEF Typed
<1>2. NoPass.pc = "idle"
  BY DEF NoPass
<1>3. pass[p] \in ActivePass => pass[p].pc \in {"history", "messages", "replies", "saving"}
  BY DEF ActivePass
<1>4. QED
  BY <1>1, <1>2, <1>3 DEF Active

LEMMA PostsType == Typed => Posts \subseteq 1..MaxPosts /\ Len(parent) \in 0..MaxPosts /\ MaxPosts \in Nat
<1>1. SUFFICES ASSUME Typed PROVE Posts \subseteq 1..MaxPosts /\ Len(parent) \in 0..MaxPosts /\ MaxPosts \in Nat
  OBVIOUS
<1>2. Len(parent) \in Nat /\ left.posts \in Nat /\ MaxPosts \in Nat
  BY <1>1, ConstantsOK DEF Typed, Budgets
<1>3. QED
  BY <1>1, <1>2 DEF Typed, Posts

LEMMA ElementFact ==
    ASSUME NEW S, NEW q \in Seq(S), NEW n \in 1..Len(q)
    PROVE  q[n] \in S
OBVIOUS

LEMMA TailFact ==
    ASSUME NEW S, NEW q \in Seq(S), q # <<>>
    PROVE  /\ Tail(q) \in Seq(S) /\ Len(q) \in Nat \ {0} /\ Len(Tail(q)) = Len(q) - 1
           /\ \A n \in 1..Len(Tail(q)) : Tail(q)[n] = q[n + 1]
           /\ Head(q) = q[1]
<1>1. Len(q) \in Nat \ {0}
  OBVIOUS
<1>2. Tail(q) \in Seq(S) /\ Len(Tail(q)) = Len(q) - 1
  OBVIOUS
<1>3. \A n \in 1..Len(Tail(q)) : Tail(q)[n] = q[n + 1]
  BY <1>1, <1>2
<1>4. QED
  BY <1>1, <1>2, <1>3

LEMMA ParentType ==
    ASSUME Typed, NEW m \in Posts
    PROVE  /\ m \in 1..MaxPosts /\ parent[m] \in 0..MaxPosts /\ parent[m] < m
           /\ parent[m] # 0 => parent[m] \in 1..MaxPosts
<1>1. parent \in Seq(0..MaxPosts) /\ m \in 1..Len(parent) /\ parent[m] < m
  BY DEF Typed, Posts
<1>2. parent[m] \in 0..MaxPosts
  BY <1>1, ElementFact
<1>3. QED
  BY <1>1, <1>2, PostsType

LEMMA SpendKeepsPosts ==
    ASSUME Typed, NEW what \in {"passes", "sweeps", "faults", "starts", "commands"}, Spend(what)
    PROVE  left' \in Budgets /\ left'.posts = left.posts
<1>0. left \in Budgets
  BY DEF Typed
<1>1. QED
  BY <1>0 DEF Spend, Budgets

\* The steps of a pass, spelled out.
LEMMA BeginResult ==
    ASSUME Typed, NEW p \in Passers, NEW what \in {"passes", "commands"}, PassBegin(p, what)
    PROVE  /\ pass' \in [Passers -> ActivePass \cup {NoPass}]
           /\ ~Active(p) /\ Active(p)'
           /\ \A q \in Passers : q # p => pass'[q] = pass[q]
           /\ pass'[p].pc = "history" /\ pass'[p].cur = cursor /\ pass'[p].latest = cursor.conv
           /\ pass'[p].batch = {} /\ pass'[p].took = {}
<1> DEFINE r == [pc |-> "history", cur |-> cursor, latest |-> cursor.conv,
                 threads |-> {}, batch |-> {}, took |-> {}]
<1>1. r \in ActivePass
  BY DEF Typed, ActivePass, CursorFile
<1>2. pass' = [pass EXCEPT ![p] = r] /\ ~Active(p)
  BY DEF PassBegin
<1>3. pass \in [Passers -> ActivePass \cup {NoPass}]
  BY DEF Typed
<1>4. pass'[p] = r /\ pass' \in [Passers -> ActivePass \cup {NoPass}]
      /\ \A q \in Passers : q # p => pass'[q] = pass[q]
  <2> HIDE DEF r
  <2>1. QED
    BY <1>1, <1>2, <1>3
<1>5. QED
  BY <1>2, <1>4 DEF Active

LEMMA HistoryResult ==
    ASSUME Typed, NEW p \in Passers, FetchHistory(p)
    PROVE  /\ pass' \in [Passers -> ActivePass \cup {NoPass}]
           /\ pass[p].pc = "history" /\ pass[p] \in ActivePass /\ pass'[p] \in ActivePass
           /\ \A q \in Passers : q # p => pass'[q] = pass[q]
           /\ pass'[p].pc = "messages"
           /\ pass'[p].batch = conversation_history(pass[p].cur.conv)
           /\ pass'[p].took = conversation_history(pass[p].cur.conv)
           /\ pass'[p].latest = Greatest(conversation_history(pass[p].cur.conv), pass[p].cur.conv)
           /\ pass'[p].cur.conv = pass[p].cur.conv
           /\ \A t \in 1..MaxPosts :
                pass'[p].cur.threads[t] \in {pass[p].cur.threads[t], Greatest({t}, pass[p].cur.threads[t])}
           /\ \A t \in 1..MaxPosts :
                pass'[p].cur.threads[t] # pass[p].cur.threads[t] => t \in Posts
<1> DEFINE r == pass[p]
           cur == r.cur
           msgs == conversation_history(cur.conv)
           known == IF Tracked(cur) # {} THEN Tracked(cur) ELSE artifacts
           named == Candidates(msgs)
           ths == [t \in DOMAIN cur.threads |->
                     IF t \in named THEN Greatest({t}, cur.threads[t]) ELSE cur.threads[t]]
           s == [pc |-> "messages", cur |-> [cur EXCEPT !.threads = ths],
                 latest |-> Greatest(msgs, cur.conv), threads |-> known \cup named,
                 batch |-> msgs, took |-> msgs]
<1>1. r.pc = "history" /\ r \in ActivePass
  BY PassCases DEF FetchHistory, Active
<1>2. /\ cur \in CursorFile /\ cur.conv \in 0..MaxPosts /\ DOMAIN cur.threads = 1..MaxPosts
      /\ \A t \in 1..MaxPosts : cur.threads[t] \in 0..MaxPosts
  BY <1>1 DEF ActivePass, CursorFile
<1>3. msgs \subseteq Posts /\ named \subseteq msgs
  BY DEF conversation_history, Candidates
<1>4. msgs \subseteq 1..MaxPosts /\ named \subseteq 1..MaxPosts /\ known \subseteq 1..MaxPosts
  BY <1>2, <1>3, PostsType DEF Tracked, Typed
<1>5. Greatest(msgs, cur.conv) \in 0..MaxPosts
  <2>1. msgs \in SUBSET (0..MaxPosts) /\ MaxPosts \in Nat
    BY <1>4, PostsType
  <2> HIDE DEF msgs
  <2>2. QED
    BY <1>2, <2>1, GreatestFact
<1>6. \A t \in 1..MaxPosts : Greatest({t}, cur.threads[t]) \in 0..MaxPosts
  <2>1. \A t \in 1..MaxPosts : {t} \in SUBSET (0..MaxPosts) /\ MaxPosts \in Nat
    BY PostsType
  <2>2. QED
    BY <1>2, <2>1, GreatestFact
<1>7. /\ ths \in [1..MaxPosts -> 0..MaxPosts]
      /\ \A t \in 1..MaxPosts : /\ ths[t] \in {cur.threads[t], Greatest({t}, cur.threads[t])}
                                /\ ths[t] # cur.threads[t] => t \in Posts
  BY <1>2, <1>3, <1>6
<1>8. /\ [cur EXCEPT !.threads = ths] \in CursorFile
      /\ [cur EXCEPT !.threads = ths].conv = cur.conv /\ [cur EXCEPT !.threads = ths].threads = ths
  <2> HIDE DEF ths, cur
  <2>1. QED
    BY <1>2, <1>7 DEF CursorFile
<1>9. s \in ActivePass
  <2> HIDE DEF ths, cur, msgs, known, named
  <2>1. QED
    BY <1>4, <1>5, <1>8 DEF ActivePass
<1>10. pass' = [pass EXCEPT ![p] = s]
  BY DEF FetchHistory
<1>11. /\ pass'[p] = s /\ pass' \in [Passers -> ActivePass \cup {NoPass}]
       /\ \A q \in Passers : q # p => pass'[q] = pass[q]
  <2> HIDE DEF s
  <2>1. QED
    BY <1>9, <1>10 DEF Typed
<1>12. /\ s.pc = "messages" /\ s.batch = msgs /\ s.took = msgs /\ s.latest = Greatest(msgs, cur.conv)
       /\ s.cur.conv = cur.conv /\ s.cur.threads = ths
  <2> HIDE DEF ths, cur, msgs, known, named
  <2>1. QED
    BY <1>8
<1>13. QED
  <2> HIDE DEF s, ths
  <2>1. QED
    BY <1>1, <1>7, <1>9, <1>11, <1>12

LEMMA UpdateFact ==
    ASSUME Typed, NEW p \in Passers, NEW s \in ActivePass \cup {NoPass}, pass' = [pass EXCEPT ![p] = s]
    PROVE  /\ pass' \in [Passers -> ActivePass \cup {NoPass}] /\ pass'[p] = s
           /\ \A q \in Passers : q # p => pass'[q] = pass[q]
BY DEF Typed

LEMMA MinFact ==
    ASSUME NEW N \in Nat, NEW S \in SUBSET (0..N), S # {}
    PROVE  Min(S) \in S
<1> DEFINE R == {ss \in Nat \X Nat : ss[1] < ss[2]}
<1>1. S \subseteq Nat
  OBVIOUS
<1>2. IsWellFoundedOn(R, Nat)
  BY NatLessThanWellFounded DEF OpToRel
<1> HIDE DEF R
<1>3. PICK u \in S : \A n \in S : ~(<<n, u>> \in R)
  BY <1>1, <1>2, WFMin
<1>4. \A n \in S : u <= n
  <2>1. \A n \in S : n < u => <<n, u>> \in R
    BY <1>1 DEF R
  <2>2. SUFFICES ASSUME NEW n \in S PROVE u <= n
    OBVIOUS
  <2>3. ~(n < u) /\ n \in Nat /\ u \in Nat
    BY <1>1, <1>3, <2>1
  <2>4. QED
    BY <2>3
<1>5. QED
  BY <1>3, <1>4 DEF Min

\* A step that leaves a pass what it has: only the threads still to read change,
\* and the pass is past its history.
Narrowed(p) ==
    /\ pass[p] \in ActivePass /\ pass'[p] \in ActivePass
    /\ pass[p].pc \in {"messages", "replies"} /\ pass'[p].pc = "replies"
    /\ pass'[p].cur = pass[p].cur /\ pass'[p].latest = pass[p].latest
    /\ pass'[p].batch = pass[p].batch /\ pass'[p].took = pass[p].took
    /\ \A q \in Passers : q # p => pass'[q] = pass[q]

LEMMA DiscoverResult ==
    ASSUME Typed, NEW p \in Passers, DiscoverThreads(p)
    PROVE  pass' \in [Passers -> ActivePass \cup {NoPass}] /\ Narrowed(p)
<1> DEFINE r == pass[p]
<1>1. r.pc = "messages" /\ r \in ActivePass
  BY PassCases DEF DiscoverThreads, Active
<1>2. PICK found \in SUBSET (1..MaxPosts) :
         pass' = [pass EXCEPT ![p].pc = "replies", ![p].threads = found]
  <2>1. Candidates(conversation_history(0)) \subseteq 1..MaxPosts
    BY PostsType DEF Candidates, conversation_history
  <2>2. r.threads \subseteq 1..MaxPosts
    BY <1>1 DEF ActivePass
  <2>3. QED
    BY <2>1, <2>2 DEF DiscoverThreads
<1> DEFINE s == [r EXCEPT !.pc = "replies", !.threads = found]
<1>3. /\ s \in ActivePass /\ s.pc = "replies" /\ s.cur = r.cur /\ s.latest = r.latest
      /\ s.batch = r.batch /\ s.took = r.took
  <2> HIDE DEF r
  <2>1. QED
    BY <1>1 DEF ActivePass
<1>4. pass' = [pass EXCEPT ![p] = s]
  BY <1>2 DEF Typed
<1> HIDE DEF s
<1>5. QED
  BY <1>1, <1>3, <1>4, UpdateFact DEF Narrowed

LEMMA ThreadSkipResult ==
    ASSUME Typed, NEW p \in Passers, ThreadNotInChannel(p)
    PROVE  pass' \in [Passers -> ActivePass \cup {NoPass}] /\ Narrowed(p)
<1> DEFINE r == pass[p]
           T == r.threads \ {Min(r.threads)}
           s == [r EXCEPT !.threads = T]
<1>1. r.pc = "replies" /\ r \in ActivePass
  BY PassCases DEF ThreadNotInChannel, Active
<1>2. T \subseteq 1..MaxPosts
  BY <1>1 DEF ActivePass
<1>3. /\ s \in ActivePass /\ s.pc = "replies" /\ s.cur = r.cur /\ s.latest = r.latest
      /\ s.batch = r.batch /\ s.took = r.took
  <2> HIDE DEF r, T
  <2>1. QED
    BY <1>1, <1>2 DEF ActivePass
<1>4. pass' = [pass EXCEPT ![p] = s]
  BY DEF ThreadNotInChannel, Typed
<1> HIDE DEF s
<1>5. QED
  BY <1>1, <1>3, <1>4, UpdateFact DEF Narrowed

LEMMA EnqueueResult ==
    ASSUME Typed, NEW p \in Passers, PassEnqueue(p)
    PROVE  /\ pass' \in [Passers -> ActivePass \cup {NoPass}]
           /\ pass[p].pc \in {"messages", "replies"} /\ pass[p] \in ActivePass /\ pass'[p] \in ActivePass
           /\ \A q \in Passers : q # p => pass'[q] = pass[q]
           /\ \E m \in pass[p].batch : /\ pass'[p].batch = pass[p].batch \ {m}
                                       /\ copies' = enqueue_incoming(m)
           /\ pass'[p].pc = pass[p].pc /\ pass'[p].cur = pass[p].cur
           /\ pass'[p].latest = pass[p].latest /\ pass'[p].took = pass[p].took
<1> DEFINE r == pass[p]
           m == Max(r.batch)
           s == [r EXCEPT !.batch = r.batch \ {m}]
<1>1. r.pc \in {"messages", "replies"} /\ r \in ActivePass
  BY PassCases DEF PassEnqueue, Active
<1>2. m \in r.batch
  <2>1. r.batch \in SUBSET (0..MaxPosts) /\ r.batch # {} /\ MaxPosts \in Nat
    BY <1>1, PostsType DEF PassEnqueue, ActivePass
  <2>2. QED
    BY <2>1, MaxFact
<1>3. /\ s \in ActivePass /\ s.pc = r.pc /\ s.cur = r.cur /\ s.latest = r.latest
      /\ s.batch = r.batch \ {m} /\ s.took = r.took
  <2> HIDE DEF r, m
  <2>1. QED
    BY <1>1 DEF ActivePass
<1>4. pass' = [pass EXCEPT ![p] = s] /\ copies' = enqueue_incoming(m)
  BY DEF PassEnqueue, Typed
<1> HIDE DEF s, m
<1>5. QED
  BY <1>1, <1>2, <1>3, <1>4, UpdateFact

LEMMA RepliesResult ==
    ASSUME Typed, NEW p \in Passers, FetchReplies(p)
    PROVE  /\ pass' \in [Passers -> ActivePass \cup {NoPass}]
           /\ pass[p].pc = "replies" /\ pass[p] \in ActivePass /\ pass'[p] \in ActivePass
           /\ pass[p].batch = {}
           /\ \A q \in Passers : q # p => pass'[q] = pass[q]
           /\ pass'[p].pc = "replies" /\ pass'[p].cur.conv = pass[p].cur.conv
           /\ \E t \in 1..MaxPosts :
                LET old == pass[p].cur.threads[t]
                    rs == conversation_replies(t, old)
                IN  /\ pass'[p].batch = rs /\ pass'[p].took = pass[p].took \cup rs
                    /\ pass'[p].latest = Greatest(rs, pass[p].latest)
                    /\ pass'[p].cur.threads = [pass[p].cur.threads EXCEPT ![t] = Greatest(rs, old)]
                    /\ excused' = IF \E q \in Passers \ {p} : Active(q) THEN excused \cup rs ELSE excused
<1> DEFINE r == pass[p]
           t == Min(r.threads)
           old == r.cur.threads[t]
           rs == conversation_replies(t, old)
           ths == [r.cur.threads EXCEPT ![t] = Greatest(rs, old)]
           c == [r.cur EXCEPT !.threads = ths]
           s == [r EXCEPT !.threads = r.threads \ {t}, !.batch = rs, !.took = r.took \cup rs,
                          !.latest = Greatest(rs, r.latest), !.cur = c]
<1>1. r.pc = "replies" /\ r \in ActivePass /\ r.batch = {} /\ r.threads # {}
  BY PassCases DEF FetchReplies, Active
<1>2. t \in 1..MaxPosts
  <2>1. r.threads \in SUBSET (0..MaxPosts) /\ MaxPosts \in Nat /\ r.threads \subseteq 1..MaxPosts
    BY <1>1, PostsType DEF ActivePass
  <2> HIDE DEF r
  <2>2. QED
    BY <1>1, <2>1, MinFact
<1>3. r.cur \in CursorFile /\ r.cur.threads \in [1..MaxPosts -> 0..MaxPosts] /\ old \in 0..MaxPosts
  BY <1>1, <1>2 DEF ActivePass, CursorFile
<1>4. rs \subseteq 1..MaxPosts /\ rs \in SUBSET (0..MaxPosts) /\ MaxPosts \in Nat
  BY PostsType DEF conversation_replies, Replies
<1>5. Greatest(rs, old) \in 0..MaxPosts /\ Greatest(rs, r.latest) \in 0..MaxPosts
  <2>1. r.latest \in 0..MaxPosts
    BY <1>1 DEF ActivePass
  <2> HIDE DEF rs, old
  <2>2. QED
    BY <1>3, <1>4, <2>1, GreatestFact
<1>6. ths \in [1..MaxPosts -> 0..MaxPosts]
  <2> HIDE DEF rs, old, t
  <2>1. QED
    BY <1>2, <1>3, <1>5
<1>7. c \in CursorFile /\ c.conv = r.cur.conv /\ c.threads = ths
  <2> HIDE DEF ths, r
  <2>1. QED
    BY <1>3, <1>6 DEF CursorFile
<1>8. /\ s \in ActivePass /\ s.pc = "replies" /\ s.cur = c /\ s.latest = Greatest(rs, r.latest)
      /\ s.batch = rs /\ s.took = r.took \cup rs
  <2>1. r.threads \ {t} \in SUBSET (1..MaxPosts) /\ r.took \cup rs \in SUBSET (1..MaxPosts)
    BY <1>1, <1>4 DEF ActivePass
  <2> HIDE DEF r, c, rs, t
  <2>2. QED
    BY <1>1, <1>4, <1>5, <1>7, <2>1 DEF ActivePass
<1>9. /\ pass' = [pass EXCEPT ![p] = s]
      /\ excused' = IF \E q \in Passers \ {p} : Active(q) THEN excused \cup rs ELSE excused
  BY DEF FetchReplies
<1>10. pass' \in [Passers -> ActivePass \cup {NoPass}] /\ pass'[p] = s
       /\ \A q \in Passers : q # p => pass'[q] = pass[q]
  <2> HIDE DEF s
  <2>1. QED
    BY <1>8, <1>9, UpdateFact
<1>11. QED
  <2> HIDE DEF s, c, t
  <2>1. QED
    BY <1>1, <1>2, <1>7, <1>8, <1>9, <1>10

-----------------------------------------------------------------------------
(***************************************************************************)
(* What a step does to the inbound side.                                   *)
(***************************************************************************)
inbound == <<parent, cursor, pass, raced, excused>>

\* Enqueueing a post makes at most one more message of it, and only while none
\* is found under its own name.
LEMMA EnqueueFact ==
    ASSUME Typed, NEW m \in Posts, copies' = enqueue_incoming(m), UNCHANGED parent
    PROVE  /\ copies' \in Seq(Seq(Stages)) /\ Len(copies') = Len(parent')
           /\ \A n \in Posts : n # m => Times(n)' = Times(n)
           /\ Times(m)' \in {Times(m), Times(m) + 1} /\ Times(m)' > 0
<1>1. copies \in Seq(Seq(Stages)) /\ m \in 1..Len(copies)
  BY DEF Typed, Posts
<1>2. copies[m] \in Seq(Stages)
  BY <1>1
<1>3. CASE message_already_queued(m)
  <2>1. copies' = copies
    BY <1>3 DEF enqueue_incoming
  <2>2. Len(copies[m]) \in Nat /\ Len(copies[m]) > 0
    BY <1>2, <1>3 DEF message_already_queued
  <2>3. QED
    BY <1>1, <2>1, <2>2 DEF Typed, Times
<1>4. CASE ~message_already_queued(m)
  <2>1. copies' = [copies EXCEPT ![m] = Append(copies[m], "queued")]
    BY <1>4 DEF enqueue_incoming
  <2>2. Append(copies[m], "queued") \in Seq(Stages) /\ Len(Append(copies[m], "queued")) = Len(copies[m]) + 1
        /\ Len(copies[m]) \in Nat
    BY <1>2 DEF Stages
  <2> DEFINE a == Append(copies[m], "queued")
  <2> HIDE DEF a
  <2>3. copies' = [copies EXCEPT ![m] = a]
    BY <2>1 DEF a
  <2>4. copies' \in Seq(Seq(Stages)) /\ Len(copies') = Len(copies) /\ copies'[m] = a
        /\ \A n \in 1..Len(copies) : n # m => copies'[n] = copies[n]
    BY <1>1, <2>2, <2>3 DEF a
  <2>5. QED
    BY <1>1, <2>2, <2>4 DEF Typed, Times, Posts, a
<1>5. QED
  BY <1>3, <1>4

LEMMA MoveFact ==
    ASSUME Typed, NEW m \in Posts, NEW k \in DOMAIN copies[m], NEW to \in Stages,
           copies' = [copies EXCEPT ![m][k] = to], UNCHANGED parent
    PROVE  /\ copies' \in Seq(Seq(Stages)) /\ Len(copies') = Len(parent')
           /\ \A n \in Posts : Times(n)' = Times(n)
<1>1. copies \in Seq(Seq(Stages)) /\ m \in 1..Len(copies)
  BY DEF Typed, Posts
<1>2. copies[m] \in Seq(Stages) /\ k \in 1..Len(copies[m])
  BY <1>1
<1> DEFINE a == [copies[m] EXCEPT ![k] = to]
<1>3. copies' = [copies EXCEPT ![m] = a]
  BY <1>1
<1>4. a \in Seq(Stages) /\ Len(a) = Len(copies[m])
  BY <1>2
<1> HIDE DEF a
<1>5. copies' \in Seq(Seq(Stages)) /\ Len(copies') = Len(copies) /\ copies'[m] = a
      /\ \A n \in 1..Len(copies) : n # m => copies'[n] = copies[n]
  BY <1>1, <1>3, <1>4
<1>6. QED
  BY <1>4, <1>5 DEF Typed, Times, Posts

\* A step that neither fetches nor saves: whatever it enqueues was delivered.
Quiet ==
    /\ UNCHANGED inbound /\ delivered \subseteq delivered'
    /\ \A m \in Posts : Times(m)' >= Times(m) /\ (Times(m)' # Times(m) => m \in delivered')

\* A step that ends passes, excusing what they took.
Dropped ==
    /\ UNCHANGED <<parent, cursor, copies, delivered, raced>> /\ excused \subseteq excused'
    /\ \A p \in Passers : pass'[p] = pass[p] \/ (pass'[p] = NoPass /\ (Active(p) => pass[p].took \subseteq excused'))

TimesTyped == \A m \in Posts : Times(m) \in Nat /\ (Times(m) = 0 <=> copies[m] = <<>>)

LEMMA TimesType == Typed => TimesTyped
<1> USE DEF TimesTyped
<1>1. SUFFICES ASSUME Typed, NEW m \in Posts PROVE Times(m) \in Nat /\ (Times(m) = 0 <=> copies[m] = <<>>)
  OBVIOUS
<1>2. copies[m] \in Seq(Stages)
  BY <1>1 DEF Typed, Posts
<1>3. QED
  BY <1>2 DEF Times

LEMMA HandleStep == ASSUME Typed, Handle PROVE Typed' /\ Quiet
<1>a. PICK m \in Posts : \E k \in DOMAIN copies[m] : RequeueOrRecover(m, k) \/ Answer(m, k) \/ AnswerNothing(m, k)
  BY DEF Handle
<1>1. PICK k \in DOMAIN copies[m], to \in {"renamed", "outgoing", "silent"}, from \in SUBSET Stages :
        Move(m, k, from, to)
  BY <1>a DEF RequeueOrRecover, Answer, AnswerNothing, Stages
<1>2. copies' = [copies EXCEPT ![m][k] = to] /\ to \in Stages /\ UNCHANGED parent
  BY <1>1 DEF Move, Stages
<1>3. /\ copies' \in Seq(Seq(Stages)) /\ Len(copies') = Len(parent')
      /\ \A n \in Posts : Times(n)' = Times(n)
  BY <1>2, MoveFact
<1>4. artifacts' \subseteq 1..MaxPosts
  BY <1>1, ParentType DEF Move, Typed
<1>5. UNCHANGED <<parent, cursor, pass, buffer, delivered, raced, excused, left>>
  BY <1>1 DEF Move, budget
<1>6. Typed'
  BY <1>3, <1>4, <1>5 DEF Typed, Posts
<1>7. QED
  BY <1>3, <1>5, <1>6, TimesType DEF Quiet, inbound, TimesTyped

\* Steps that leave the inbound side and the queue's copies alone.
LEMMA RestStep ==
    ASSUME Typed, UNCHANGED <<parent, cursor, pass, raced, excused, copies, artifacts, buffer, delivered>>,
           left' \in Budgets, left'.posts = left.posts
    PROVE  Typed' /\ Quiet
<1>1. Typed'
  BY DEF Typed, Posts
<1>2. QED
  BY <1>1, TimesType DEF Quiet, inbound, TimesTyped, Times

LEMMA PostStep ==
    ASSUME Typed, NEW t \in 0..MaxPosts, Post(t)
    PROVE  /\ Typed' /\ UNCHANGED <<cursor, pass, delivered, excused>> /\ raced \subseteq raced'
           /\ Posts' = Posts \cup {Len(parent) + 1} /\ Len(parent') = Len(parent) + 1 /\ Len(parent) \in Nat
           /\ \A m \in Posts : parent'[m] = parent[m] /\ Times(m)' = Times(m)
           /\ \A m \in Nat : m = Len(parent) + 1 => Times(m)' = 0 /\ parent'[m] = t
           /\ t = 0 /\ (\E p \in Passers : pass[p].pc \in {"messages", "replies"}) => Len(parent) + 1 \in raced'
<1> DEFINE n == Len(parent) + 1
<1>1. /\ parent' = Append(parent, t) /\ copies' = Append(copies, <<>>)
      /\ UNCHANGED <<cursor, artifacts, pass, buffer, delivered, excused>>
      /\ raced' \in {raced, raced \cup {n}} /\ (t # 0 => raced' = raced)
      /\ t = 0 /\ (\E p \in Passers : pass[p].pc \in {"messages", "replies"}) => n \in raced'
      /\ t = 0 \/ t \in Posts
  BY DEF Post
<1>2. /\ parent \in Seq(0..MaxPosts) /\ Len(parent) \in Nat /\ Len(copies) = Len(parent)
      /\ copies \in Seq(Seq(Stages)) /\ Posts = 1..Len(parent)
  BY PostsType DEF Typed, Posts
<1>3. /\ parent' \in Seq(0..MaxPosts) /\ Len(parent') = n /\ parent'[n] = t
      /\ \A m \in 1..Len(parent) : parent'[m] = parent[m]
  BY <1>1, <1>2
<1>4. /\ copies' \in Seq(Seq(Stages)) /\ Len(copies') = n /\ copies'[n] = <<>>
      /\ \A m \in 1..Len(parent) : copies'[m] = copies[m]
  <2>1. <<>> \in Seq(Stages)
    OBVIOUS
  <2>2. QED
    BY <1>1, <1>2, <2>1
<1>5. Posts' = Posts \cup {n}
  BY <1>2, <1>3 DEF Posts
<1>6. /\ left' \in Budgets /\ left'.posts = left.posts - 1 /\ left.posts \in Nat
  <2>1. left \in Budgets /\ Spend("posts") /\ MaxPosts \in Nat
    BY ConstantsOK DEF Post, Typed
  <2>2. QED
    BY <2>1 DEF Spend, Budgets
<1>7. Len(parent') + left'.posts <= MaxPosts
  <2>1. Len(parent) + left.posts <= MaxPosts /\ MaxPosts \in Nat
    BY PostsType DEF Typed
  <2>2. QED
    BY <1>2, <1>3, <1>6, <2>1
<1>8. \A m \in Posts' : parent'[m] < m
  <2>1. \A m \in Posts : parent[m] < m
    BY DEF Typed
  <2>2. t < n
    BY <1>1, <1>2
  <2>3. QED
    BY <1>2, <1>3, <1>5, <2>1, <2>2
<1>9. raced' \subseteq Posts' /\ \A m \in raced' : parent'[m] = 0
  BY <1>1, <1>2, <1>3, <1>5 DEF Typed
<1>10. delivered' \subseteq Posts'
  BY <1>1, <1>5 DEF Typed
<1>11. Typed'
  <2>1. Len(copies') = Len(parent') /\ cursor' \in CursorFile /\ artifacts' \subseteq 1..MaxPosts
        /\ pass' \in [Passers -> ActivePass \cup {NoPass}]
        /\ buffer' \in [Loops -> Seq(1..MaxPosts)]
        /\ \A i \in Loops : \A k \in 1..Len(buffer'[i]) : buffer'[i][k] \in delivered'
    BY <1>1, <1>3, <1>4 DEF Typed
  <2>2. QED
    BY <1>3, <1>4, <1>6, <1>7, <1>8, <1>9, <1>10, <2>1 DEF Typed
<1>12. /\ \A m \in Posts : parent'[m] = parent[m] /\ Times(m)' = Times(m)
       /\ \A m \in Nat : m = n => Times(m)' = 0 /\ parent'[m] = t
  <2>1. \A m : Times(m)' = Len(copies'[m]) /\ Times(m) = Len(copies[m])
    BY DEF Times
  <2>2. Len(copies'[n]) = 0
    BY <1>4
  <2> HIDE DEF n
  <2>3. QED
    BY <1>2, <1>3, <1>4, <2>1, <2>2
<1>13. raced \subseteq raced'
  BY <1>1
<1> HIDE DEF n
<1>14. QED
  BY <1>1, <1>2, <1>3, <1>5, <1>11, <1>12, <1>13 DEF n

\* A step that changes only passes, the cursor file and what is excused.
LEMMA PassTyped ==
    ASSUME Typed, pass' \in [Passers -> ActivePass \cup {NoPass}], cursor' \in CursorFile,
           UNCHANGED <<parent, copies, artifacts, buffer, delivered, raced>>,
           left' \in Budgets, left'.posts = left.posts
    PROVE  Typed'
BY DEF Typed, Posts

LEMMA BeginStep ==
    ASSUME Typed, NEW p \in Passers, NEW what \in {"passes", "commands"}, PassBegin(p, what),
           UNCHANGED <<parent, cursor, copies, artifacts, buffer, delivered, raced>>
    PROVE  Typed'
<1>1. Spend(what)
  BY DEF PassBegin
<1>2. QED
  BY <1>1, SpendKeepsPosts, BeginResult, PassTyped DEF Typed


-----------------------------------------------------------------------------
(***************************************************************************)
(* The inbound invariant.                                                  *)
(***************************************************************************)

\* Cursor c is at or beyond post m.
Covered(c, m) == IF parent[m] = 0 THEN m <= c.conv ELSE m <= c.threads[parent[m]]

\* A cursor stays within the posts there are.
Within(c) == c.conv <= Len(parent) /\ \A t \in 1..MaxPosts : c.threads[t] <= Len(parent)

\* A pass enqueues what it took, and has taken nothing before its history call.
PassBounded(p) ==
    /\ Within(pass[p].cur)
    /\ pass[p].cur.conv <= pass[p].latest /\ pass[p].latest <= Len(parent)
    /\ pass[p].batch \subseteq pass[p].took /\ pass[p].took \subseteq Posts
    /\ pass[p].pc = "history" => pass[p].took = {}

Bounded == Within(cursor) /\ \A p \in Passers : Active(p) => PassBounded(p)

\* What was never enqueued is ahead of the cursor file, and ahead of the cursors
\* of every pass under way unless the pass still has it in hand.
PassAhead(p) ==
    \A m \in Posts : Times(m) = 0 =>
        IF pass[p].pc \in {"history", "saving"} THEN ~Covered(pass[p].cur, m) \/ m \in raced
        ELSE m \in pass[p].batch \/ m \in raced \/ (parent[m] # 0 /\ ~Covered(pass[p].cur, m))

Ahead ==
    /\ \A m \in Posts : Times(m) = 0 => ~Covered(cursor, m) \/ m \in raced
    /\ \A p \in Passers : Active(p) => PassAhead(p)

Excepted(m) == m \in delivered \/ m \in excused

\* What was enqueued is behind the cursor file, or a pass under way took it; a
\* pass works on posts no one else works on, or they are excused.
PassBehind(p) ==
    \A m \in Posts :
        /\ Times(m) > 0 => Excepted(m) \/ Covered(pass[p].cur, m) \/ m \in pass[p].took
        /\ m \in pass[p].took => IF parent[m] = 0 THEN m <= pass[p].latest
                                 ELSE m <= pass[p].cur.threads[parent[m]]
        /\ m \in pass[p].batch => Excepted(m) \/ Times(m) = 0

Apart == \A p, q \in Passers : p # q /\ Active(p) /\ Active(q) => pass[p].took \subseteq excused

Behind ==
    /\ \A m \in Posts : Times(m) > 0 =>
         Excepted(m) \/ Covered(cursor, m) \/ \E p \in Passers : Active(p) /\ m \in pass[p].took
    /\ \A p \in Passers : Active(p) => PassBehind(p)
    /\ Apart

Single == \A m \in Posts : Times(m) > 1 => Excepted(m)

InboundInv == Typed /\ Bounded /\ Ahead /\ Behind /\ Single

\* What the conjuncts say of one pass.
LEMMA PassFacts ==
    ASSUME InboundInv, NEW p \in Passers, Active(p)
    PROVE  /\ pass[p] \in ActivePass /\ pass[p].cur \in CursorFile
           /\ pass[p].cur.conv \in Nat /\ pass[p].latest \in Nat
           /\ \A t \in 1..MaxPosts : pass[p].cur.threads[t] \in Nat
           /\ DOMAIN pass[p].cur.threads = 1..MaxPosts
<1>1. pass[p] \in ActivePass /\ MaxPosts \in Nat
  BY PassCases, PostsType DEF InboundInv
<1>2. pass[p].cur \in CursorFile /\ pass[p].latest \in 0..MaxPosts
  BY <1>1 DEF ActivePass
<1>3. QED
  BY <1>1, <1>2 DEF CursorFile

LEMMA CursorFacts ==
    ASSUME InboundInv
    PROVE  /\ cursor.conv \in Nat /\ \A t \in 1..MaxPosts : cursor.threads[t] \in Nat
           /\ MaxPosts \in Nat /\ Len(parent) \in Nat
<1>1. cursor \in CursorFile /\ MaxPosts \in Nat /\ Len(parent) \in Nat
  BY PostsType DEF InboundInv, Typed
<1>2. QED
  BY <1>1 DEF CursorFile

\* What cursor.json.tmp holds never passes a post that was not enqueued; while a
\* pass is about to rename it, it also covers what was enqueued alone.
Saving == \E p \in Passers : pass[p].pc = "saving"

DraftInv ==
    /\ draft \subseteq CursorFile
    /\ \A d \in draft : Within(d) /\ \A m \in Posts :
         /\ Times(m) = 0 => ~Covered(d, m) \/ m \in raced
         /\ Saving /\ Times(m) > 0 => Excepted(m) \/ Covered(d, m)

LEMMA QuietKeeps ==
    ASSUME InboundInv, Typed', Quiet
    PROVE  InboundInv'
<1>1. UNCHANGED <<parent, cursor, pass, raced, excused>> /\ delivered \subseteq delivered'
  BY DEF Quiet, inbound
<1>2. \A m \in Posts : Times(m) \in Nat /\ Times(m)' \in Nat /\ Times(m)' >= Times(m)
                       /\ (Times(m)' # Times(m) => m \in delivered')
  <2>1. TimesTyped /\ TimesTyped'
    BY TimesType, PTL DEF InboundInv
  <2>2. QED
    BY <1>1, <2>1 DEF Quiet, Posts, TimesTyped
<1>3. \A m \in Posts : /\ Times(m)' = 0 => Times(m) = 0
                       /\ Times(m)' > 0 => Times(m) > 0 \/ m \in delivered'
                       /\ Times(m)' > 1 => Times(m) > 1 \/ m \in delivered'
                       /\ Times(m) = 0 => Times(m)' = 0 \/ m \in delivered'
  BY <1>2
<1>4. Posts' = Posts /\ (\A p \in Passers : Active(p)' = Active(p))
      /\ (\A m \in Posts : Excepted(m) => Excepted(m)') /\ (\A m \in delivered' : Excepted(m)')
  BY <1>1 DEF Posts, Active, Excepted
<1>5. \A c : \A m \in Posts : Covered(c, m)' = Covered(c, m)
  BY <1>1 DEF Covered
<1>6. Bounded'
  BY <1>1, <1>4 DEF InboundInv, Bounded, Within, PassBounded
<1>7. Ahead'
  BY <1>1, <1>3, <1>4 DEF InboundInv, Ahead, Covered, PassAhead
<1>8. Behind'
  <2>1. Behind
    BY DEF InboundInv
  <2>2. \A p \in Passers : Active(p) => PassBehind(p)'
    BY <1>1, <1>3, <1>4, <2>1 DEF Behind, Covered, PassBehind
  <2>3. QED
    BY <1>1, <1>3, <1>4, <2>1, <2>2 DEF Behind, Covered, Apart
<1>9. Single'
  BY <1>3, <1>4 DEF InboundInv, Single
<1>10. QED
  BY <1>6, <1>7, <1>8, <1>9 DEF InboundInv

LEMMA PostKeeps ==
    ASSUME InboundInv, NEW t \in 0..MaxPosts, Post(t)
    PROVE  InboundInv'
<1> DEFINE n == Len(parent) + 1
<1>1. /\ Typed' /\ UNCHANGED <<cursor, pass, delivered, excused>> /\ raced \subseteq raced'
      /\ Posts' = Posts \cup {n} /\ Len(parent') = n /\ Len(parent) \in Nat
      /\ \A m \in Posts : parent'[m] = parent[m] /\ Times(m)' = Times(m)
      /\ \A m \in Nat : m = n => Times(m)' = 0 /\ parent'[m] = t
      /\ t = 0 /\ (\E p \in Passers : pass[p].pc \in {"messages", "replies"}) => n \in raced'
  BY PostStep DEF InboundInv
<1>2. Bounded
  BY DEF InboundInv
<1>3. \A p \in Passers : Active(p)' = Active(p) /\ pass'[p] = pass[p]
  BY <1>1 DEF Active
<1>4. n \in Nat /\ n > Len(parent) /\ n \in 1..MaxPosts /\ n \notin Posts
  <2>1. Len(parent') \in 0..MaxPosts
    <3>1. (Len(parent) \in 0..MaxPosts)'
      BY <1>1, PostsType, PTL
    <3>2. QED
      BY <3>1
  <2>2. QED
    BY <1>1, <2>1 DEF Posts
<1>5. n \notin delivered
  BY <1>1, <1>4 DEF InboundInv, Typed
<1>6. \A c : \A m \in Posts : Covered(c, m)' = Covered(c, m)
  BY <1>1 DEF Covered
<1>7. t # 0 => t \in 1..MaxPosts
  BY <1>4
<1>8. \A m \in Nat : m = n => ~Covered(cursor, m)'
  <2>1. cursor.conv <= Len(parent) /\ \A u \in 1..MaxPosts : cursor.threads[u] <= Len(parent)
    BY <1>2 DEF Bounded, Within, PassBounded
  <2>2. cursor.conv \in Nat /\ \A u \in 1..MaxPosts : cursor.threads[u] \in Nat
    BY CursorFacts
  <2> HIDE DEF n
  <2>3. QED
    BY <1>1, <1>4, <1>7, <2>1, <2>2 DEF Covered
<1>9. ASSUME NEW p \in Passers, Active(p)
      PROVE  \A m \in Nat : m = n => ~Covered(pass[p].cur, m)'
  <2>1. pass[p].cur.conv <= Len(parent) /\ \A u \in 1..MaxPosts : pass[p].cur.threads[u] <= Len(parent)
    BY <1>2, <1>9 DEF Bounded, Within, PassBounded
  <2>2. pass[p].cur.conv \in Nat /\ \A u \in 1..MaxPosts : pass[p].cur.threads[u] \in Nat
    BY <1>9, PassFacts
  <2> HIDE DEF n
  <2>3. QED
    BY <1>1, <1>3, <1>4, <1>7, <2>1, <2>2 DEF Covered
<1>10. ASSUME NEW p \in Passers, Active(p)
       PROVE  /\ n \notin pass[p].took /\ n \notin pass[p].batch
              /\ pass[p].pc \in {"history", "saving"} \/ pass[p].pc \in {"messages", "replies"}
  BY <1>2, <1>4, <1>10, PassCases DEF Bounded, InboundInv, PassBounded
<1> HIDE DEF n
<1>11. Bounded'
  <2>1. ASSUME NEW c, Within(c), c.conv \in Nat, \A u \in 1..MaxPosts : c.threads[u] \in Nat
        PROVE  c.conv <= n /\ \A u \in 1..MaxPosts : c.threads[u] <= n
    BY <1>1, <1>4, <2>1 DEF Within
  <2>2. Within(cursor)'
    BY <1>1, <1>2, <2>1, CursorFacts DEF Bounded, Within, PassBounded
  <2>3. ASSUME NEW p \in Passers, Active(p)
        PROVE  /\ Within(pass[p].cur)'
               /\ pass[p].cur.conv <= pass[p].latest /\ pass[p].latest <= n
               /\ pass[p].batch \subseteq pass[p].took /\ pass[p].took \subseteq Posts'
               /\ pass[p].pc = "history" => pass[p].took = {}
    <3>1. Within(pass[p].cur)'
      BY <1>1, <1>2, <1>3, <2>1, <2>3, PassFacts DEF Bounded, Within, PassBounded
    <3>2. QED
      BY <1>1, <1>2, <1>4, <2>3, <3>1, PassFacts DEF Bounded, PassBounded
  <2>4. QED
    BY <1>1, <1>3, <2>2, <2>3 DEF Bounded, PassBounded
<1>12. Ahead'
  <2>1. \A m \in Posts' : Times(m)' = 0 => ~Covered(cursor, m)' \/ m \in raced'
    BY <1>1, <1>4, <1>6, <1>8 DEF InboundInv, Ahead, Covered, PassAhead
  <2>2. ASSUME NEW p \in Passers, Active(p), NEW m \in Posts', Times(m)' = 0
        PROVE  IF pass[p].pc \in {"history", "saving"} THEN ~Covered(pass[p].cur, m)' \/ m \in raced'
               ELSE m \in pass[p].batch \/ m \in raced' \/ (parent'[m] # 0 /\ ~Covered(pass[p].cur, m)')
    <3>1. CASE m \in Posts
      <4>1. Covered(pass[p].cur, m)' = Covered(pass[p].cur, m)
        BY <1>1, <1>3, <3>1 DEF Covered
      <4>2. QED
        BY <1>1, <2>2, <3>1, <4>1 DEF InboundInv, Ahead, PassAhead
    <3>2. CASE m = n
      <4>1. ~Covered(pass[p].cur, m)' /\ parent'[m] = t
        BY <1>1, <1>4, <1>9, <2>2, <3>2
      <4>2. CASE pass[p].pc \in {"history", "saving"}
        BY <4>1, <4>2
      <4>3. CASE pass[p].pc \in {"messages", "replies"}
        <5>1. t = 0 => m \in raced'
          BY <1>1, <3>2, <4>3
        <5>2. QED
          BY <4>1, <4>3, <5>1
      <4>4. QED
        BY <1>10, <2>2, <4>2, <4>3
    <3>3. QED
      BY <1>1, <3>1, <3>2
  <2>3. QED
    BY <1>3, <2>1, <2>2 DEF Ahead, PassAhead
<1>13. Behind' /\ Single'
  <2>1. Behind /\ Single
    BY DEF InboundInv
  <2>2. \A m \in Posts' : Times(m)' > 0 => m \in Posts /\ Times(m) > 0
    BY <1>1, <1>4
  <2>3. \A m : Excepted(m)' = Excepted(m)
    BY <1>1 DEF Excepted
  <2>4. ASSUME NEW p \in Passers, Active(p), NEW m \in Posts'
        PROVE  /\ Times(m)' > 0 => Excepted(m)' \/ Covered(pass[p].cur, m)' \/ m \in pass[p].took
               /\ m \in pass[p].took => IF parent'[m] = 0 THEN m <= pass[p].latest
                                        ELSE m <= pass[p].cur.threads[parent'[m]]
               /\ m \in pass[p].batch => Excepted(m)' \/ Times(m)' = 0
    <3>1. m \in Posts => Covered(pass[p].cur, m)' = Covered(pass[p].cur, m)
      BY <1>1, <1>3 DEF Covered
    <3>2. m \in Posts \/ (m = n /\ m \notin pass[p].took /\ m \notin pass[p].batch)
      BY <1>1, <1>10, <2>4
    <3>3. QED
      BY <1>1, <1>4, <2>1, <2>2, <2>3, <2>4, <3>1, <3>2 DEF Behind, PassBehind, Apart
  <2>5. \A m \in Posts' : Times(m)' > 0 =>
         Excepted(m)' \/ Covered(cursor, m)' \/ \E p \in Passers : Active(p) /\ m \in pass[p].took
    <3>1. \A m \in Posts : Covered(cursor, m)' = Covered(cursor, m)
      BY <1>1 DEF Covered
    <3>2. QED
      BY <1>1, <2>1, <2>2, <2>3, <3>1 DEF Behind, PassBehind, Apart
  <2>6. Single'
    <3>1. \A m \in Posts' : Times(m)' > 1 => m \in Posts /\ Times(m) > 1
      BY <1>1, <1>4
    <3>2. QED
      BY <2>1, <2>3, <3>1 DEF Single
  <2>7. Behind'
    BY <1>1, <1>3, <2>1, <2>4, <2>5 DEF Behind, PassBehind, Apart
  <2>8. QED
    BY <2>6, <2>7
<1>14. QED
  BY <1>1, <1>11, <1>12, <1>13 DEF InboundInv

\* A pass keeps what holds of it while another one steps.
LEMMA OtherKeeps ==
    ASSUME InboundInv, UNCHANGED <<parent, delivered, raced>>, excused \subseteq excused',
           NEW q \in Passers, Active(q), pass'[q] = pass[q],
           \A m \in Posts : Times(m)' = Times(m) \/ (Excepted(m)' /\ Times(m)' > 0)
    PROVE  Active(q)' /\ PassBounded(q)' /\ PassAhead(q)' /\ PassBehind(q)'
<1>1. Posts' = Posts /\ Active(q)' /\ (\A m : Excepted(m) => Excepted(m)')
  BY DEF Posts, Active, Excepted
<1>2. \A m \in Posts : Covered(pass[q].cur, m)' = Covered(pass[q].cur, m)
  BY DEF Covered
<1>3. PassBounded(q) /\ PassAhead(q) /\ PassBehind(q)
  BY DEF InboundInv, Bounded, Ahead, Behind
<1>4. PassBounded(q)'
  BY <1>1, <1>3 DEF PassBounded, Within
<1>5. PassAhead(q)'
  BY <1>1, <1>2, <1>3 DEF PassAhead
<1>6. PassBehind(q)'
  BY <1>1, <1>2, <1>3 DEF PassBehind
<1>7. QED
  BY <1>1, <1>4, <1>5, <1>6

LEMMA BeginKeeps ==
    ASSUME InboundInv, NEW p \in Passers, NEW what \in {"passes", "commands"}, PassBegin(p, what),
           UNCHANGED <<parent, cursor, copies, artifacts, buffer, delivered, raced>>
    PROVE  InboundInv'
<1>1. Typed'
  BY BeginStep DEF InboundInv
<1>2. /\ ~Active(p) /\ Active(p)'
      /\ \A q \in Passers : q # p => pass'[q] = pass[q]
      /\ pass'[p].pc = "history" /\ pass'[p].cur = cursor /\ pass'[p].latest = cursor.conv
      /\ pass'[p].batch = {} /\ pass'[p].took = {}
  BY BeginResult DEF InboundInv
<1>3. excused \subseteq excused' /\ \A q \in Passers : Active(q) => pass[q].took \subseteq excused'
  BY DEF PassBegin
<1>4. Posts' = Posts /\ (\A m : Times(m)' = Times(m)) /\ (\A m : Excepted(m) => Excepted(m)')
  BY <1>3 DEF Posts, Times, Excepted
<1>5. \A q \in Passers : q # p /\ Active(q)' => Active(q)
  BY <1>2 DEF Active
<1>6. \A q \in Passers : q # p /\ Active(q)' => PassBounded(q)' /\ PassAhead(q)' /\ PassBehind(q)'
  BY <1>2, <1>3, <1>4, <1>5, OtherKeeps
<1>7. \A m \in Posts : /\ Covered(cursor, m)' = Covered(cursor, m)
                       /\ Covered(pass[p].cur, m)' = Covered(cursor, m)
  BY <1>2 DEF Covered
<1>8. PassBounded(p)'
  <2>1. Within(cursor) /\ cursor.conv \in Nat
    BY CursorFacts DEF InboundInv, Bounded
  <2>2. QED
    BY <1>2, <1>4, <2>1 DEF PassBounded, Within
<1>9. PassAhead(p)' /\ \A m \in Posts' : Times(m)' = 0 => ~Covered(cursor, m)' \/ m \in raced'
  BY <1>2, <1>4, <1>7 DEF InboundInv, Ahead, PassAhead
<1>10. \A m \in Posts' : Times(m)' > 0 => Excepted(m)' \/ Covered(cursor, m)'
  <2>1. \A m \in Posts : Times(m) > 0 => Excepted(m) \/ Covered(cursor, m)
                                         \/ \E q \in Passers : Active(q) /\ m \in pass[q].took
    BY DEF InboundInv, Behind
  <2>2. \A m : (\E q \in Passers : Active(q) /\ m \in pass[q].took) => Excepted(m)'
    BY <1>3 DEF Excepted
  <2>3. QED
    BY <1>4, <1>7, <2>1, <2>2
<1>11. PassBehind(p)'
  BY <1>2, <1>4, <1>7, <1>10 DEF PassBehind
<1>12. Apart'
  BY <1>2, <1>3, <1>5 DEF Apart
<1>13. Single'
  BY <1>4 DEF InboundInv, Single
<1>14. Within(cursor)'
  BY DEF InboundInv, Bounded, Within
<1>15. QED
  BY <1>1, <1>6, <1>8, <1>9, <1>10, <1>11, <1>12, <1>13, <1>14 DEF InboundInv, Bounded, Ahead, Behind

LEMMA DropKeeps ==
    ASSUME InboundInv, Typed', Dropped
    PROVE  InboundInv'
<1>1. /\ UNCHANGED <<parent, cursor, copies, delivered, raced>> /\ excused \subseteq excused'
      /\ \A p \in Passers : pass'[p] = pass[p] \/ (pass'[p] = NoPass /\ (Active(p) => pass[p].took \subseteq excused'))
  BY DEF Dropped
<1>2. Posts' = Posts /\ (\A m : Times(m)' = Times(m)) /\ (\A m : Excepted(m) => Excepted(m)')
  BY <1>1 DEF Posts, Times, Excepted
<1>3. \A p \in Passers : Active(p)' => Active(p) /\ pass'[p] = pass[p]
  BY <1>1 DEF Active, NoPass
<1>4. \A p \in Passers : Active(p)' => PassBounded(p)' /\ PassAhead(p)' /\ PassBehind(p)'
  BY <1>1, <1>2, <1>3, OtherKeeps
<1>5. \A m \in Posts : Covered(cursor, m)' = Covered(cursor, m)
  BY <1>1 DEF Covered
<1>6. \A p \in Passers : \A m : Active(p) /\ m \in pass[p].took => Excepted(m)' \/ (Active(p)' /\ m \in pass'[p].took)
  BY <1>1 DEF Excepted, Active
<1>7. Bounded'
  BY <1>1, <1>4 DEF InboundInv, Bounded, Within
<1>8. Ahead'
  BY <1>1, <1>2, <1>4, <1>5 DEF InboundInv, Ahead
<1>9. Behind'
  <2>1. Apart'
    BY <1>1, <1>3 DEF InboundInv, Behind, Apart
  <2>2. QED
    BY <1>2, <1>4, <1>5, <1>6, <2>1 DEF InboundInv, Behind
<1>10. Single'
  BY <1>2 DEF InboundInv, Single
<1>11. QED
  BY <1>7, <1>8, <1>9, <1>10 DEF InboundInv

LEMMA NarrowKeeps ==
    ASSUME InboundInv, Typed', NEW p \in Passers, Narrowed(p),
           UNCHANGED <<parent, cursor, copies, delivered, raced, excused>>
    PROVE  InboundInv'
<1>1. /\ pass[p] \in ActivePass /\ pass'[p] \in ActivePass
      /\ pass[p].pc \in {"messages", "replies"} /\ pass'[p].pc = "replies"
      /\ pass'[p].cur = pass[p].cur /\ pass'[p].latest = pass[p].latest
      /\ pass'[p].batch = pass[p].batch /\ pass'[p].took = pass[p].took
      /\ \A q \in Passers : q # p => pass'[q] = pass[q]
  BY DEF Narrowed
<1>2. Posts' = Posts /\ (\A m : Times(m)' = Times(m)) /\ (\A m : Excepted(m)' = Excepted(m))
  BY DEF Posts, Times, Excepted
<1>3. Active(p) /\ \A q \in Passers : Active(q)' = Active(q)
  BY <1>1 DEF Active
<1>4. \A q \in Passers : q # p /\ Active(q)' => PassBounded(q)' /\ PassAhead(q)' /\ PassBehind(q)'
  BY <1>1, <1>2, <1>3, OtherKeeps
<1>5. \A m \in Posts : /\ Covered(cursor, m)' = Covered(cursor, m)
                       /\ Covered(pass[p].cur, m)' = Covered(pass[p].cur, m)
  BY <1>1 DEF Covered
<1>6. PassBounded(p)' /\ PassAhead(p)' /\ PassBehind(p)'
  <2>1. PassBounded(p) /\ PassAhead(p) /\ PassBehind(p)
    BY <1>3 DEF InboundInv, Bounded, Ahead, Behind
  <2>2. PassBounded(p)'
    BY <1>1, <1>2, <2>1 DEF PassBounded, Within
  <2>3. PassAhead(p)'
    BY <1>1, <1>2, <1>5, <2>1 DEF PassAhead
  <2>4. PassBehind(p)'
    BY <1>1, <1>2, <1>5, <2>1 DEF PassBehind
  <2>5. QED
    BY <2>2, <2>3, <2>4
<1>7. Bounded'
  BY <1>4, <1>6 DEF InboundInv, Bounded, Within
<1>8. Ahead'
  BY <1>2, <1>4, <1>5, <1>6 DEF InboundInv, Ahead
<1>9. Behind'
  <2>1. Apart'
    BY <1>1, <1>3 DEF InboundInv, Behind, Apart
  <2>2. \A q \in Passers : pass'[q].took = pass[q].took
    BY <1>1
  <2>3. QED
    BY <1>2, <1>3, <1>4, <1>5, <1>6, <2>1, <2>2 DEF InboundInv, Behind
<1>10. Single'
  BY <1>2 DEF InboundInv, Single
<1>11. QED
  BY <1>7, <1>8, <1>9, <1>10 DEF InboundInv

\* The parts about single passes, the cursor file and pairs of passes, assembled.
LEMMA Assemble ==
    ASSUME Typed', Within(cursor)', Apart', Single',
           \A q \in Passers : Active(q)' => PassBounded(q)' /\ PassAhead(q)' /\ PassBehind(q)',
           \A m \in Posts' : Times(m)' = 0 => ~Covered(cursor, m)' \/ m \in raced',
           \A m \in Posts' : Times(m)' > 0 =>
              Excepted(m)' \/ Covered(cursor, m)' \/ \E p \in Passers : Active(p)' /\ m \in pass'[p].took
    PROVE  InboundInv'
BY DEF InboundInv, Bounded, Ahead, Behind

LEMMA HistoryKeeps ==
    ASSUME InboundInv, Typed', NEW p \in Passers, FetchHistory(p)
    PROVE  InboundInv'
<1> DEFINE r == pass[p]
           msgs == conversation_history(r.cur.conv)
<1>0. Typed
  BY DEF InboundInv
<1>1. /\ r.pc = "history" /\ r \in ActivePass /\ pass'[p] \in ActivePass
      /\ \A q \in Passers : q # p => pass'[q] = pass[q]
      /\ pass'[p].pc = "messages" /\ pass'[p].batch = msgs /\ pass'[p].took = msgs
      /\ pass'[p].latest = Greatest(msgs, r.cur.conv) /\ pass'[p].cur.conv = r.cur.conv
      /\ \A t \in 1..MaxPosts : pass'[p].cur.threads[t] \in {r.cur.threads[t], Greatest({t}, r.cur.threads[t])}
      /\ \A t \in 1..MaxPosts : pass'[p].cur.threads[t] # r.cur.threads[t] => t \in Posts
  BY <1>0, HistoryResult
<1>2. /\ UNCHANGED <<parent, cursor, copies, delivered, raced>>
      /\ excused' = IF \E q \in Passers \ {p} : Active(q) THEN excused \cup msgs ELSE excused
  BY DEF FetchHistory, queue
<1>3. Posts' = Posts /\ (\A m : Times(m)' = Times(m)) /\ (\A m : Excepted(m) => Excepted(m)')
  BY <1>2 DEF Posts, Times, Excepted
<1>4. Active(p) /\ \A q \in Passers : Active(q)' = Active(q)
  BY <1>1, PassCases DEF Active, ActivePass, InboundInv
<1>5. \A q \in Passers : q # p /\ Active(q)' => PassBounded(q)' /\ PassAhead(q)' /\ PassBehind(q)'
  BY <1>1, <1>2, <1>3, <1>4, OtherKeeps
<1>6. /\ r.cur.conv \in Nat /\ \A t \in 1..MaxPosts : r.cur.threads[t] \in Nat
      /\ MaxPosts \in Nat /\ Len(parent) \in Nat
  BY <1>4, PassFacts, CursorFacts
<1>7. PassBounded(p) /\ PassAhead(p) /\ PassBehind(p)
  BY <1>4 DEF InboundInv, Bounded, Ahead, Behind
<1>8. /\ msgs \subseteq Posts /\ \A m \in msgs : parent[m] = 0 /\ ~(m <= r.cur.conv)
      /\ \A m \in Posts : parent[m] = 0 => m \in msgs \/ m <= r.cur.conv
  <2>1. \A m \in Posts : m \in Nat
    BY DEF Posts
  <2>2. QED
    BY <1>6, <2>1 DEF conversation_history
<1>9. /\ r.cur.conv <= pass'[p].latest /\ pass'[p].latest <= Len(parent)
      /\ \A m \in msgs : m <= pass'[p].latest
  <2>1. msgs \in SUBSET (0..Len(parent)) /\ r.cur.conv \in 0..Len(parent)
    BY <1>6, <1>7, <1>8 DEF Posts, PassBounded, Within
  <2> HIDE DEF msgs
  <2>2. /\ Greatest(msgs, r.cur.conv) \in 0..Len(parent) /\ r.cur.conv <= Greatest(msgs, r.cur.conv)
        /\ \A m \in msgs : m <= Greatest(msgs, r.cur.conv)
    BY <1>6, <2>1, GreatestFact
  <2>3. QED
    BY <1>1, <1>6, <2>2
<1>10. \A t \in 1..MaxPosts : /\ r.cur.threads[t] <= pass'[p].cur.threads[t]
                              /\ pass'[p].cur.threads[t] <= Len(parent)
                              /\ pass'[p].cur.threads[t] \in {t, r.cur.threads[t]}
  <2>1. SUFFICES ASSUME NEW t \in 1..MaxPosts
                 PROVE  /\ r.cur.threads[t] <= pass'[p].cur.threads[t]
                        /\ pass'[p].cur.threads[t] <= Len(parent)
                        /\ pass'[p].cur.threads[t] \in {t, r.cur.threads[t]}
    OBVIOUS
  <2>2. r.cur.threads[t] \in 0..Len(parent) /\ r.cur.threads[t] <= Len(parent)
    BY <1>6, <1>7 DEF PassBounded, Within
  <2>3. CASE pass'[p].cur.threads[t] = r.cur.threads[t]
    BY <1>6, <2>2, <2>3
  <2>4. CASE pass'[p].cur.threads[t] # r.cur.threads[t]
    <3>1. pass'[p].cur.threads[t] = Greatest({t}, r.cur.threads[t]) /\ t \in Posts
      BY <1>1, <2>4
    <3>2. {t} \in SUBSET (0..Len(parent))
      BY <3>1 DEF Posts
    <3>3. Greatest({t}, r.cur.threads[t]) \in {t} \cup {r.cur.threads[t]}
          /\ Greatest({t}, r.cur.threads[t]) \in 0..Len(parent)
          /\ r.cur.threads[t] <= Greatest({t}, r.cur.threads[t])
      BY <1>6, <2>2, <3>2, GreatestFact
    <3>4. QED
      BY <3>1, <3>3, <1>6
  <2>5. QED
    BY <2>3, <2>4
<1> DEFINE c == pass'[p].cur
<1>11. c.conv = r.cur.conv /\ \A t \in 1..MaxPosts : c.threads[t] \in Nat
  <2>1. pass'[p].cur.threads \in [1..MaxPosts -> 0..MaxPosts]
    BY <1>1 DEF ActivePass, CursorFile
  <2>2. QED
    BY <1>1, <1>6, <2>1
<1>12. \A m \in Posts : /\ Covered(r.cur, m) => Covered(pass[p].cur, m)'
                        /\ Covered(pass[p].cur, m)' => Covered(r.cur, m)
  <2>1. SUFFICES ASSUME NEW m \in Posts
                 PROVE  Covered(pass[p].cur, m)' = Covered(r.cur, m)
    OBVIOUS
  <2>2. CASE parent[m] = 0
    BY <1>2, <1>11, <2>2 DEF Covered
  <2>3. CASE parent[m] # 0
    <3>1. parent[m] \in 1..MaxPosts /\ parent[m] < m /\ m \in Nat
      BY <1>0, <2>3, ParentType
    <3>2. (m <= c.threads[parent[m]]) = (m <= r.cur.threads[parent[m]])
      <4> DEFINE t == parent[m]
      <4>1. /\ t \in Nat /\ t < m /\ r.cur.threads[t] \in Nat /\ c.threads[t] \in Nat
            /\ r.cur.threads[t] <= c.threads[t] /\ c.threads[t] \in {t, r.cur.threads[t]}
        BY <1>6, <1>10, <1>11, <3>1
      <4> HIDE DEF t, c, r
      <4>2. QED
        BY <3>1, <4>1 DEF t
    <3>3. QED
      BY <1>2, <2>3, <3>2 DEF Covered
  <2>4. QED
    BY <2>2, <2>3
<1>13. PassBounded(p)'
  BY <1>1, <1>2, <1>3, <1>7, <1>8, <1>9, <1>10 DEF PassBounded, Within
<1>14. PassAhead(p)'
  <2>1. SUFFICES ASSUME NEW m \in Posts, Times(m) = 0
                 PROVE  m \in msgs \/ m \in raced \/ (parent[m] # 0 /\ ~Covered(pass[p].cur, m)')
    BY <1>1, <1>2, <1>3 DEF PassAhead
  <2>2. ~Covered(r.cur, m) \/ m \in raced
    BY <1>1, <1>7, <2>1 DEF PassAhead
  <2>3. parent[m] = 0 /\ ~Covered(r.cur, m) => m \in msgs
    BY <1>8 DEF Covered
  <2>4. QED
    BY <1>12, <2>2, <2>3
<1>15. PassBehind(p)'
  <2>0. r.took = {} /\ \A m \in Posts : Times(m) \in Nat
    BY <1>0, <1>1, <1>7, TimesType DEF PassBounded, TimesTyped
  <2>1. \A m \in Posts : Times(m) > 0 => Excepted(m) \/ Covered(r.cur, m)
    BY <1>7, <2>0 DEF PassBehind
  <2>2. \A m \in msgs : Excepted(m) \/ Times(m) = 0
    <3>1. \A m \in msgs : m \in Posts /\ ~Covered(r.cur, m)
      BY <1>8 DEF Covered
    <3>2. QED
      BY <2>0, <2>1, <3>1
  <2>3. QED
    BY <1>1, <1>2, <1>3, <1>8, <1>9, <1>12, <2>1, <2>2 DEF PassBehind
<1>16. Apart'
  <2>1. Apart
    BY DEF InboundInv, Behind
  <2>2. SUFFICES ASSUME NEW q \in Passers, NEW u \in Passers, q # u, Active(q)', Active(u)'
                 PROVE  pass'[q].took \subseteq excused'
    BY DEF Apart
  <2>3. CASE q = p
    BY <1>1, <1>2, <1>4, <2>2, <2>3
  <2>4. CASE q # p
    BY <1>1, <1>2, <1>4, <2>1, <2>2, <2>4 DEF Apart
  <2>5. QED
    BY <2>3, <2>4
<1>17. Single'
  BY <1>3 DEF InboundInv, Single
<1>18. \A m \in Posts : Covered(cursor, m)' = Covered(cursor, m)
  BY <1>2 DEF Covered
<1>19. Within(cursor)' /\ \A m \in Posts' : Times(m)' = 0 => ~Covered(cursor, m)' \/ m \in raced'
  BY <1>2, <1>3, <1>18 DEF InboundInv, Bounded, Ahead, Within
<1>20. \A m \in Posts' : Times(m)' > 0 =>
          Excepted(m)' \/ Covered(cursor, m)' \/ \E q \in Passers : Active(q)' /\ m \in pass'[q].took
  <2>1. r.took = {}
    BY <1>1, <1>7 DEF PassBounded
  <2>2. \A m : \A q \in Passers : Active(q) /\ m \in pass[q].took => Active(q)' /\ m \in pass'[q].took
    BY <1>1, <1>4, <2>1
  <2>3. QED
    BY <1>3, <1>18, <2>2 DEF InboundInv, Behind
<1>21. QED
  BY <1>5, <1>13, <1>14, <1>15, <1>16, <1>17, <1>19, <1>20, Assemble

LEMMA EnqueueKeeps ==
    ASSUME InboundInv, NEW p \in Passers, PassEnqueue(p)
    PROVE  InboundInv'
<1>0. Typed
  BY DEF InboundInv
<1>1. /\ pass' \in [Passers -> ActivePass \cup {NoPass}]
      /\ pass[p].pc \in {"messages", "replies"} /\ pass[p] \in ActivePass /\ pass'[p] \in ActivePass
      /\ \A q \in Passers : q # p => pass'[q] = pass[q]
      /\ pass'[p].pc = pass[p].pc /\ pass'[p].cur = pass[p].cur
      /\ pass'[p].latest = pass[p].latest /\ pass'[p].took = pass[p].took
  BY <1>0, EnqueueResult
<1>2. PICK m \in pass[p].batch : pass'[p].batch = pass[p].batch \ {m} /\ copies' = enqueue_incoming(m)
  BY <1>0, EnqueueResult
<1>3. UNCHANGED <<parent, cursor, artifacts, buffer, delivered, raced, excused, left>>
  BY DEF PassEnqueue, budget
<1>4. Active(p) /\ \A q \in Passers : Active(q)' = Active(q)
  BY <1>1 DEF Active
<1>5. PassBounded(p) /\ PassAhead(p) /\ PassBehind(p) /\ Apart
  BY <1>4 DEF InboundInv, Bounded, Ahead, Behind
<1>6. m \in Posts /\ m \in pass[p].took
  BY <1>5 DEF PassBounded
<1>7. /\ copies' \in Seq(Seq(Stages)) /\ Len(copies') = Len(parent')
      /\ \A n \in Posts : n # m => Times(n)' = Times(n)
      /\ Times(m)' \in {Times(m), Times(m) + 1} /\ Times(m)' > 0
  BY <1>0, <1>2, <1>3, <1>6, EnqueueFact
<1>8. Typed'
  BY <1>0, <1>1, <1>3, <1>7 DEF Typed, Posts
<1>9. Posts' = Posts /\ (\A n : Excepted(n)' = Excepted(n)) /\ \A n \in Posts : Times(n) \in Nat
  BY <1>0, <1>3, TimesType DEF Posts, Excepted, TimesTyped
<1>10. Excepted(m) \/ Times(m) = 0
  BY <1>2, <1>5, <1>6 DEF PassBehind
<1>11. \A q \in Passers : q # p /\ Active(q)' => PassBounded(q)' /\ PassAhead(q)' /\ PassBehind(q)'
  <2>1. SUFFICES ASSUME NEW q \in Passers, q # p, Active(q)
                 PROVE  PassBounded(q)' /\ PassAhead(q)' /\ PassBehind(q)'
    BY <1>4
  <2>2. Excepted(m)'
    BY <1>4, <1>5, <1>6, <1>9, <2>1 DEF Apart, Excepted
  <2>3. \A n \in Posts : Times(n)' = Times(n) \/ (Excepted(n)' /\ Times(n)' > 0)
    BY <1>7, <2>2
  <2>4. QED
    BY <1>1, <1>3, <2>1, <2>3, OtherKeeps
<1>12. \A n \in Posts : /\ Covered(cursor, n)' = Covered(cursor, n)
                        /\ Covered(pass[p].cur, n)' = Covered(pass[p].cur, n)
  BY <1>1, <1>3 DEF Covered
<1>13. \A n \in Posts : Times(n)' = 0 => Times(n) = 0 /\ n # m
  BY <1>7
<1>14. \A n \in Posts : Times(n)' > 0 => Times(n) > 0 \/ n = m
  BY <1>7
<1>15. PassBounded(p)' /\ PassAhead(p)' /\ PassBehind(p)'
  <2>1. PassBounded(p)'
    BY <1>1, <1>2, <1>3, <1>5, <1>9 DEF PassBounded, Within
  <2>2. PassAhead(p)'
    <3>1. SUFFICES ASSUME NEW n \in Posts, Times(n)' = 0
                   PROVE  n \in pass'[p].batch \/ n \in raced \/ (parent[n] # 0 /\ ~Covered(pass[p].cur, n))
      BY <1>1, <1>3, <1>9, <1>12 DEF PassAhead
    <3>2. n \in pass[p].batch \/ n \in raced \/ (parent[n] # 0 /\ ~Covered(pass[p].cur, n))
      BY <1>1, <1>5, <1>13, <3>1 DEF PassAhead
    <3>3. QED
      BY <1>2, <1>13, <3>1, <3>2
  <2>3. PassBehind(p)'
    <3>1. SUFFICES ASSUME NEW n \in Posts
          PROVE /\ Times(n)' > 0 => Excepted(n) \/ Covered(pass[p].cur, n) \/ n \in pass[p].took
                /\ n \in pass[p].took => IF parent[n] = 0 THEN n <= pass[p].latest
                                         ELSE n <= pass[p].cur.threads[parent[n]]
                /\ n \in pass'[p].batch => Excepted(n) \/ Times(n)' = 0
      BY <1>1, <1>3, <1>9, <1>12 DEF PassBehind
    <3>2. QED
      BY <1>2, <1>5, <1>6, <1>7, <1>14 DEF PassBehind
  <2>4. QED
    BY <2>1, <2>2, <2>3
<1>16. Apart'
  BY <1>1, <1>3, <1>4, <1>5 DEF Apart
<1>17. Single'
  <2>1. \A n \in Posts : Times(n)' > 1 => Times(n) > 1 \/ (n = m /\ Times(m) # 0)
    BY <1>7, <1>9
  <2>2. QED
    BY <1>9, <1>10, <2>1 DEF InboundInv, Single
<1>18. Within(cursor)' /\ \A n \in Posts' : Times(n)' = 0 => ~Covered(cursor, n)' \/ n \in raced'
  BY <1>3, <1>9, <1>12, <1>13 DEF InboundInv, Bounded, Ahead, Within
<1>19. \A n \in Posts' : Times(n)' > 0 =>
          Excepted(n)' \/ Covered(cursor, n)' \/ \E q \in Passers : Active(q)' /\ n \in pass'[q].took
  <2>1. \A q \in Passers : pass'[q].took = pass[q].took
    BY <1>1
  <2>2. QED
    BY <1>4, <1>6, <1>9, <1>12, <1>14, <2>1 DEF InboundInv, Behind
<1>20. QED
  BY <1>8, <1>11, <1>15, <1>16, <1>17, <1>18, <1>19, Assemble

LEMMA RepliesKeeps ==
    ASSUME InboundInv, Typed', NEW p \in Passers, FetchReplies(p)
    PROVE  InboundInv'
<1> DEFINE r == pass[p]
<1>0. Typed
  BY DEF InboundInv
<1>1. /\ r.pc = "replies" /\ r \in ActivePass /\ pass'[p] \in ActivePass /\ r.batch = {}
      /\ \A q \in Passers : q # p => pass'[q] = pass[q]
      /\ pass'[p].pc = "replies" /\ pass'[p].cur.conv = r.cur.conv
  BY <1>0, RepliesResult
<1>2. PICK t \in 1..MaxPosts :
        LET old == r.cur.threads[t]
            rs == conversation_replies(t, old)
        IN  /\ pass'[p].batch = rs /\ pass'[p].took = r.took \cup rs
            /\ pass'[p].latest = Greatest(rs, r.latest)
            /\ pass'[p].cur.threads = [r.cur.threads EXCEPT ![t] = Greatest(rs, old)]
            /\ excused' = IF \E q \in Passers \ {p} : Active(q) THEN excused \cup rs ELSE excused
  BY <1>0, RepliesResult
<1> DEFINE old == r.cur.threads[t]
           rs == conversation_replies(t, old)
<1>3. /\ UNCHANGED <<parent, cursor, copies, delivered, raced>>
      /\ excused' = IF \E q \in Passers \ {p} : Active(q) THEN excused \cup rs ELSE excused
      /\ excused \subseteq excused'
  BY <1>2 DEF FetchReplies, queue
<1>4. Active(p) /\ \A q \in Passers : Active(q)' = Active(q)
  BY <1>1 DEF Active
<1>5. Posts' = Posts /\ (\A m : Times(m)' = Times(m)) /\ (\A m : Excepted(m) => Excepted(m)')
  BY <1>3 DEF Posts, Times, Excepted
<1>6. \A q \in Passers : q # p /\ Active(q)' => PassBounded(q)' /\ PassAhead(q)' /\ PassBehind(q)'
  BY <1>1, <1>3, <1>4, <1>5, OtherKeeps
<1>7. /\ r.cur.conv \in Nat /\ r.latest \in Nat /\ (\A u \in 1..MaxPosts : r.cur.threads[u] \in Nat)
      /\ MaxPosts \in Nat /\ Len(parent) \in Nat /\ DOMAIN r.cur.threads = 1..MaxPosts
  BY <1>4, PassFacts, CursorFacts
<1>8. PassBounded(p) /\ PassAhead(p) /\ PassBehind(p)
  BY <1>4 DEF InboundInv, Bounded, Ahead, Behind
<1>9. /\ rs \subseteq Posts /\ \A m \in rs : parent[m] = t /\ ~(m <= old)
      /\ \A m \in Posts : parent[m] = t => m \in rs \/ m <= old
  <2>1. (\A m \in Posts : m \in Nat) /\ old \in Nat
    BY <1>7 DEF Posts
  <2> HIDE DEF old
  <2>2. QED
    BY <2>1 DEF conversation_replies, Replies
<1>10. /\ Greatest(rs, old) \in 0..Len(parent) /\ old <= Greatest(rs, old)
       /\ Greatest(rs, old) \in rs \cup {old} /\ \A m \in rs : m <= Greatest(rs, old)
  <2>1. rs \in SUBSET (0..Len(parent)) /\ old \in 0..Len(parent)
    BY <1>7, <1>8, <1>9 DEF Posts, PassBounded, Within
  <2> HIDE DEF rs, old
  <2>2. QED
    BY <1>7, <2>1, GreatestFact
<1>11. /\ Greatest(rs, r.latest) \in 0..Len(parent) /\ r.latest <= Greatest(rs, r.latest)
  <2>1. rs \in SUBSET (0..Len(parent)) /\ r.latest \in 0..Len(parent)
    BY <1>7, <1>8, <1>9 DEF Posts, PassBounded
  <2> HIDE DEF rs
  <2>2. QED
    BY <1>7, <2>1, GreatestFact
<1> DEFINE c == pass'[p].cur
<1>12. /\ c.conv = r.cur.conv /\ c.threads[t] = Greatest(rs, old)
       /\ \A u \in 1..MaxPosts : u # t => c.threads[u] = r.cur.threads[u]
  <2>1. c.threads = [r.cur.threads EXCEPT ![t] = Greatest(rs, old)]
    BY <1>2
  <2> HIDE DEF rs, old, c
  <2>2. QED
    BY <1>1, <1>7, <2>1 DEF c
<1>13. \A u \in 1..MaxPosts : c.threads[u] \in Nat /\ r.cur.threads[u] <= c.threads[u] /\ c.threads[u] <= Len(parent)
  <2>1. \A u \in 1..MaxPosts : r.cur.threads[u] <= Len(parent)
    BY <1>8 DEF PassBounded, Within
  <2> HIDE DEF rs, c, r
  <2>2. QED
    BY <1>7, <1>10, <1>12, <2>1
<1>14. \A m \in Posts : Covered(r.cur, m) => Covered(pass[p].cur, m)'
  <2>1. SUFFICES ASSUME NEW m \in Posts, Covered(r.cur, m) PROVE Covered(pass[p].cur, m)'
    OBVIOUS
  <2>2. CASE parent[m] = 0
    BY <1>3, <1>12, <2>1, <2>2 DEF Covered
  <2>3. CASE parent[m] # 0
    <3>1. parent[m] \in 1..MaxPosts /\ m \in Nat
      BY <1>0, <2>3, ParentType
    <3>2. m <= c.threads[parent[m]]
      BY <1>7, <1>13, <2>1, <2>3, <3>1 DEF Covered
    <3>3. QED
      BY <1>3, <2>3, <3>2 DEF Covered
  <2>4. QED
    BY <2>2, <2>3
<1>15. \A m \in Posts : Covered(pass[p].cur, m)' => Covered(r.cur, m) \/ m \in rs
  <2>1. SUFFICES ASSUME NEW m \in Posts, Covered(pass[p].cur, m)' PROVE Covered(r.cur, m) \/ m \in rs
    OBVIOUS
  <2>2. CASE parent[m] = 0
    BY <1>3, <1>12, <2>1, <2>2 DEF Covered
  <2>3. CASE parent[m] # 0 /\ parent[m] # t
    <3>1. parent[m] \in 1..MaxPosts
      BY <1>0, <2>3, ParentType
    <3>2. QED
      BY <1>3, <1>12, <2>1, <2>3, <3>1 DEF Covered
  <2>4. CASE parent[m] # 0 /\ parent[m] = t
    BY <1>9, <2>4 DEF Covered
  <2>5. QED
    BY <2>2, <2>3, <2>4
<1>16. PassBounded(p)'
  <2>1. /\ pass'[p].cur.conv <= pass'[p].latest /\ pass'[p].latest <= Len(parent)
    <3>1. r.cur.conv <= r.latest
      BY <1>8 DEF PassBounded
    <3>2. pass'[p].latest = Greatest(rs, r.latest)
      BY <1>2
    <3> HIDE DEF rs
    <3>3. QED
      BY <1>1, <1>7, <1>11, <3>1, <3>2
  <2>2. Within(pass[p].cur)'
    BY <1>3, <1>8, <1>12, <1>13 DEF Within, PassBounded
  <2>3. QED
    BY <1>1, <1>2, <1>3, <1>5, <1>8, <1>9, <2>1, <2>2 DEF PassBounded
<1>17. PassAhead(p)'
  <2>1. SUFFICES ASSUME NEW m \in Posts, Times(m) = 0
                 PROVE  m \in rs \/ m \in raced \/ (parent[m] # 0 /\ ~Covered(pass[p].cur, m)')
    BY <1>1, <1>2, <1>3, <1>5 DEF PassAhead
  <2>2. m \in raced \/ (parent[m] # 0 /\ ~Covered(r.cur, m))
    BY <1>1, <1>8, <2>1 DEF PassAhead
  <2>3. QED
    BY <1>15, <2>2
<1>18. PassBehind(p)'
  <2>0. \A m \in Posts : Times(m) \in Nat
    BY <1>0, TimesType DEF TimesTyped
  <2>1. \A m \in rs : m \notin r.took
    <3>1. \A m \in rs : m \in Posts /\ parent[m] = t /\ t # 0 /\ ~(m <= old)
      BY <1>9
    <3>2. QED
      BY <1>8, <3>1 DEF PassBehind
  <2>2. \A m \in rs : ~Covered(r.cur, m)
    <3>1. \A m \in rs : parent[m] = t /\ t # 0 /\ ~(m <= old)
      BY <1>9
    <3>2. QED
      BY <3>1 DEF Covered
  <2>3. \A m \in rs : Excepted(m) \/ Times(m) = 0
    BY <1>8, <1>9, <2>0, <2>1, <2>2 DEF PassBehind
  <2>4. \A m \in Posts : m \in r.took \cup rs => IF parent[m] = 0 THEN m <= pass'[p].latest
                                               ELSE m <= c.threads[parent[m]]
    <3>1. SUFFICES ASSUME NEW m \in Posts, m \in r.took \cup rs
                   PROVE  IF parent[m] = 0 THEN m <= pass'[p].latest ELSE m <= c.threads[parent[m]]
      OBVIOUS
    <3>2. m \in Nat /\ parent[m] \in 0..MaxPosts /\ (parent[m] # 0 => parent[m] \in 1..MaxPosts)
      BY <1>0, ParentType
    <3>3. CASE m \in rs
      <4>1. parent[m] = t /\ t # 0 /\ m <= Greatest(rs, old) /\ c.threads[t] = Greatest(rs, old)
        BY <1>9, <1>10, <1>12, <3>3
      <4> HIDE DEF rs, old, c
      <4>2. QED
        BY <4>1
    <3>4. CASE m \in r.took
      <4>1. IF parent[m] = 0 THEN m <= r.latest ELSE m <= r.cur.threads[parent[m]]
        BY <1>8, <3>4 DEF PassBehind
      <4>2. pass'[p].latest = Greatest(rs, r.latest) /\ r.latest <= Greatest(rs, r.latest)
            /\ Greatest(rs, r.latest) \in Nat
        BY <1>2, <1>7, <1>11
      <4>3. CASE parent[m] = 0
        <5> HIDE DEF rs
        <5>1. QED
          BY <1>7, <3>2, <4>1, <4>2, <4>3
      <4>4. CASE parent[m] # 0
        <5> HIDE DEF c
        <5>1. QED
          BY <1>7, <1>13, <3>2, <4>1, <4>4
      <4>5. QED
        BY <4>3, <4>4
    <3>5. QED
      BY <3>1, <3>3, <3>4
  <2>5. SUFFICES ASSUME NEW m \in Posts
          PROVE /\ Times(m) > 0 => Excepted(m)' \/ Covered(pass[p].cur, m)' \/ m \in r.took \cup rs
                /\ m \in r.took \cup rs => IF parent[m] = 0 THEN m <= pass'[p].latest
                                         ELSE m <= c.threads[parent[m]]
                /\ m \in rs => Excepted(m)' \/ Times(m) = 0
    BY <1>2, <1>3, <1>5 DEF PassBehind
  <2>6. Times(m) > 0 => Excepted(m) \/ Covered(r.cur, m) \/ m \in r.took
    BY <1>8 DEF PassBehind
  <2>7. QED
    BY <1>5, <1>14, <2>3, <2>4, <2>6
<1>19. Apart'
  <2>1. Apart
    BY DEF InboundInv, Behind
  <2>2. SUFFICES ASSUME NEW q \in Passers, NEW u \in Passers, q # u, Active(q)', Active(u)'
                 PROVE  pass'[q].took \subseteq excused'
    BY DEF Apart
  <2>3. CASE q = p
    <3>1. pass[p].took \subseteq excused /\ \E v \in Passers \ {p} : Active(v)
      BY <1>4, <2>1, <2>2, <2>3 DEF Apart
    <3>2. pass'[p].took = r.took \cup rs
      BY <1>2
    <3>3. QED
      BY <1>3, <2>3, <3>1, <3>2
  <2>4. CASE q # p
    BY <1>1, <1>3, <1>4, <2>1, <2>2, <2>4 DEF Apart
  <2>5. QED
    BY <2>3, <2>4
<1>20. Single'
  BY <1>5 DEF InboundInv, Single
<1>21. \A m \in Posts : Covered(cursor, m)' = Covered(cursor, m)
  BY <1>3 DEF Covered
<1>22. Within(cursor)' /\ \A m \in Posts' : Times(m)' = 0 => ~Covered(cursor, m)' \/ m \in raced'
  BY <1>3, <1>5, <1>21 DEF InboundInv, Bounded, Ahead, Within
<1>23. \A m \in Posts' : Times(m)' > 0 =>
          Excepted(m)' \/ Covered(cursor, m)' \/ \E q \in Passers : Active(q)' /\ m \in pass'[q].took
  <2>1. pass'[p].took = r.took \cup rs
    BY <1>2
  <2>2. \A m : \A q \in Passers : Active(q) /\ m \in pass[q].took => Active(q)' /\ m \in pass'[q].took
    BY <1>1, <1>4, <2>1
  <2>3. QED
    BY <1>5, <1>21, <2>2 DEF InboundInv, Behind
<1>24. QED
  BY <1>6, <1>16, <1>17, <1>18, <1>19, <1>20, <1>22, <1>23, Assemble

\* Writing the cursor file: the pass hands over to the file what it covered and took.
LEMMA SavedKeeps ==
    ASSUME InboundInv, Typed', NEW p \in Passers, Active(p), pass' = [pass EXCEPT ![p] = NoPass],
           UNCHANGED <<parent, copies, delivered, raced, excused>>, Within(cursor)',
           \A m \in Posts : Times(m) = 0 => ~Covered(cursor, m)' \/ m \in raced,
           \A m \in Posts : Times(m) > 0 => Excepted(m) \/ Covered(cursor, m)'
    PROVE  InboundInv'
<1>1. pass'[p] = NoPass /\ \A q \in Passers : q # p => pass'[q] = pass[q]
  BY DEF InboundInv, Typed
<1>2. \A q \in Passers : Active(q)' => q # p /\ Active(q) /\ pass'[q] = pass[q]
  BY <1>1 DEF Active, NoPass
<1>3. Posts' = Posts /\ (\A m : Times(m)' = Times(m)) /\ (\A m : Excepted(m)' = Excepted(m))
  BY DEF Posts, Times, Excepted
<1>4. \A q \in Passers : Active(q)' => PassBounded(q)' /\ PassAhead(q)' /\ PassBehind(q)'
  BY <1>2, <1>3, OtherKeeps
<1>5. Apart'
  BY <1>2 DEF InboundInv, Behind, Apart
<1>6. Single'
  BY <1>3 DEF InboundInv, Single
<1>7. \A m \in Posts' : Times(m)' > 0 => Excepted(m)' \/ Covered(cursor, m)'
  BY <1>3
<1>8. QED
  BY <1>3, <1>4, <1>5, <1>6, <1>7, Assemble

LEMMA SaveKeeps ==
    ASSUME InboundInv, DraftInv, NEW p \in Passers, PassSave(p)
    PROVE  InboundInv'
<1>0. Typed
  BY DEF InboundInv
<1>1. /\ Active(p) /\ Saving /\ pass' = [pass EXCEPT ![p] = NoPass] /\ cursor' \in draft
      /\ UNCHANGED <<parent, copies, artifacts, buffer, delivered, raced, excused, left>>
  BY DEF PassSave, Active, Saving, queue, budget
<1>2. cursor' \in CursorFile /\ Within(cursor)'
  BY <1>1 DEF DraftInv, Within
<1>3. \A m \in Posts : /\ Times(m) = 0 => ~Covered(cursor, m)' \/ m \in raced
                       /\ Times(m) > 0 => Excepted(m) \/ Covered(cursor, m)'
  BY <1>1 DEF DraftInv, Covered
<1>4. Typed'
  BY <1>0, <1>1, <1>2, PassTyped DEF Typed
<1>5. QED
  BY <1>1, <1>2, <1>3, <1>4, SavedKeeps

\* What a pass writes to cursor.json.tmp: its cursors with the conversation's
\* moved to the latest post.
LEMMA WriteResult ==
    ASSUME InboundInv, NEW p \in Passers, PassWrite(p) \/ PassNotInChannel(p)
    PROVE  /\ Active(p) /\ pass[p].batch = {}
           /\ pass' \in [Passers -> ActivePass \cup {NoPass}] /\ pass'[p] \in ActivePass
           /\ \A q \in Passers : q # p => pass'[q] = pass[q]
           /\ pass'[p].pc = "saving" /\ draft' = {pass'[p].cur}
           /\ pass'[p].latest = pass[p].latest /\ pass'[p].took = pass[p].took /\ pass'[p].batch = {}
           /\ pass'[p].cur.threads = pass[p].cur.threads
           /\ IF pass[p].pc = "history" THEN pass[p].took = {} /\ pass'[p].cur.conv = pass[p].cur.conv
              ELSE pass'[p].cur.conv = pass[p].latest
           /\ pass[p].pc \in {"history", "replies"}
           /\ UNCHANGED <<parent, cursor, copies, artifacts, buffer, delivered, raced, excused>>
           /\ left' \in Budgets /\ left'.posts = left.posts
<1> DEFINE r == pass[p]
<1>0. Typed /\ left \in Budgets
  BY DEF InboundInv, Typed
<1>1. Active(p) /\ r.pc \in {"history", "replies"}
  BY DEF PassWrite, PassNotInChannel, Active
<1>2. r \in ActivePass /\ r.cur \in CursorFile /\ PassBounded(p)
  BY <1>1, PassFacts DEF InboundInv, Bounded
<1>3. r.batch = {} /\ (r.pc = "history" => r.took = {})
  BY <1>2 DEF PassBounded, PassWrite, PassNotInChannel
<1>4. left' \in Budgets /\ left'.posts = left.posts
  BY <1>0, SpendKeepsPosts DEF PassWrite, PassNotInChannel, budget
<1>5. PICK c : /\ c \in {[r.cur EXCEPT !.conv = r.latest], r.cur} /\ WriteDraft(p, c)
               /\ IF r.pc = "history" THEN c = r.cur ELSE c = [r.cur EXCEPT !.conv = r.latest]
  BY DEF PassWrite, PassNotInChannel
<1>6. /\ c \in CursorFile /\ c.threads = r.cur.threads
      /\ c.conv = IF r.pc = "history" THEN r.cur.conv ELSE r.latest
  <2>1. r.latest \in 0..MaxPosts
    BY <1>2 DEF ActivePass
  <2> HIDE DEF r
  <2>2. QED
    BY <1>2, <1>5, <2>1 DEF CursorFile
<1> DEFINE n == [r EXCEPT !.pc = "saving", !.cur = c]
<1>7. /\ n \in ActivePass /\ n.pc = "saving" /\ n.cur = c /\ n.latest = r.latest
      /\ n.took = r.took /\ n.batch = r.batch
  <2> HIDE DEF r
  <2>1. QED
    BY <1>2, <1>6 DEF ActivePass
<1>8. pass' = [pass EXCEPT ![p] = n] /\ draft' = {c}
      /\ UNCHANGED <<parent, cursor, copies, artifacts, buffer, delivered, raced, excused>>
  BY <1>5 DEF WriteDraft, queue
<1> HIDE DEF n
<1>9. pass'[p] = n /\ pass' \in [Passers -> ActivePass \cup {NoPass}]
      /\ \A q \in Passers : q # p => pass'[q] = pass[q]
  BY <1>0, <1>7, <1>8 DEF Typed
<1>10. QED
  BY <1>1, <1>3, <1>4, <1>6, <1>7, <1>8, <1>9

LEMMA WriteKeeps ==
    ASSUME InboundInv, NEW p \in Passers, PassWrite(p) \/ PassNotInChannel(p)
    PROVE  InboundInv' /\ DraftInv'
<1> DEFINE r == pass[p]
           n == pass'[p]
<1>0. Typed /\ cursor \in CursorFile
  BY DEF InboundInv, Typed
<1>1. /\ Active(p) /\ r.batch = {}
      /\ pass' \in [Passers -> ActivePass \cup {NoPass}] /\ n \in ActivePass
      /\ \A q \in Passers : q # p => pass'[q] = pass[q]
      /\ n.pc = "saving" /\ draft' = {n.cur}
      /\ n.latest = r.latest /\ n.took = r.took /\ n.batch = {} /\ n.cur.threads = r.cur.threads
      /\ IF r.pc = "history" THEN r.took = {} /\ n.cur.conv = r.cur.conv ELSE n.cur.conv = r.latest
      /\ r.pc \in {"history", "replies"}
      /\ UNCHANGED <<parent, cursor, copies, artifacts, buffer, delivered, raced, excused>>
      /\ left' \in Budgets /\ left'.posts = left.posts
  BY WriteResult
<1>2. Typed'
  BY <1>0, <1>1, PassTyped
<1>3. PassBounded(p) /\ PassAhead(p) /\ PassBehind(p)
  BY <1>1 DEF InboundInv, Bounded, Ahead, Behind
<1>4. /\ r.cur.conv \in Nat /\ r.latest \in Nat /\ r.cur.conv <= r.latest /\ n.cur.conv \in Nat
      /\ \A t \in 1..MaxPosts : r.cur.threads[t] \in Nat
  BY <1>1, <1>3, PassFacts DEF PassBounded
<1>5. Posts' = Posts /\ (\A m : Times(m)' = Times(m)) /\ (\A m : Excepted(m)' = Excepted(m))
  BY <1>1 DEF Posts, Times, Excepted
<1>6. \A q \in Passers : /\ Active(q)' = Active(q) /\ pass'[q].took = pass[q].took
  BY <1>1 DEF Active
<1>7. \A q \in Passers : q # p /\ Active(q)' => PassBounded(q)' /\ PassAhead(q)' /\ PassBehind(q)'
  BY <1>1, <1>5, <1>6, OtherKeeps
<1>8. \A m \in Posts : /\ Covered(cursor, m)' = Covered(cursor, m)
                       /\ Covered(pass[p].cur, m)' = IF parent[m] = 0 THEN m <= n.cur.conv ELSE m <= r.cur.threads[parent[m]]
  BY <1>1 DEF Covered
<1>9. PassBounded(p)'
  <2>1. n.cur.conv <= r.latest
    BY <1>1, <1>4
  <2>2. n.cur.conv <= Len(parent)
    BY <1>1, <1>3 DEF PassBounded, Within
  <2>3. QED
    BY <1>1, <1>3, <1>5, <2>1, <2>2 DEF PassBounded, Within
<1>10. PassAhead(p)'
  <2>1. ASSUME NEW m \in Posts, Times(m) = 0
        PROVE  ~Covered(pass[p].cur, m)' \/ m \in raced
    <3>1. CASE r.pc = "history"
      <4>1. ~Covered(r.cur, m) \/ m \in raced
        BY <1>3, <2>1, <3>1 DEF PassAhead
      <4>2. CASE parent[m] # 0
        BY <1>8, <4>1, <4>2 DEF Covered
      <4>3. CASE parent[m] = 0
        BY <1>1, <1>8, <3>1, <4>1, <4>3 DEF Covered
      <4>4. QED
        BY <4>2, <4>3
    <3>2. CASE r.pc = "replies"
      <4>1. m \in raced \/ (parent[m] # 0 /\ ~Covered(r.cur, m))
        BY <1>1, <1>3, <2>1, <3>2 DEF PassAhead
      <4>2. QED
        BY <1>8, <4>1 DEF Covered
    <3>3. QED
      BY <1>1, <3>1, <3>2
  <2>2. QED
    BY <1>1, <1>5, <2>1 DEF PassAhead
<1>11. ASSUME NEW m \in Posts, Covered(r.cur, m) \/ m \in r.took
       PROVE  Covered(pass[p].cur, m)'
  <2>1. m \in Nat
    BY <1>0, ParentType
  <2>2. CASE m \in r.took
    BY <1>1, <1>3, <1>8, <2>2 DEF PassBehind
  <2>3. CASE Covered(r.cur, m)
    <3>1. CASE parent[m] = 0
      BY <1>1, <1>4, <1>8, <2>1, <2>3, <3>1 DEF Covered
    <3>2. CASE parent[m] # 0
      BY <1>8, <2>3, <3>2 DEF Covered
    <3>3. QED
      BY <3>1, <3>2
  <2>4. QED
    BY <1>11, <2>2, <2>3
<1>12. PassBehind(p)'
  BY <1>1, <1>3, <1>5, <1>11 DEF PassBehind
<1>13. InboundInv'
  <2>1. Within(cursor)' /\ Single' /\ Apart'
    BY <1>1, <1>5, <1>6 DEF InboundInv, Bounded, Within, Single, Behind, Apart
  <2>2. /\ \A m \in Posts' : Times(m)' = 0 => ~Covered(cursor, m)' \/ m \in raced'
        /\ \A m \in Posts' : Times(m)' > 0 =>
              Excepted(m)' \/ Covered(cursor, m)' \/ \E q \in Passers : Active(q)' /\ m \in pass'[q].took
    BY <1>1, <1>5, <1>6, <1>8 DEF InboundInv, Ahead, Behind
  <2>3. QED
    BY <1>2, <1>7, <1>9, <1>10, <1>12, <2>1, <2>2, Assemble
<1>14. DraftInv'
  <2>1. n.cur \in CursorFile
    BY <1>1 DEF ActivePass
  <2>2. Within(pass[p].cur)' /\ \A m \in Posts : Times(m) = 0 => ~Covered(pass[p].cur, m)' \/ m \in raced
    BY <1>1, <1>5, <1>9, <1>10 DEF PassBounded, PassAhead
  <2>3. \A m \in Posts : Times(m) > 0 => Excepted(m) \/ Covered(pass[p].cur, m)'
    BY <1>3, <1>11 DEF PassBehind
  <2>4. QED
    BY <1>1, <1>5, <2>1, <2>2, <2>3 DEF DraftInv, Within, Covered
<1>15. QED
  BY <1>13, <1>14

LEMMA FailKeeps ==
    ASSUME InboundInv, NEW p \in Passers, NEW next, PassFail(p, next)
    PROVE  InboundInv'
<1>0. Typed
  BY DEF InboundInv
<1>1. /\ Active(p) /\ pass' = [pass EXCEPT ![p] = NoPass] /\ (Spend("faults") \/ UNCHANGED left)
      /\ excused' = excused \cup pass[p].took
      /\ UNCHANGED <<parent, cursor, copies, artifacts, buffer, delivered, raced>>
  BY DEF PassFail, queue, budget
<1>2. pass'[p] = NoPass /\ (\A q \in Passers : q # p => pass'[q] = pass[q])
      /\ pass' \in [Passers -> ActivePass \cup {NoPass}]
  BY <1>0, <1>1 DEF Typed
<1>3. Typed'
  BY <1>0, <1>1, <1>2, SpendKeepsPosts, PassTyped DEF Typed
<1>4. Dropped
  BY <1>1, <1>2 DEF Dropped
<1>5. QED
  BY <1>3, <1>4, DropKeeps

LEMMA CutKeeps ==
    ASSUME InboundInv, NEW ps \in SUBSET Passers, NEW es, CutOff(ps, es),
           UNCHANGED buffer \/ buffer' = [i \in Loops |-> <<>>]
    PROVE  InboundInv'
<1>0. Typed
  BY DEF InboundInv
<1>1. /\ pass' = [p \in Passers |-> IF p \in ps THEN NoPass ELSE pass[p]]
      /\ excused' = excused \cup UNION {pass[p].took : p \in {q \in ps : Active(q)}}
      /\ UNCHANGED <<parent, cursor, copies, artifacts, delivered, raced, left>>
  BY DEF CutOff, queue, budget
<1>2. pass' \in [Passers -> ActivePass \cup {NoPass}]
  BY <1>0, <1>1 DEF Typed
<1>3. /\ buffer' \in [Loops -> Seq(1..MaxPosts)]
      /\ \A i \in Loops : \A n \in 1..Len(buffer'[i]) : buffer'[i][n] \in delivered'
  <2>1. CASE UNCHANGED buffer
    BY <1>0, <1>1, <2>1 DEF Typed
  <2>2. CASE buffer' = [i \in Loops |-> <<>>]
    BY <2>2
  <2>3. QED
    BY <2>1, <2>2
<1>4. Typed'
  BY <1>0, <1>1, <1>2, <1>3 DEF Typed, Posts
<1>5. Dropped
  BY <1>1 DEF Dropped
<1>6. QED
  BY <1>4, <1>5, DropKeeps

LEMMA PassKeeps ==
    ASSUME InboundInv, DraftInv, NEW p \in Passers, Pass(p)
    PROVE  InboundInv'
<1>0. Typed /\ left \in Budgets /\ cursor \in CursorFile
  BY DEF InboundInv, Typed
<1>1. CASE FetchHistory(p)
  <2>1. Typed'
    BY <1>0, <1>1, HistoryResult, PassTyped DEF FetchHistory, queue, budget
  <2>2. QED
    BY <1>1, <2>1, HistoryKeeps
<1>2. CASE PassEnqueue(p)
  BY <1>2, EnqueueKeeps
<1>3. CASE DiscoverThreads(p)
  <2>1. UNCHANGED <<parent, cursor, copies, artifacts, buffer, delivered, raced, excused, left>>
    BY <1>3 DEF DiscoverThreads, queue, budget
  <2>2. Typed'
    BY <1>0, <1>3, <2>1, DiscoverResult, PassTyped
  <2>3. QED
    BY <1>0, <1>3, <2>1, <2>2, DiscoverResult, NarrowKeeps
<1>4. CASE FetchReplies(p)
  <2>1. Typed'
    BY <1>0, <1>4, RepliesResult, PassTyped DEF FetchReplies, queue, budget
  <2>2. QED
    BY <1>4, <2>1, RepliesKeeps
<1>5. CASE ThreadNotInChannel(p)
  <2>1. UNCHANGED <<parent, cursor, copies, artifacts, buffer, delivered, raced, excused>> /\ Spend("faults")
    BY <1>5 DEF ThreadNotInChannel, queue
  <2>2. Typed'
    BY <1>0, <1>5, <2>1, SpendKeepsPosts, ThreadSkipResult, PassTyped
  <2>3. QED
    BY <1>0, <1>5, <2>1, <2>2, ThreadSkipResult, NarrowKeeps
<1>6. CASE PassSave(p)
  BY <1>6, SaveKeeps
<1>9. CASE PassWrite(p) \/ PassNotInChannel(p)
  BY <1>9, WriteKeeps
<1>7. CASE \E next \in {"top", "failed"} : PassFail(p, next)
  BY <1>7, FailKeeps
<1>8. QED
  BY <1>1, <1>2, <1>3, <1>4, <1>5, <1>6, <1>7, <1>9 DEF Pass

LEMMA CommandPasses == 0 \in Passers /\ Command \in Passers
BY ConstantsOK DEF Passers, Command

LEMMA RestKeeps ==
    ASSUME InboundInv,
           UNCHANGED <<parent, cursor, pass, raced, excused, copies, artifacts, buffer, delivered>>,
           UNCHANGED left \/ \E what \in {"faults", "sweeps", "starts", "commands"} : Spend(what)
    PROVE  InboundInv' /\ Quiet
<1>1. Typed
  BY DEF InboundInv
<1>2. left' \in Budgets /\ left'.posts = left.posts
  <2>1. CASE UNCHANGED left
    BY <1>1, <2>1 DEF Typed
  <2>2. CASE \E what \in {"faults", "sweeps", "starts", "commands"} : Spend(what)
    BY <1>1, <2>2, SpendKeepsPosts
  <2>3. QED
    BY <2>1, <2>2
<1>3. QED
  BY <1>1, <1>2, RestStep, QuietKeeps

\* A socket event is delivered before its thread enqueues it.
LEMMA DeliverKeeps ==
    ASSUME InboundInv, NEW i \in Loops, NEW m \in Posts, Deliver(i, m)
    PROVE  InboundInv' /\ Quiet
<1>0. Typed /\ m \in 1..MaxPosts
  BY ParentType DEF InboundInv
<1>1. /\ UNCHANGED <<parent, cursor, pass, raced, excused, copies, artifacts, left>>
      /\ delivered' = delivered \cup {m}
      /\ buffer' \in {buffer, [buffer EXCEPT ![i] = Append(buffer[i], m)]}
  BY DEF Deliver, LoopUnchanged, budget
<1>2. /\ buffer \in [Loops -> Seq(1..MaxPosts)]
      /\ \A j \in Loops : \A n \in 1..Len(buffer[j]) : buffer[j][n] \in delivered
  BY <1>0 DEF Typed
<1> DEFINE b == Append(buffer[i], m)
<1>3. /\ b \in Seq(1..MaxPosts) /\ \A n \in 1..Len(b) : b[n] \in delivered'
  <2>1. buffer[i] \in Seq(1..MaxPosts) /\ \A n \in 1..Len(buffer[i]) : buffer[i][n] \in delivered
    BY <1>2
  <2>2. QED
    BY <1>0, <1>1, <2>1
<1>4. /\ buffer' \in [Loops -> Seq(1..MaxPosts)]
      /\ \A j \in Loops : \A n \in 1..Len(buffer'[j]) : buffer'[j][n] \in delivered'
  <2> HIDE DEF b
  <2>1. CASE buffer' = buffer
    BY <1>1, <1>2, <2>1
  <2>2. CASE buffer' = [buffer EXCEPT ![i] = b]
    <3>1. buffer'[i] = b /\ \A j \in Loops : j # i => buffer'[j] = buffer[j]
      BY <1>2, <2>2
    <3>2. QED
      BY <1>1, <1>2, <1>3, <2>2, <3>1
  <2>3. QED
    BY <1>1, <2>1, <2>2 DEF b
<1>5. Typed'
  BY <1>0, <1>1, <1>4 DEF Typed, Posts
<1>6. Quiet
  BY <1>0, <1>1, TimesType DEF Quiet, inbound, Times, TimesTyped
<1>7. QED
  BY <1>5, <1>6, QuietKeeps

LEMMA BufferKeeps ==
    ASSUME InboundInv, NEW i \in Loops, BufferEnqueue(i)
    PROVE  InboundInv' /\ Quiet
<1> DEFINE b == Tail(buffer[i])
<1>0. Typed
  BY DEF InboundInv
<1>1. /\ UNCHANGED <<parent, cursor, pass, raced, excused, delivered, artifacts, left>>
      /\ copies' = enqueue_incoming(Head(buffer[i])) /\ buffer' = [buffer EXCEPT ![i] = b]
      /\ buffer[i] # <<>>
  BY DEF BufferEnqueue, LoopUnchanged, budget
<1>2. /\ buffer \in [Loops -> Seq(1..MaxPosts)]
      /\ \A j \in Loops : \A n \in 1..Len(buffer[j]) : buffer[j][n] \in delivered
  BY <1>0 DEF Typed
<1>3. buffer[i] \in Seq(1..MaxPosts) /\ \A n \in 1..Len(buffer[i]) : buffer[i][n] \in delivered
  BY <1>2
<1>4. b \in Seq(1..MaxPosts) /\ Len(b) = Len(buffer[i]) - 1 /\ Len(buffer[i]) \in Nat
      /\ \A n \in 1..Len(b) : b[n] = buffer[i][n + 1]
  BY <1>1, <1>3, TailFact
<1>5. \A n \in 1..Len(b) : b[n] \in delivered
  <2> HIDE DEF b
  <2>1. QED
    BY <1>3, <1>4
<1>6. PICK m \in delivered : m = Head(buffer[i])
  BY <1>1, <1>3
<1> HIDE DEF b
<1>7. m \in Posts
  BY <1>0, <1>6 DEF Typed
<1>8. /\ copies' \in Seq(Seq(Stages)) /\ Len(copies') = Len(parent')
      /\ \A n \in Posts : n # m => Times(n)' = Times(n)
      /\ Times(m)' \in {Times(m), Times(m) + 1}
  BY <1>0, <1>1, <1>6, <1>7, EnqueueFact
<1>9. /\ buffer' \in [Loops -> Seq(1..MaxPosts)]
      /\ \A j \in Loops : \A n \in 1..Len(buffer'[j]) : buffer'[j][n] \in delivered'
  <2>1. buffer'[i] = b /\ \A j \in Loops : j # i => buffer'[j] = buffer[j]
    BY <1>1, <1>2
  <2>2. QED
    BY <1>1, <1>2, <1>4, <1>5, <2>1
<1>10. Typed'
  BY <1>0, <1>1, <1>8, <1>9 DEF Typed, Posts
<1>11. Quiet
  BY <1>0, <1>1, <1>6, <1>8, TimesType DEF Quiet, inbound, TimesTyped
<1>12. QED
  BY <1>10, <1>11, QuietKeeps

LEMMA LoopKeeps ==
    ASSUME InboundInv, NEW i \in Loops, Loop(i)
    PROVE  InboundInv'
<1>0. i \in Passers
  BY ConstantsOK DEF Loops, Passers, Command
<1>1. CASE LoopTop(i)
  <2>1. UNCHANGED <<parent, cursor, copies, artifacts, buffer, delivered, raced>>
    BY <1>1 DEF LoopTop, LoopUnchanged
  <2>2. CASE PassBegin(i, "passes")
    BY <1>0, <2>1, <2>2, BeginKeeps
  <2>3. CASE UNCHANGED <<pass, excused, budget>>
    BY <2>1, <2>3, RestKeeps DEF budget
  <2>4. QED
    BY <1>1, <2>2, <2>3 DEF LoopTop
<1>2. CASE Connect(i)
  <2>1. UNCHANGED <<parent, cursor, pass, raced, excused, copies, artifacts, buffer, delivered>>
        /\ (UNCHANGED left \/ Spend("faults"))
    BY <1>2 DEF Connect, LoopUnchanged, budget
  <2>2. QED
    BY <2>1, RestKeeps
<1>3. CASE BufferEnqueue(i)
  BY <1>3, BufferKeeps
<1>4. CASE Disconnect(i) \/ Closed(i) \/ LoopGone(i)
  <2>1. UNCHANGED <<parent, cursor, pass, raced, excused, copies, artifacts, buffer, delivered, left>>
    BY <1>4 DEF Disconnect, Closed, LoopGone, LoopUnchanged, budget
  <2>2. QED
    BY <2>1, RestKeeps
<1>5. CASE \E m \in Posts : Deliver(i, m)
  BY <1>5, DeliverKeeps
<1>6. QED
  BY <1>1, <1>2, <1>3, <1>4, <1>5 DEF Loop

LEMMA SweepKeeps ==
    ASSUME InboundInv, NEW e \in Senders, Sweep(e)
    PROVE  InboundInv' /\ Quiet
<1>0. Typed /\ left \in Budgets
  BY DEF InboundInv, Typed
<1>1. CASE SweepBegin(e) \/ SweepRead(e) \/ SweepPost(e) \/ SweepEnd(e)
  <2>1. UNCHANGED <<parent, cursor, pass, raced, excused, copies, artifacts, buffer, delivered>>
    BY <1>1 DEF SweepBegin, SweepRead, SweepPost, SweepEnd, SweepUnchanged, queue
  <2>2. UNCHANGED left \/ Spend("faults") \/ Spend("sweeps")
    BY <1>1 DEF SweepBegin, SweepRead, SweepPost, SweepEnd, budget
  <2>3. QED
    BY <2>1, <2>2, RestKeeps
<1>2. CASE SweepRemove(e)
  <2>1. UNCHANGED <<parent, cursor, pass, raced, excused, artifacts, buffer, delivered, left>>
    BY <1>2 DEF SweepRemove, SweepUnchanged, budget
  <2>2. CASE UNCHANGED copies
    BY <2>1, <2>2, RestKeeps
  <2>3. CASE ~UNCHANGED copies
    <3>1. PICK c \in Outgoing : copies' = [copies EXCEPT ![c[1]][c[2]] = "sent"]
      BY <1>2, <2>3 DEF SweepRemove
    <3>2. PICK m \in Posts, k \in 1..MaxCopies : m = c[1] /\ k = c[2] /\ k <= Len(copies[m])
      BY DEF Outgoing, Copies
    <3>3. k \in DOMAIN copies[m]
      <4>1. copies[m] \in Seq(Stages)
        BY <1>0, ElementFact DEF Typed, Posts
      <4>2. QED
        BY <3>2, <4>1
    <3>4. /\ copies' \in Seq(Seq(Stages)) /\ Len(copies') = Len(parent')
          /\ \A n \in Posts : Times(n)' = Times(n)
      BY <1>0, <2>1, <3>1, <3>2, <3>3, MoveFact DEF Stages
    <3>5. Typed'
      BY <1>0, <2>1, <3>4 DEF Typed, Posts
    <3>6. Quiet
      BY <1>0, <2>1, <3>4, TimesType DEF Quiet, inbound, TimesTyped
    <3>7. QED
      BY <3>5, <3>6, QuietKeeps
  <2>4. QED
    BY <2>2, <2>3
<1>3. QED
  BY <1>1, <1>2 DEF Sweep

LEMMA InboundNext == InboundInv /\ DraftInv /\ [Next]_vars => InboundInv'
<1>1. SUFFICES ASSUME InboundInv, DraftInv, [Next]_vars PROVE InboundInv'
  OBVIOUS
<1>0. Typed
  BY <1>1 DEF InboundInv
<1>2. CASE UNCHANGED vars
  <2>1. UNCHANGED <<parent, cursor, pass, raced, excused, copies, artifacts, buffer, delivered, left>>
    BY <1>2 DEF vars
  <2>2. QED
    BY <1>1, <2>1, RestKeeps
<1>3. CASE \E t \in 0..MaxPosts : Post(t)
  BY <1>1, <1>3, PostKeeps
<1>4. CASE Handle
  BY <1>0, <1>1, <1>4, HandleStep, QuietKeeps
<1>5. CASE \E p \in Passers : Pass(p)
  BY <1>1, <1>5, PassKeeps
<1>6. CASE \E i \in Loops : Loop(i)
  BY <1>1, <1>6, LoopKeeps
<1>7. CASE \E e \in Senders : Sweep(e)
  BY <1>1, <1>7, SweepKeeps
<1>8. CASE RuntimeStart \/ RuntimeStop \/ RequestStop \/ Start
  <2>1. UNCHANGED <<parent, cursor, pass, raced, excused, copies, artifacts, buffer, delivered>>
        /\ (UNCHANGED left \/ Spend("starts"))
    BY <1>8 DEF RuntimeStart, RuntimeStop, RequestStop, Start, WorkerUnchanged, queue, budget
  <2>2. QED
    BY <1>1, <2>1, RestKeeps
<1>9. CASE TickBegin
  <2>1. UNCHANGED <<parent, cursor, copies, artifacts, buffer, delivered, raced>>
    BY <1>9 DEF TickBegin, WorkerUnchanged, queue
  <2>2. CASE PassBegin(0, "passes")
    BY <1>1, <2>1, <2>2, CommandPasses, BeginKeeps
  <2>3. CASE UNCHANGED <<pass, excused, budget>>
    BY <1>1, <2>1, <2>3, RestKeeps DEF budget
  <2>4. QED
    BY <1>9, <2>2, <2>3 DEF TickBegin
<1>10. CASE Exit \/ Crash
  BY <1>1, <1>10, CutKeeps DEF Exit, Crash, Down
<1>11. CASE CommandBegin
  <2>1. UNCHANGED <<parent, cursor, copies, artifacts, buffer, delivered, raced>>
    BY <1>11 DEF CommandBegin, WorkerUnchanged, queue
  <2>2. CASE PassBegin(Command, "commands")
    BY <1>1, <2>1, <2>2, CommandPasses, BeginKeeps
  <2>3. CASE Spend("commands") /\ UNCHANGED <<pass, excused>>
    BY <1>1, <2>1, <2>3, RestKeeps
  <2>4. QED
    BY <1>11, <2>2, <2>3 DEF CommandBegin
<1>12. CASE CommandKilled
  BY <1>1, <1>12, CommandPasses, CutKeeps DEF CommandKilled
<1>13. QED
  BY <1>1, <1>2, <1>3, <1>4, <1>5, <1>6, <1>7, <1>8, <1>9, <1>10, <1>11, <1>12 DEF Next

LEMMA InboundInit == Init => InboundInv
<1>1. SUFFICES ASSUME Init PROVE InboundInv
  OBVIOUS
<1>2. /\ parent = <<>> /\ copies = <<>> /\ artifacts = {} /\ cursor = NoCursor
      /\ pass = [p \in Passers |-> NoPass] /\ buffer = [i \in Loops |-> <<>>]
      /\ delivered = {} /\ raced = {}
  BY <1>1 DEF Init
<1>3. left \in Budgets /\ MaxPosts \in Nat /\ left.posts \in 0..MaxPosts
  BY <1>1, ConstantsOK DEF Init, Budgets
<1>4. Len(parent) = 0 /\ Posts = {}
  BY <1>2 DEF Posts
<1>5. \A p \in Passers : ~Active(p)
  BY <1>2 DEF Active, NoPass
<1>6. /\ cursor \in CursorFile /\ cursor.conv = 0
      /\ \A t \in 1..MaxPosts : cursor.threads[t] = 0
  BY <1>2, <1>3 DEF CursorFile, NoCursor
<1>7. Typed
  <2>1. parent \in Seq(0..MaxPosts) /\ copies \in Seq(Seq(Stages)) /\ Len(copies) = Len(parent)
    BY <1>2
  <2>2. /\ buffer \in [Loops -> Seq(1..MaxPosts)]
        /\ \A i \in Loops : \A n \in 1..Len(buffer[i]) : buffer[i][n] \in delivered
    BY <1>2
  <2>3. pass \in [Passers -> ActivePass \cup {NoPass}]
    BY <1>2
  <2>4. Len(parent) + left.posts <= MaxPosts
    BY <1>3, <1>4
  <2>5. QED
    BY <1>2, <1>3, <1>4, <1>6, <2>1, <2>2, <2>3, <2>4 DEF Typed
<1>8. QED
  BY <1>4, <1>5, <1>6, <1>7 DEF InboundInv, Bounded, Within, Ahead, Behind, Apart, Single

LEMMA DraftInit == Init => DraftInv
BY DEF Init, DraftInv

\* A step that leaves cursor.json.tmp alone, starts no rename and enqueues alone
\* only while no pass is about to rename.
LEMMA DraftStays ==
    ASSUME DraftInv, UNCHANGED <<draft, parent, raced>>, Saving' => Saving,
           \A m \in Posts : Excepted(m) => Excepted(m)',
           \A m \in Posts : \/ Times(m)' = Times(m)
                            \/ Times(m)' > 0 /\ (Saving => Excepted(m)')
    PROVE  DraftInv'
<1>1. Posts' = Posts /\ (\A d : Within(d)' = Within(d)) /\ (\A d : \A m : Covered(d, m)' = Covered(d, m))
  BY DEF Posts, Within, Covered
<1>2. \A m \in Posts : /\ Times(m)' = 0 => Times(m) = 0
                       /\ Saving' /\ Times(m)' > 0 => Excepted(m)' \/ (Saving /\ Times(m) > 0)
  OBVIOUS
<1>3. QED
  BY <1>1, <1>2 DEF DraftInv

LEMMA QuietDraft ==
    ASSUME DraftInv, Typed, Typed', Quiet, UNCHANGED draft
    PROVE  DraftInv'
<1>1. UNCHANGED <<parent, pass, raced, excused>> /\ delivered \subseteq delivered'
  BY DEF Quiet, inbound
<1>2. Posts' = Posts
  BY <1>1 DEF Posts
<1>5. TimesTyped /\ TimesTyped'
  BY TimesType, PTL
<1>3. \A m \in Posts : Times(m)' = Times(m) \/ (Times(m)' > 0 /\ Excepted(m)')
  BY <1>2, <1>5 DEF Quiet, TimesTyped, Excepted
<1>4. QED
  BY <1>1, <1>3, DraftStays DEF Excepted, Saving

LEMMA PostDraft ==
    ASSUME InboundInv, DraftInv, NEW t \in 0..MaxPosts, Post(t)
    PROVE  DraftInv'
<1> DEFINE n == Len(parent) + 1
<1>1. /\ Typed' /\ UNCHANGED <<cursor, pass, delivered, excused>> /\ raced \subseteq raced'
      /\ Posts' = Posts \cup {n} /\ Len(parent') = n /\ Len(parent) \in Nat
      /\ \A m \in Posts : parent'[m] = parent[m] /\ Times(m)' = Times(m)
      /\ \A m \in Nat : m = n => Times(m)' = 0 /\ parent'[m] = t
  BY PostStep DEF InboundInv
<1>2. UNCHANGED draft /\ Saving' = Saving /\ \A m : Excepted(m)' = Excepted(m)
  BY <1>1 DEF Post, Saving, Excepted
<1>3. n \in Nat /\ n > Len(parent) /\ (t # 0 => t \in 1..MaxPosts)
  BY <1>1
<1> HIDE DEF n
<1>4. SUFFICES ASSUME NEW d \in draft
               PROVE  /\ Within(d)'
                      /\ \A m \in Posts' : /\ Times(m)' = 0 => ~Covered(d, m)' \/ m \in raced'
                                           /\ Saving /\ Times(m)' > 0 => Excepted(m) \/ Covered(d, m)'
  BY <1>2 DEF DraftInv, Within, Covered
<1>5. /\ d.conv \in Nat /\ d.conv <= Len(parent)
      /\ \A u \in 1..MaxPosts : d.threads[u] \in Nat /\ d.threads[u] <= Len(parent)
  BY ConstantsOK DEF DraftInv, CursorFile, Within
<1>6. Within(d)'
  BY <1>1, <1>2, <1>3, <1>5 DEF Within
<1>7. \A m \in Nat : m = n => ~Covered(d, m)' /\ Times(m)' = 0
  BY <1>1, <1>2, <1>3, <1>5 DEF Covered
<1>8. ASSUME NEW m \in Posts
      PROVE  /\ Times(m)' = 0 => ~Covered(d, m)' \/ m \in raced'
             /\ Saving /\ Times(m)' > 0 => Excepted(m) \/ Covered(d, m)'
  <2>1. Covered(d, m)' = Covered(d, m)
    BY <1>1, <1>2 DEF Covered
  <2>2. QED
    BY <1>1, <2>1 DEF DraftInv
<1>9. QED
  BY <1>1, <1>3, <1>6, <1>7, <1>8

\* Passes that go on or end: only an enqueue matters, and what another pass
\* enqueues while one is about to rename is excused.
LEMMA PassDraft ==
    ASSUME InboundInv, InboundInv', DraftInv, NEW p \in Passers, Pass(p)
    PROVE  DraftInv'
<1>0. Typed
  BY DEF InboundInv
<1>1. CASE PassWrite(p) \/ PassNotInChannel(p)
  BY <1>1, WriteKeeps
<1>2. CASE PassSave(p)
  BY <1>2 DEF PassSave, DraftInv
<1>3. CASE PassEnqueue(p)
  <2>1. PICK m \in pass[p].batch : copies' = enqueue_incoming(m)
    BY <1>0, <1>3, EnqueueResult
  <2>2. /\ UNCHANGED <<draft, parent, raced, delivered, excused>>
        /\ pass[p].pc \in {"messages", "replies"} /\ pass'[p].pc = pass[p].pc
        /\ \A q \in Passers : q # p => pass'[q] = pass[q]
    BY <1>0, <1>3, EnqueueResult DEF PassEnqueue
  <2>3. Active(p) /\ m \in pass[p].took /\ m \in Posts
    BY <2>2 DEF InboundInv, Bounded, PassBounded, Active
  <2>4. Saving => m \in excused
    BY <2>2, <2>3 DEF Saving, InboundInv, Behind, Apart, Active
  <2>5. /\ \A n \in Posts : n # m => Times(n)' = Times(n)
        /\ Times(m)' > 0
    BY <1>0, <2>1, <2>2, <2>3, EnqueueFact
  <2>6. Saving' => Saving
    BY <2>2 DEF Saving
  <2>7. QED
    BY <2>2, <2>4, <2>5, <2>6, DraftStays DEF Excepted
<1>4. CASE FetchHistory(p) \/ DiscoverThreads(p) \/ FetchReplies(p) \/ ThreadNotInChannel(p)
  <2>1. UNCHANGED <<draft, parent, raced, delivered, copies>> /\ excused \subseteq excused'
    BY <1>4 DEF FetchHistory, DiscoverThreads, FetchReplies, ThreadNotInChannel, queue
  <2>2. pass'[p].pc # "saving" /\ \A q \in Passers : q # p => pass'[q] = pass[q]
    BY <1>0, <1>4, HistoryResult, DiscoverResult, RepliesResult, ThreadSkipResult DEF Narrowed
  <2>3. QED
    BY <2>1, <2>2, DraftStays DEF Excepted, Saving, Times
<1>5. CASE \E next \in {"top", "failed"} : PassFail(p, next)
  <2>1. UNCHANGED <<draft, parent, raced, delivered, copies>> /\ excused \subseteq excused'
        /\ pass' = [pass EXCEPT ![p] = NoPass]
    BY <1>5 DEF PassFail, queue
  <2>2. pass'[p].pc # "saving" /\ \A q \in Passers : q # p => pass'[q] = pass[q]
    BY <1>0, <2>1 DEF Typed, NoPass
  <2>3. QED
    BY <2>1, <2>2, DraftStays DEF Excepted, Saving, Times
<1>6. QED
  BY <1>1, <1>2, <1>3, <1>4, <1>5 DEF Pass

\* A pass that begins does not rename.
LEMMA BeginDraft ==
    ASSUME InboundInv, DraftInv, NEW p \in Passers, NEW what \in {"passes", "commands"}, PassBegin(p, what),
           UNCHANGED <<draft, parent, raced, delivered, copies>>
    PROVE  DraftInv'
<1>1. pass'[p].pc = "history" /\ \A q \in Passers : q # p => pass'[q] = pass[q]
  BY BeginResult DEF InboundInv
<1>2. excused \subseteq excused'
  BY DEF PassBegin
<1>3. QED
  BY <1>1, <1>2, DraftStays DEF Excepted, Saving, Times

LEMMA CutDraft ==
    ASSUME DraftInv, NEW ps, NEW es, CutOff(ps, es)
    PROVE  DraftInv'
<1>1. UNCHANGED <<draft, parent, raced, delivered, copies>> /\ excused \subseteq excused'
  BY DEF CutOff, queue
<1>2. Saving' => Saving
  BY DEF CutOff, Saving, NoPass
<1>3. QED
  BY <1>1, <1>2, DraftStays DEF Excepted, Times

LEMMA DraftNext == InboundInv /\ InboundInv' /\ DraftInv /\ [Next]_vars => DraftInv'
<1>1. SUFFICES ASSUME InboundInv, InboundInv', DraftInv, [Next]_vars PROVE DraftInv'
  OBVIOUS
<1>0. Typed /\ Typed'
  BY <1>1 DEF InboundInv
<1>a. ASSUME UNCHANGED <<draft, parent, raced, delivered, copies, pass, excused>> PROVE DraftInv'
  BY <1>1, <1>a, DraftStays DEF Excepted, Saving, Times
<1>2. CASE UNCHANGED vars
  BY <1>2, <1>a DEF vars
<1>3. CASE \E t \in 0..MaxPosts : Post(t)
  BY <1>1, <1>3, PostDraft
<1>4. CASE Handle
  <2>1. UNCHANGED draft
    BY <1>4 DEF Handle, RequeueOrRecover, Answer, AnswerNothing, Move
  <2>2. QED
    BY <1>0, <1>1, <1>4, <2>1, HandleStep, QuietDraft
<1>5. CASE \E p \in Passers : Pass(p)
  BY <1>1, <1>5, PassDraft
<1>6. ASSUME NEW i \in Loops, Loop(i) PROVE DraftInv'
  <2>1. UNCHANGED draft /\ i \in Passers
    BY <1>6, ConstantsOK DEF Loop, LoopTop, Connect, BufferEnqueue, Disconnect, Closed, LoopGone, Deliver,
                             LoopUnchanged, Loops, Passers, Command
  <2>2. CASE LoopTop(i)
    <3>1. UNCHANGED <<draft, parent, raced, delivered, copies>>
      BY <2>2 DEF LoopTop, LoopUnchanged
    <3>2. QED
      BY <1>1, <1>a, <2>1, <2>2, <3>1, BeginDraft DEF LoopTop
  <2>3. CASE BufferEnqueue(i) \/ \E m \in Posts : Deliver(i, m)
    BY <1>0, <1>1, <1>6, <2>1, <2>3, BufferKeeps, DeliverKeeps, QuietDraft
  <2>4. CASE Connect(i) \/ Disconnect(i) \/ Closed(i) \/ LoopGone(i)
    BY <1>a, <2>4 DEF Connect, Disconnect, Closed, LoopGone, LoopUnchanged
  <2>5. QED
    BY <1>6, <2>2, <2>3, <2>4 DEF Loop
<1>7. ASSUME NEW e \in Senders, Sweep(e) PROVE DraftInv'
  BY <1>0, <1>1, <1>7, SweepKeeps, QuietDraft DEF Sweep, SweepBegin, SweepRead, SweepPost, SweepRemove, SweepEnd, SweepUnchanged
<1>8. CASE RuntimeStart \/ RuntimeStop \/ RequestStop \/ Start
  BY <1>8, <1>a DEF RuntimeStart, RuntimeStop, RequestStop, Start, WorkerUnchanged, queue
<1>9. CASE TickBegin \/ CommandBegin
  <2>1. UNCHANGED <<draft, parent, raced, delivered, copies>>
    BY <1>9 DEF TickBegin, CommandBegin, WorkerUnchanged, queue
  <2>2. 0 \in Passers /\ Command \in Passers
    BY CommandPasses
  <2>3. PassBegin(0, "passes") \/ PassBegin(Command, "commands") \/ UNCHANGED <<pass, excused>>
    BY <1>9 DEF TickBegin, CommandBegin
  <2>4. QED
    BY <1>1, <1>a, <2>1, <2>2, <2>3, BeginDraft
<1>10. CASE Exit \/ Crash \/ CommandKilled
  BY <1>1, <1>10, CutDraft DEF Exit, Crash, Down, CommandKilled
<1>11. QED
  BY <1>1, <1>2, <1>3, <1>4, <1>5, <1>6, <1>7, <1>8, <1>9, <1>10 DEF Next

LEMMA InboundAlways == Spec => []InboundInv
BY InboundInit, DraftInit, InboundNext, DraftNext, PTL DEF Spec

\* The cursor file never passes a post that no pass and no socket event put into
\* the queue, whatever passes overlap, fail or die half-way: every pass writes only
\* a cursor whose posts it has enqueued, and the cursor a pass started from was
\* such a one (process_inbound_with_api, save_cursor_state).
THEOREM CursorIsSafe == Spec => []CursorCoversEnqueued
<1>1. InboundInv => CursorCoversEnqueued
  <2>1. SUFFICES ASSUME InboundInv, NEW m \in Posts, copies[m] = <<>>
                 PROVE  IF parent[m] = 0 THEN m > cursor.conv \/ m \in raced
                                         ELSE m > cursor.threads[parent[m]]
    BY DEF CursorCoversEnqueued
  <2>2. Typed
    BY <2>1 DEF InboundInv
  <2>3. Times(m) = 0
    BY <2>1, <2>2, TimesType DEF TimesTyped
  <2>4. ~Covered(cursor, m) \/ (m \in raced /\ parent[m] = 0)
    BY <2>1, <2>2, <2>3 DEF InboundInv, Ahead, Typed
  <2>5. m \in Nat /\ (parent[m] # 0 => parent[m] \in 1..MaxPosts)
    BY <2>2, ParentType
  <2>6. QED
    BY <2>1, <2>4, <2>5, CursorFacts DEF Covered
<1>2. QED
  BY <1>1, InboundAlways, PTL

\* A post becomes two queue messages only if it also came over the socket, or
\* the pass that fetched it overlapped another one or died before it saved its
\* cursor.
THEOREM DuplicatesHaveCause == Spec => []DuplicateHasCause
<1>1. InboundInv => DuplicateHasCause
  BY DEF InboundInv, Single, DuplicateHasCause, Excepted, Times
<1>2. QED
  BY <1>1, InboundAlways, PTL

-----------------------------------------------------------------------------
(***************************************************************************)
(* The outbound invariant.                                                 *)
(***************************************************************************)
Stage(c) == copies[c[1]][c[2]]

AllCopies == (1..MaxPosts) \X (1..MaxCopies)

\* The lists a sweep can work through: what is left of a sorted directory.
Lists == UNION {Seq({Sorted(S)[n] : n \in 1..Cardinality(S)}) : S \in SUBSET AllCopies}

Sweeps == [pc : {"read", "post"}, paths : Lists, chunk : Nat, err : BOOLEAN]

Posting(e) == sweep[e].pc = "post"

SweepTyped ==
    /\ sweep \in [Senders -> Sweeps \cup {NoSweep}]
    /\ \A e \in Senders : /\ sweep[e].pc = "read" => sweep[e].chunk = 1
                          /\ Posting(e) => sweep[e].paths # <<>> /\ sweep[e].chunk > 0

\* The sweep that posts a file has shown the chunks before its own, and the file
\* is still there unless the other sweep had it too.
ShownSoFar ==
    \A e \in Senders : Posting(e) =>
        /\ Path(e) \in Copies
        /\ \A n \in 1..Chunks : n < sweep[e].chunk => <<Path(e), n>> \in shown
        /\ Stage(Path(e)) = "outgoing" \/ Path(e) \in contested

Contested == \A e, f \in Senders : e # f /\ Posting(e) /\ Posting(f) /\ Path(e) = Path(f) => Path(e) \in contested

\* A chunk in Slack has its file gone for good, or its sweep still at the file.
Accounted ==
    \A x \in shown :
        /\ x[1] \in Copies /\ x[2] \in Nat
        /\ \/ x[1] \in contested \/ Stage(x[1]) = "sent"
           \/ \E e \in Senders : Posting(e) /\ Path(e) = x[1] /\ sweep[e].chunk > x[2]

SentWhole == \A c \in Copies : Stage(c) = "sent" => \A n \in 1..Chunks : <<c, n>> \in shown

TwiceContested == \A x \in twice : x[1] \in contested

OutboundInv == SweepTyped /\ ShownSoFar /\ Contested /\ Accounted /\ SentWhole /\ TwiceContested

-----------------------------------------------------------------------------
LEMMA SweepCases ==
    ASSUME SweepTyped, NEW e \in Senders
    PROVE  /\ sweep[e] \in Sweeps \/ sweep[e] = NoSweep
           /\ Posting(e) => sweep[e] \in Sweeps /\ sweep[e].paths # <<>> /\ sweep[e].chunk \in Nat \ {0}
           /\ sweep[e] = NoSweep => ~Posting(e)
           /\ \A pc \in {"read", "post"} : AtPath(e, pc) => sweep[e] \in Sweeps /\ sweep[e].pc = pc
           /\ AtPath(e, "post") => Posting(e)
<1>1. sweep[e] \in Sweeps \/ sweep[e] = NoSweep
  BY DEF SweepTyped
<1>2. NoSweep.pc = "idle"
  BY DEF NoSweep
<1>3. sweep[e] \in Sweeps => sweep[e].chunk \in Nat
  BY DEF Sweeps
<1>4. QED
  BY <1>1, <1>2, <1>3 DEF SweepTyped, Posting, AtPath

LEMMA ListFact ==
    ASSUME NEW q \in Lists, q # <<>>
    PROVE  Tail(q) \in Lists /\ Len(q) \in Nat \ {0} /\ Head(q) = q[1] /\ 1 \in DOMAIN q
<1>1. PICK S \in SUBSET AllCopies : q \in Seq({Sorted(S)[n] : n \in 1..Cardinality(S)})
  BY DEF Lists
<1> DEFINE T == {Sorted(S)[n] : n \in 1..Cardinality(S)}
<1> HIDE DEF T
<1>2. q \in Seq(T)
  BY <1>1 DEF T
<1>3. Tail(q) \in Seq(T) /\ Len(q) \in Nat \ {0} /\ Head(q) = q[1]
  BY <1>2, TailFact
<1>4. DOMAIN q = 1..Len(q)
  BY <1>2
<1>5. Tail(q) \in Lists
  <2>1. Tail(q) \in Seq({Sorted(S)[n] : n \in 1..Cardinality(S)})
    BY <1>3 DEF T
  <2>2. QED
    BY <2>1 DEF Lists
<1>6. QED
  BY <1>3, <1>4, <1>5

LEMMA SortedFact ==
    ASSUME NEW S \in SUBSET AllCopies
    PROVE  Sorted(S) \in Lists
<1>1. Cardinality(S) \in Nat
  <2>1. IsFiniteSet(1..MaxPosts) /\ IsFiniteSet(1..MaxCopies)
    BY FS_Interval, ConstantsOK
  <2>2. IsFiniteSet(AllCopies)
    BY <2>1, FS_Product DEF AllCopies
  <2>3. QED
    BY <2>2, FS_Subset, FS_CardinalityType
<1> DEFINE k == Cardinality(S)
           T == {Sorted(S)[n] : n \in 1..k}
<1>2. Sorted(S) = [n \in 1..k |-> Sorted(S)[n]]
  <2> DEFINE g(n) == CHOOSE c \in S :
                       Cardinality({d \in S : d[1] < c[1] \/ (d[1] = c[1] /\ d[2] <= c[2])}) = n
  <2>1. Sorted(S) = [n \in 1..k |-> g(n)]
    BY DEF Sorted
  <2> HIDE DEF g, k
  <2>2. QED
    BY <2>1
<1>3. Sorted(S) \in [1..k -> T]
  <2> HIDE DEF k
  <2>1. QED
    BY <1>2
<1>4. Sorted(S) \in Seq(T)
  <2> HIDE DEF k, T
  <2>1. k \in Nat
    BY <1>1 DEF k
  <2>2. QED
    BY <1>3, <2>1
<1>5. QED
  BY <1>4 DEF Lists

\* The parts that only the sweeps move.
sweeping == <<sweep, shown, twice, contested>>

\* Every file keeps its stage or goes on from a stage before the reply; a new one
\* starts unsent.
StageStep ==
    /\ \A c \in Copies : /\ c \in Copies'
                         /\ \/ Stage(c)' = Stage(c)
                            \/ Stage(c) \in {"queued", "renamed"} /\ Stage(c)' # "sent"
    /\ \A c \in Copies' : c \notin Copies => Stage(c)' # "sent"

LEMMA StagesKeep ==
    ASSUME OutboundInv, StageStep, UNCHANGED sweeping
    PROVE  OutboundInv'
<1>1. UNCHANGED <<sweep, shown, twice, contested>>
  BY DEF sweeping
<1>2. \A e \in Senders : Posting(e)' = Posting(e) /\ Path(e)' = Path(e)
  BY <1>1 DEF Posting, Path
<1>3. SweepTyped'
  BY <1>1, <1>2 DEF OutboundInv, SweepTyped
<1>4. ASSUME NEW e \in Senders, Posting(e)
      PROVE  /\ Path(e) \in Copies'
             /\ \A n \in 1..Chunks : n < sweep[e].chunk => <<Path(e), n>> \in shown
             /\ Stage(Path(e))' = "outgoing" \/ Path(e) \in contested
  <2>1. PICK c \in Copies : c = Path(e)
    BY <1>4 DEF OutboundInv, ShownSoFar
  <2>2. c \in Copies' /\ (Stage(c)' = "outgoing" \/ c \in contested)
    BY <1>4, <2>1 DEF OutboundInv, ShownSoFar, StageStep
  <2>3. Stage(Path(e))' = Stage(c)'
    BY <1>2, <2>1 DEF Stage
  <2>4. QED
    BY <1>4, <2>1, <2>2, <2>3 DEF OutboundInv, ShownSoFar
<1>5. ShownSoFar'
  BY <1>1, <1>2, <1>4 DEF ShownSoFar
<1>6. Contested'
  BY <1>1, <1>2 DEF OutboundInv, Contested
<1>7. Accounted'
  <2>1. SUFFICES ASSUME NEW x \in shown
                 PROVE  /\ x[1] \in Copies' /\ x[2] \in Nat
                        /\ \/ x[1] \in contested \/ Stage(x[1])' = "sent"
                           \/ \E e \in Senders : Posting(e) /\ Path(e) = x[1] /\ sweep[e].chunk > x[2]
    BY <1>1, <1>2 DEF Accounted
  <2>2. QED
    BY DEF OutboundInv, Accounted, StageStep
<1>8. SentWhole'
  BY <1>1 DEF OutboundInv, SentWhole, StageStep
<1>9. TwiceContested'
  BY <1>1 DEF OutboundInv, TwiceContested
<1>10. QED
  BY <1>3, <1>5, <1>6, <1>7, <1>8, <1>9 DEF OutboundInv

\* A step that keeps every message of every post in its stage, and makes none
\* that is sent already.
LEMMA StageFact ==
    ASSUME Typed, Posts \subseteq Posts',
           \A m \in Posts : /\ Len(copies[m]) <= Len(copies'[m])
                            /\ \A k \in 1..Len(copies[m]) :
                                 \/ copies'[m][k] = copies[m][k]
                                 \/ copies[m][k] \in {"queued", "renamed"} /\ copies'[m][k] # "sent",
           \A m \in Posts' : \A k \in 1..Len(copies'[m]) :
                m \notin Posts \/ k > Len(copies[m]) => copies'[m][k] # "sent",
           Typed'
    PROVE  StageStep
<1>1. TimesTyped /\ TimesTyped'
  BY TimesType, PTL
<1>2. /\ \A m \in Posts : Len(copies[m]) \in Nat
      /\ \A m \in Posts' : Len(copies'[m]) \in Nat
  BY <1>1 DEF TimesTyped, Times
<1>3. ASSUME NEW c \in Copies
      PROVE  /\ c \in Copies'
             /\ \/ Stage(c)' = Stage(c)
                \/ Stage(c) \in {"queued", "renamed"} /\ Stage(c)' # "sent"
  <2>1. PICK m \in Posts, k \in 1..MaxCopies : c = <<m, k>> /\ k <= Len(copies[m])
    BY DEF Copies
  <2>2. k \in 1..Len(copies[m]) /\ k <= Len(copies'[m]) /\ m \in Posts'
    BY <1>2, <2>1
  <2>3. c \in Copies'
    BY <2>1, <2>2 DEF Copies
  <2>4. Stage(c) = copies[m][k] /\ Stage(c)' = copies'[m][k]
    BY <2>1 DEF Stage
  <2>5. QED
    BY <2>1, <2>2, <2>3, <2>4
<1>4. ASSUME NEW c \in Copies', c \notin Copies
      PROVE  Stage(c)' # "sent"
  <2>1. PICK m \in Posts', k \in 1..MaxCopies : c = <<m, k>> /\ k <= Len(copies'[m])
    BY DEF Copies
  <2>2. m \notin Posts \/ ~(k <= Len(copies[m]))
    BY <1>4, <2>1 DEF Copies
  <2>3. k \in 1..Len(copies'[m]) /\ (m \notin Posts \/ k > Len(copies[m]))
    BY <1>2, <2>1, <2>2
  <2>4. Stage(c)' = copies'[m][k]
    BY <2>1 DEF Stage
  <2>5. QED
    BY <2>3, <2>4
<1>5. QED
  BY <1>3, <1>4 DEF StageStep

LEMMA SameStages ==
    ASSUME UNCHANGED <<parent, copies>>
    PROVE  StageStep
BY DEF StageStep, Copies, Posts, Stage

LEMMA EnqueueStages ==
    ASSUME Typed, Typed', NEW m \in Posts, copies' = enqueue_incoming(m), UNCHANGED parent
    PROVE  StageStep
<1>1. CASE copies' = copies
  BY <1>1, SameStages
<1>2. CASE copies' = [copies EXCEPT ![m] = Append(copies[m], "queued")]
  <2>1. copies \in Seq(Seq(Stages)) /\ \A n \in Posts : n \in 1..Len(copies) /\ copies[n] \in Seq(Stages)
    BY ElementFact DEF Typed, Posts
  <2>2. copies'[m] = Append(copies[m], "queued") /\ \A n \in Posts : n # m => copies'[n] = copies[n]
    BY <1>2, <2>1
  <2>3. /\ Len(copies'[m]) = Len(copies[m]) + 1 /\ Len(copies[m]) \in Nat
        /\ \A k \in 1..Len(copies[m]) : copies'[m][k] = copies[m][k]
        /\ copies'[m][Len(copies[m]) + 1] = "queued"
    <3>1. copies[m] \in Seq(Stages)
      BY <2>1
    <3>2. QED
      BY <2>2, <3>1
  <2>4. Posts' = Posts /\ \A n \in Posts : Len(copies[n]) \in Nat
    BY <2>1 DEF Posts
  <2>5. \A n \in Posts : Len(copies[n]) <= Len(copies'[n]) /\ \A k \in 1..Len(copies[n]) : copies'[n][k] = copies[n][k]
    BY <2>2, <2>3, <2>4
  <2>6. \A n \in Posts' : \A k \in 1..Len(copies'[n]) :
          n \notin Posts \/ k > Len(copies[n]) => copies'[n][k] # "sent"
    <3>1. SUFFICES ASSUME NEW n \in Posts, NEW k \in 1..Len(copies'[n]), k > Len(copies[n])
                   PROVE  copies'[n][k] # "sent"
      BY <2>4
    <3>2. n = m /\ k = Len(copies[m]) + 1
      BY <2>2, <2>3, <2>4, <3>1
    <3>3. QED
      BY <2>3, <3>2
  <2>7. QED
    BY <2>4, <2>5, <2>6, StageFact
<1>3. QED
  BY <1>1, <1>2 DEF enqueue_incoming

LEMMA PostStages ==
    ASSUME Typed, NEW t \in 0..MaxPosts, Post(t)
    PROVE  StageStep
<1>1. /\ Typed' /\ Posts' = Posts \cup {Len(parent) + 1} /\ copies' = Append(copies, <<>>)
  BY PostStep DEF Post
<1>2. copies \in Seq(Seq(Stages)) /\ Len(copies) = Len(parent) /\ Len(parent) \in Nat
      /\ Posts = 1..Len(copies)
  BY PostsType DEF Typed, Posts
<1>3. (\A m \in Posts : copies'[m] = copies[m]) /\ copies'[Len(parent) + 1] = <<>>
  BY <1>1, <1>2
<1>4. \A m \in Posts : Len(copies[m]) \in Nat
  BY TimesType DEF TimesTyped, Times
<1>5. \A m \in Posts' : \A k \in 1..Len(copies'[m]) :
          m \notin Posts \/ k > Len(copies[m]) => copies'[m][k] # "sent"
  <2>1. ASSUME NEW m \in Posts, NEW k \in 1..Len(copies'[m]) PROVE ~(k > Len(copies[m]))
    BY <1>3, <1>4
  <2>2. 1..Len(copies'[Len(parent) + 1]) = {}
    BY <1>3
  <2>3. QED
    BY <1>1, <2>1, <2>2
<1>6. \A m \in Posts : /\ Len(copies[m]) <= Len(copies'[m])
                       /\ \A k \in 1..Len(copies[m]) : copies'[m][k] = copies[m][k]
  BY <1>3, <1>4
<1>7. QED
  BY <1>1, <1>5, <1>6, StageFact

LEMMA HandleStages ==
    ASSUME Typed, Typed', Handle
    PROVE  StageStep
<1>1. PICK m \in Posts : \E k \in DOMAIN copies[m] : RequeueOrRecover(m, k) \/ Answer(m, k) \/ AnswerNothing(m, k)
  BY DEF Handle
<1>2. PICK k \in DOMAIN copies[m], to \in {"renamed", "outgoing", "silent"} :
        /\ copies[m][k] \in {"queued", "renamed"} /\ copies' = [copies EXCEPT ![m][k] = to] /\ UNCHANGED parent
  BY <1>1 DEF RequeueOrRecover, Answer, AnswerNothing, Move
<1>3. copies \in Seq(Seq(Stages)) /\ \A n \in Posts : n \in 1..Len(copies) /\ copies[n] \in Seq(Stages)
  BY ElementFact DEF Typed, Posts
<1>4. /\ copies'[m] = [copies[m] EXCEPT ![k] = to] /\ \A n \in Posts : n # m => copies'[n] = copies[n]
  BY <1>2, <1>3
<1>5. Len(copies'[m]) = Len(copies[m]) /\ copies'[m][k] = to
      /\ \A j \in 1..Len(copies[m]) : j # k => copies'[m][j] = copies[m][j]
  <2>1. copies[m] \in Seq(Stages)
    BY <1>3
  <2>2. QED
    BY <1>2, <1>4, <2>1
<1>6. Posts' = Posts /\ \A n \in Posts : Len(copies[n]) \in Nat
  BY <1>2, <1>3 DEF Posts
<1>7. \A n \in Posts : /\ Len(copies[n]) <= Len(copies'[n])
                       /\ \A j \in 1..Len(copies[n]) :
                            \/ copies'[n][j] = copies[n][j]
                            \/ copies[n][j] \in {"queued", "renamed"} /\ copies'[n][j] # "sent"
  BY <1>2, <1>4, <1>5, <1>6
<1>8. \A n \in Posts' : \A j \in 1..Len(copies'[n]) : ~(n \notin Posts \/ j > Len(copies[n]))
  BY <1>4, <1>5, <1>6
<1>9. QED
  BY <1>6, <1>7, <1>8, StageFact

\* On to the next file: the sweep is typed and posts nothing for now.
LEMMA NextPathFact ==
    ASSUME SweepTyped, NEW e \in Senders, NEW failed \in BOOLEAN, sweep[e] \in Sweeps,
           sweep[e].paths # <<>>, NextPath(e, failed)
    PROVE  /\ SweepTyped' /\ ~Posting(e)' /\ \A f \in Senders : f # e => sweep'[f] = sweep[f]
<1> DEFINE s == [pc |-> "read", paths |-> Tail(sweep[e].paths), chunk |-> 1, err |-> sweep[e].err \/ failed]
<1>1. sweep' = [sweep EXCEPT ![e] = s]
  BY DEF NextPath
<1>2. sweep[e].paths \in Lists /\ sweep[e].err \in BOOLEAN
  BY DEF Sweeps
<1>3. Tail(sweep[e].paths) \in Lists
  BY <1>2, ListFact
<1>4. s \in Sweeps /\ s.pc = "read" /\ s.chunk = 1
  BY <1>2, <1>3 DEF Sweeps
<1> HIDE DEF s
<1>5. sweep'[e] = s /\ (\A f \in Senders : f # e => sweep'[f] = sweep[f])
      /\ sweep' \in [Senders -> Sweeps \cup {NoSweep}]
  BY <1>1, <1>4 DEF SweepTyped
<1>6. QED
  BY <1>4, <1>5 DEF SweepTyped, Posting

\* One sweep moves, and neither posts a chunk nor touches a file.
LEMMA MovedKeeps ==
    ASSUME OutboundInv, SweepTyped', NEW e \in Senders, \A f \in Senders : f # e => sweep'[f] = sweep[f],
           ~Posting(e)', UNCHANGED <<parent, copies, shown, twice>>,
           contested \subseteq contested', Posting(e) => Path(e) \in contested'
    PROVE  OutboundInv'
<1>1. \A f \in Senders : Posting(f)' => /\ f # e /\ Posting(f) /\ sweep'[f] = sweep[f]
                                        /\ Path(f)' = Path(f) /\ Stage(Path(f))' = Stage(Path(f))
  BY DEF Posting, Path, Stage
<1>2. Copies' = Copies /\ \A c : Stage(c)' = Stage(c)
  BY DEF Copies, Posts, Stage
<1>3. ShownSoFar'
  BY <1>1, <1>2 DEF OutboundInv, ShownSoFar
<1>4. Contested'
  BY <1>1 DEF OutboundInv, Contested
<1>5. Accounted'
  <2>1. SUFFICES ASSUME NEW x \in shown
                 PROVE  /\ x[1] \in Copies /\ x[2] \in Nat
                        /\ \/ x[1] \in contested' \/ Stage(x[1]) = "sent"
                           \/ \E f \in Senders : Posting(f)' /\ Path(f)' = x[1] /\ sweep'[f].chunk > x[2]
    BY <1>2 DEF Accounted
  <2>2. PICK y \in shown : y = x
    OBVIOUS
  <2>3. /\ x[1] \in Copies /\ x[2] \in Nat
        /\ \/ x[1] \in contested \/ Stage(x[1]) = "sent"
           \/ \E f \in Senders : Posting(f) /\ Path(f) = x[1] /\ sweep[f].chunk > x[2]
    BY DEF OutboundInv, Accounted
  <2>4. ASSUME NEW f \in Senders, Posting(f), Path(f) = x[1], sweep[f].chunk > x[2]
        PROVE  x[1] \in contested' \/ (Posting(f)' /\ Path(f)' = x[1] /\ sweep'[f].chunk > x[2])
    BY <2>4 DEF Posting, Path
  <2>5. QED
    BY <2>3, <2>4
<1>6. SentWhole'
  BY <1>2 DEF OutboundInv, SentWhole
<1>7. TwiceContested'
  BY DEF OutboundInv, TwiceContested
<1>8. QED
  BY <1>3, <1>4, <1>5, <1>6, <1>7 DEF OutboundInv

LEMMA SweepBeginKeeps ==
    ASSUME Typed, OutboundInv, NEW e \in Senders, SweepBegin(e)
    PROVE  OutboundInv'
<1> DEFINE s == [pc |-> "read", paths |-> Sorted(Outgoing), chunk |-> 1, err |-> FALSE]
<1>0. SweepTyped
  BY DEF OutboundInv
<1>1. Outgoing \in SUBSET AllCopies
  BY PostsType DEF Outgoing, Copies, AllCopies
<1>2. s \in Sweeps /\ s.pc = "read" /\ s.chunk = 1
  <2>1. Sorted(Outgoing) \in Lists
    BY <1>1, SortedFact
  <2>2. QED
    BY <2>1 DEF Sweeps
<1>3. /\ sweep[e] = NoSweep /\ sweep' = [sweep EXCEPT ![e] = s]
      /\ UNCHANGED <<parent, copies, shown, twice, contested>>
  BY DEF SweepBegin, SweepUnchanged, outward
<1> HIDE DEF s
<1>4. sweep'[e] = s /\ (\A f \in Senders : f # e => sweep'[f] = sweep[f])
      /\ sweep' \in [Senders -> Sweeps \cup {NoSweep}]
  BY <1>0, <1>2, <1>3 DEF SweepTyped
<1>5. SweepTyped' /\ ~Posting(e)'
  BY <1>0, <1>2, <1>4 DEF SweepTyped, Posting
<1>6. ~Posting(e)
  BY <1>0, <1>3, SweepCases
<1>7. QED
  BY <1>3, <1>4, <1>5, <1>6, MovedKeeps

LEMMA SweepReadKeeps ==
    ASSUME OutboundInv, NEW e \in Senders, SweepRead(e)
    PROVE  OutboundInv'
<1>0. SweepTyped
  BY DEF OutboundInv
<1>1. sweep[e] \in Sweeps /\ sweep[e].pc = "read" /\ sweep[e].paths # <<>> /\ sweep[e].chunk = 1
  BY <1>0, SweepCases DEF SweepRead, AtPath, SweepTyped
<1>2. ~Posting(e) /\ UNCHANGED <<parent, copies, shown, twice>>
  BY <1>1 DEF Posting, SweepRead, SweepUnchanged
<1>3. CASE ~(Path(e) \in Outgoing /\ Path(e)[1] \notin Undeliverable)
  <2>1. NextPath(e, TRUE) /\ UNCHANGED contested
    BY <1>3 DEF SweepRead
  <2>2. SweepTyped' /\ ~Posting(e)' /\ \A f \in Senders : f # e => sweep'[f] = sweep[f]
    BY <1>0, <1>1, <2>1, NextPathFact
  <2>3. QED
    BY <1>2, <2>1, <2>2, MovedKeeps
<1>4. CASE Path(e) \in Outgoing /\ Path(e)[1] \notin Undeliverable
  <2> DEFINE s == [sweep[e] EXCEPT !.pc = "post"]
  <2>1. /\ sweep' = [sweep EXCEPT ![e] = s]
        /\ contested' = IF \E f \in Senders \ {e} : Wanted(f, Path(e)) THEN contested \cup {Path(e)} ELSE contested
    BY <1>0, <1>4 DEF SweepRead, SweepTyped
  <2>2. s \in Sweeps /\ s.pc = "post" /\ s.paths = sweep[e].paths /\ s.chunk = 1
    <3> DEFINE r == sweep[e]
    <3> HIDE DEF r
    <3>1. [r EXCEPT !.pc = "post"] \in Sweeps /\ [r EXCEPT !.pc = "post"].pc = "post"
          /\ [r EXCEPT !.pc = "post"].paths = r.paths /\ [r EXCEPT !.pc = "post"].chunk = 1
      BY <1>1 DEF Sweeps, r
    <3>2. QED
      BY <3>1 DEF r
  <2> HIDE DEF s
  <2>3. sweep'[e] = s /\ (\A f \in Senders : f # e => sweep'[f] = sweep[f])
        /\ sweep' \in [Senders -> Sweeps \cup {NoSweep}]
    BY <1>0, <2>1, <2>2 DEF SweepTyped
  <2>4. SweepTyped'
    <3>1. \A f \in Senders : f # e => /\ sweep'[f].pc = "read" => sweep'[f].chunk = 1
                                      /\ Posting(f)' => sweep'[f].paths # <<>> /\ sweep'[f].chunk > 0
      BY <1>0, <2>3 DEF SweepTyped, Posting
    <3>2. /\ sweep'[e].pc = "read" => sweep'[e].chunk = 1
          /\ Posting(e)' => sweep'[e].paths # <<>> /\ sweep'[e].chunk > 0
      BY <1>1, <2>2, <2>3
    <3>3. QED
      BY <2>3, <3>1, <3>2 DEF SweepTyped
  <2>5. Path(e)' = Path(e) /\ Posting(e)' /\ contested \subseteq contested'
    BY <2>1, <2>2, <2>3 DEF Path, Posting
  <2>6. \A f \in Senders : f # e => Posting(f)' = Posting(f) /\ Path(f)' = Path(f)
    BY <2>3 DEF Path, Posting
  <2>7. Copies' = Copies /\ (\A c : Stage(c)' = Stage(c)) /\ (\A f \in Senders : Stage(Path(f))' = Stage(Path(f)'))
    BY <1>2 DEF Copies, Posts, Stage
  <2>8. Path(e) \in Copies /\ Stage(Path(e)) = "outgoing"
    BY <1>4 DEF Outgoing, Stage
  <2>9. ASSUME NEW f \in Senders, f # e, Posting(f), Path(f) = Path(e)
        PROVE  Path(e) \in contested'
    <3>1. sweep[f] \in Sweeps /\ sweep[f].paths # <<>> /\ sweep[f] # NoSweep
      BY <1>0, <2>9, SweepCases
    <3>2. 1 \in DOMAIN sweep[f].paths /\ sweep[f].paths[1] = Path(f)
      BY <3>1, ListFact DEF Sweeps, Path
    <3>3. Wanted(f, Path(e))
      BY <2>9, <3>1, <3>2 DEF Wanted
    <3>4. QED
      BY <2>1, <2>9, <3>3
  <2>10. ShownSoFar'
    <3>1. \A f \in Senders : f # e /\ Posting(f) =>
             /\ Path(f) \in Copies
             /\ \A n \in 1..Chunks : n < sweep[f].chunk => <<Path(f), n>> \in shown
             /\ Stage(Path(f)) = "outgoing" \/ Path(f) \in contested
      BY DEF OutboundInv, ShownSoFar
    <3>2. \A n \in 1..Chunks : ~(n < sweep'[e].chunk)
      BY <2>2, <2>3
    <3>3. \A f \in Senders : Stage(Path(f))' = Stage(Path(f))
      BY <1>2, <2>5, <2>6 DEF Stage
    <3>4. QED
      BY <1>2, <2>3, <2>5, <2>6, <2>7, <2>8, <3>1, <3>2, <3>3 DEF ShownSoFar
  <2>11. Contested'
    <3>1. SUFFICES ASSUME NEW f \in Senders, NEW g \in Senders, f # g, Posting(f)', Posting(g)', Path(f)' = Path(g)'
                   PROVE  Path(f)' \in contested'
      BY DEF Contested
    <3>2. CASE f # e /\ g # e
      BY <2>5, <2>6, <3>1, <3>2 DEF OutboundInv, Contested
    <3>3. CASE f = e
      BY <2>5, <2>6, <2>9, <3>1, <3>3
    <3>4. CASE g = e
      BY <2>5, <2>6, <2>9, <3>1, <3>4
    <3>5. QED
      BY <3>2, <3>3, <3>4
  <2>12. Accounted'
    <3>1. \A f \in Senders : Posting(f) => Posting(f)' /\ Path(f)' = Path(f) /\ sweep'[f].chunk = sweep[f].chunk
      BY <1>2, <2>3, <2>6
    <3>2. QED
      BY <1>2, <2>5, <2>7, <3>1 DEF OutboundInv, Accounted
  <2>13. SentWhole' /\ TwiceContested'
    BY <1>2, <2>5, <2>7 DEF OutboundInv, SentWhole, TwiceContested
  <2>14. QED
    BY <2>4, <2>10, <2>11, <2>12, <2>13 DEF OutboundInv
<1>5. QED
  BY <1>3, <1>4

LEMMA SweepPostKeeps ==
    ASSUME OutboundInv, NEW e \in Senders, SweepPost(e)
    PROVE  OutboundInv'
<1>0. SweepTyped
  BY DEF OutboundInv
<1>1. /\ Posting(e) /\ sweep[e] \in Sweeps /\ sweep[e].pc = "post" /\ sweep[e].paths # <<>>
      /\ sweep[e].chunk \in Nat \ {0} /\ sweep[e].chunk <= Chunks /\ Chunks \in Nat
  BY <1>0, SweepCases, ConstantsOK DEF SweepPost
<1>2. UNCHANGED <<parent, copies>>
  BY DEF SweepPost, SweepUnchanged
<1>3. CASE NextPath(e, TRUE) /\ contested' = contested \cup {Path(e)} /\ UNCHANGED <<shown, twice>>
  <2>1. SweepTyped' /\ ~Posting(e)' /\ \A f \in Senders : f # e => sweep'[f] = sweep[f]
    BY <1>0, <1>1, <1>3, NextPathFact
  <2>2. QED
    BY <1>2, <1>3, <2>1, MovedKeeps
<1> DEFINE x == <<Path(e), sweep[e].chunk>>
<1>4. CASE /\ shown' = shown \cup {x} /\ twice' = IF x \in shown THEN twice \cup {x} ELSE twice
           /\ sweep' = [sweep EXCEPT ![e].chunk = sweep[e].chunk + 1] /\ UNCHANGED contested
  <2> DEFINE s == [sweep[e] EXCEPT !.chunk = sweep[e].chunk + 1]
  <2>1. sweep' = [sweep EXCEPT ![e] = s]
    BY <1>0, <1>4 DEF SweepTyped
  <2>2. s \in Sweeps /\ s.pc = "post" /\ s.paths = sweep[e].paths /\ s.chunk = sweep[e].chunk + 1
    BY <1>1 DEF Sweeps
  <2> HIDE DEF s
  <2>3. sweep'[e] = s /\ (\A f \in Senders : f # e => sweep'[f] = sweep[f])
        /\ sweep' \in [Senders -> Sweeps \cup {NoSweep}]
    BY <1>0, <2>1, <2>2 DEF SweepTyped
  <2>4. SweepTyped'
    <3>1. \A f \in Senders : f # e => /\ sweep'[f].pc = "read" => sweep'[f].chunk = 1
                                      /\ Posting(f)' => sweep'[f].paths # <<>> /\ sweep'[f].chunk > 0
      BY <1>0, <2>3 DEF SweepTyped, Posting
    <3>2. /\ sweep'[e].pc = "read" => sweep'[e].chunk = 1
          /\ Posting(e)' => sweep'[e].paths # <<>> /\ sweep'[e].chunk > 0
      BY <1>1, <2>2, <2>3
    <3>3. QED
      BY <2>3, <3>1, <3>2 DEF SweepTyped
  <2>5. \A f \in Senders : Posting(f)' = Posting(f) /\ Path(f)' = Path(f)
    BY <1>1, <2>2, <2>3 DEF Path, Posting
  <2>6. Copies' = Copies /\ (\A c : Stage(c)' = Stage(c)) /\ (\A f \in Senders : Stage(Path(f))' = Stage(Path(f)))
    BY <1>2, <2>5 DEF Copies, Posts, Stage
  <2>7. ASSUME NEW f \in Senders, Posting(f)
        PROVE  /\ Path(f) \in Copies
               /\ \A n \in 1..Chunks : n < sweep[f].chunk => <<Path(f), n>> \in shown
               /\ Stage(Path(f)) = "outgoing" \/ Path(f) \in contested
    BY <2>7 DEF OutboundInv, ShownSoFar
  <2>8. ShownSoFar'
    <3>1. ASSUME NEW f \in Senders, Posting(f), NEW n \in 1..Chunks, n < sweep'[f].chunk
          PROVE  <<Path(f), n>> \in shown'
      <4>1. CASE f # e
        BY <1>4, <2>3, <2>7, <3>1, <4>1
      <4>2. CASE f = e
        <5>1. n < sweep[e].chunk \/ n = sweep[e].chunk
          BY <1>1, <2>2, <2>3, <3>1, <4>2
        <5>2. QED
          BY <1>4, <2>7, <3>1, <4>2, <5>1
      <4>3. QED
        BY <4>1, <4>2
    <3>2. QED
      BY <1>4, <2>5, <2>6, <2>7, <3>1 DEF ShownSoFar
  <2>9. Contested'
    BY <1>4, <2>5 DEF OutboundInv, Contested
  <2>10. Accounted'
    <3>1. SUFFICES ASSUME NEW y \in shown'
                   PROVE  /\ y[1] \in Copies /\ y[2] \in Nat
                          /\ \/ y[1] \in contested \/ Stage(y[1]) = "sent"
                             \/ \E f \in Senders : Posting(f) /\ Path(f) = y[1] /\ sweep'[f].chunk > y[2]
      BY <1>4, <2>5, <2>6 DEF Accounted
    <3>2. CASE y = x
      <4>1. y[1] = Path(e) /\ y[2] = sweep[e].chunk /\ sweep'[e].chunk > sweep[e].chunk
        BY <1>1, <2>2, <2>3, <3>2
      <4>2. QED
        BY <1>1, <2>7, <4>1
    <3>3. CASE y \in shown
      <4>1. /\ y[1] \in Copies /\ y[2] \in Nat
            /\ \/ y[1] \in contested \/ Stage(y[1]) = "sent"
               \/ \E f \in Senders : Posting(f) /\ Path(f) = y[1] /\ sweep[f].chunk > y[2]
        BY <3>3 DEF OutboundInv, Accounted
      <4>2. ASSUME NEW f \in Senders, Posting(f), Path(f) = y[1], sweep[f].chunk > y[2], Stage(y[1]) # "sent",
                   y[1] \notin contested
            PROVE  sweep'[f].chunk > y[2]
        <5>1. CASE f # e
          BY <2>3, <4>2, <5>1
        <5>2. CASE f = e
          BY <1>1, <2>2, <2>3, <4>1, <4>2, <5>2
        <5>3. QED
          BY <5>1, <5>2
      <4>3. QED
        BY <4>1, <4>2
    <3>4. QED
      BY <1>4, <3>1, <3>2, <3>3
  <2>11. SentWhole'
    BY <1>4, <2>6 DEF OutboundInv, SentWhole
  <2>12. x \in shown => Path(e) \in contested
    <3>1. SUFFICES ASSUME x \in shown, Path(e) \notin contested PROVE FALSE
      OBVIOUS
    <3>2. x[1] = Path(e) /\ x[2] = sweep[e].chunk
      OBVIOUS
    <3>3. Stage(Path(e)) = "outgoing"
      BY <1>1, <2>7, <3>1
    <3>4. PICK f \in Senders : Posting(f) /\ Path(f) = Path(e) /\ sweep[f].chunk > sweep[e].chunk
      BY <3>1, <3>2, <3>3 DEF OutboundInv, Accounted
    <3>5. f # e
      BY <1>1, <3>4
    <3>6. QED
      BY <1>1, <3>1, <3>4, <3>5 DEF OutboundInv, Contested
  <2>13. TwiceContested'
    BY <1>4, <2>12 DEF OutboundInv, TwiceContested
  <2>14. QED
    BY <2>4, <2>8, <2>9, <2>10, <2>11, <2>13 DEF OutboundInv
<1>5. QED
  BY <1>3, <1>4 DEF SweepPost

LEMMA SweepRemoveKeeps ==
    ASSUME Typed, OutboundInv, NEW e \in Senders, SweepRemove(e)
    PROVE  OutboundInv'
<1>0. SweepTyped
  BY DEF OutboundInv
<1>1. /\ Posting(e) /\ sweep[e] \in Sweeps /\ sweep[e].paths # <<>>
      /\ sweep[e].chunk \in Nat \ {0} /\ sweep[e].chunk > Chunks /\ Chunks \in Nat
  BY <1>0, SweepCases, ConstantsOK DEF SweepRemove
<1>2. PICK c \in Copies : c = Path(e)
  BY <1>1 DEF OutboundInv, ShownSoFar
<1>3. /\ UNCHANGED <<parent, shown, twice, contested>>
      /\ copies' = IF c \in Outgoing THEN [copies EXCEPT ![c[1]][c[2]] = "sent"] ELSE copies
      /\ NextPath(e, c \notin Outgoing)
  BY <1>2 DEF SweepRemove, SweepUnchanged, outward
<1>4. /\ SweepTyped' /\ ~Posting(e)' /\ \A f \in Senders : f # e => sweep'[f] = sweep[f]
  BY <1>0, <1>1, <1>3, NextPathFact
<1>5. /\ \A n \in 1..Chunks : <<c, n>> \in shown
      /\ Stage(c) = "outgoing" \/ c \in contested
  BY <1>1, <1>2 DEF OutboundInv, ShownSoFar
<1>6. CASE c \notin Outgoing
  <2>1. c \in contested
    BY <1>5, <1>6 DEF Outgoing, Stage
  <2>2. QED
    BY <1>2, <1>3, <1>4, <1>6, <2>1, MovedKeeps
<1>7. CASE c \in Outgoing
  <2>1. Stage(c) = "outgoing"
    BY <1>7 DEF Outgoing, Stage
  <2>2. Copies' = Copies /\ Stage(c)' = "sent" /\ \A d \in Copies : d # c => Stage(d)' = Stage(d)
    <3>1. PICK m \in Posts, k \in 1..MaxCopies : c = <<m, k>> /\ k <= Len(copies[m])
      BY DEF Copies
    <3>2. copies \in Seq(Seq(Stages)) /\ \A n \in Posts : n \in 1..Len(copies) /\ copies[n] \in Seq(Stages)
      BY ElementFact DEF Typed, Posts
    <3>3. copies' = [copies EXCEPT ![m][k] = "sent"]
      BY <1>3, <1>7, <3>1
    <3>4. /\ copies'[m] = [copies[m] EXCEPT ![k] = "sent"] /\ \A n \in Posts : n # m => copies'[n] = copies[n]
      BY <3>2, <3>3
    <3>5. Len(copies'[m]) = Len(copies[m]) /\ copies'[m][k] = "sent"
          /\ \A j \in 1..Len(copies[m]) : j # k => copies'[m][j] = copies[m][j]
      <4>1. copies[m] \in Seq(Stages)
        BY <3>2
      <4>2. QED
        BY <3>1, <3>4, <4>1
    <3>6. Copies' = Copies
      <4>1. Posts' = Posts /\ \A n \in Posts : Len(copies'[n]) = Len(copies[n])
        BY <1>3, <3>4, <3>5 DEF Posts
      <4>2. QED
        BY <4>1 DEF Copies
    <3>7. ASSUME NEW d \in Copies, d # c PROVE Stage(d)' = Stage(d)
      <4>1. PICK n \in Posts, j \in 1..MaxCopies : d = <<n, j>> /\ j <= Len(copies[n])
        BY DEF Copies
      <4>2. Len(copies[n]) \in Nat
        BY TimesType DEF TimesTyped, Times
      <4>3. copies'[n][j] = copies[n][j]
        BY <3>1, <3>4, <3>5, <3>7, <4>1, <4>2
      <4>4. QED
        BY <4>1, <4>3 DEF Stage
    <3>8. Stage(c)' = "sent"
      BY <3>1, <3>5 DEF Stage
    <3>9. QED
      BY <3>6, <3>7, <3>8
  <2>3. \A f \in Senders : Posting(f)' => /\ f # e /\ Posting(f) /\ sweep'[f] = sweep[f] /\ Path(f)' = Path(f)
    BY <1>4 DEF Posting, Path
  <2>4. ASSUME NEW f \in Senders, Posting(f)'
        PROVE  /\ Path(f) \in Copies
               /\ \A n \in 1..Chunks : n < sweep[f].chunk => <<Path(f), n>> \in shown
               /\ Stage(Path(f))' = "outgoing" \/ Path(f) \in contested
    <3>1. PICK d \in Copies : d = Path(f)
      BY <2>3, <2>4 DEF OutboundInv, ShownSoFar
    <3>2. Stage(Path(f))' = Stage(d)'
      BY <2>3, <2>4, <3>1 DEF Stage
    <3>3. d = c => d \in contested
      BY <1>1, <1>2, <2>3, <2>4, <3>1 DEF OutboundInv, Contested
    <3>4. d # c => Stage(d)' = Stage(d)
      BY <2>2
    <3>5. QED
      BY <2>3, <2>4, <3>1, <3>2, <3>3, <3>4 DEF OutboundInv, ShownSoFar
  <2>5. ShownSoFar'
    BY <1>3, <2>2, <2>3, <2>4 DEF ShownSoFar
  <2>6. Contested'
    BY <1>3, <2>3 DEF OutboundInv, Contested
  <2>7. Accounted'
    <3>1. SUFFICES ASSUME NEW x \in shown
                   PROVE  /\ x[1] \in Copies /\ x[2] \in Nat
                          /\ \/ x[1] \in contested \/ Stage(x[1])' = "sent"
                             \/ \E f \in Senders : Posting(f)' /\ Path(f)' = x[1] /\ sweep'[f].chunk > x[2]
      BY <1>3, <2>2 DEF Accounted
    <3>2. /\ x[1] \in Copies /\ x[2] \in Nat
          /\ \/ x[1] \in contested \/ Stage(x[1]) = "sent"
             \/ \E f \in Senders : Posting(f) /\ Path(f) = x[1] /\ sweep[f].chunk > x[2]
      BY DEF OutboundInv, Accounted
    <3>3. CASE x[1] = c
      <4>1. Stage(x[1])' = "sent"
        BY <2>2, <3>3 DEF Stage
      <4>2. QED
        BY <3>2, <4>1
    <3>4. CASE x[1] # c
      <4>1. PICK d \in Copies : d = x[1]
        BY <3>2
      <4>2. Stage(x[1])' = Stage(x[1])
        BY <2>2, <3>4, <4>1
      <4>3. \A f \in Senders : Posting(f) /\ Path(f) = x[1] => f # e
        BY <1>2, <3>4
      <4>4. \A f \in Senders : f # e /\ Posting(f) => Posting(f)' /\ Path(f)' = Path(f) /\ sweep'[f] = sweep[f]
        BY <1>4 DEF Posting, Path
      <4>5. QED
        BY <3>2, <4>2, <4>3, <4>4
    <3>5. QED
      BY <3>3, <3>4
  <2>8. SentWhole'
    BY <1>3, <1>5, <2>2 DEF OutboundInv, SentWhole
  <2>9. TwiceContested'
    BY <1>3 DEF OutboundInv, TwiceContested
  <2>10. QED
    BY <1>4, <2>5, <2>6, <2>7, <2>8, <2>9 DEF OutboundInv
<1>8. QED
  BY <1>6, <1>7

LEMMA SweepEndKeeps ==
    ASSUME OutboundInv, NEW e \in Senders, SweepEnd(e)
    PROVE  OutboundInv'
<1>0. SweepTyped
  BY DEF OutboundInv
<1>1. /\ sweep[e].paths = <<>> /\ sweep' = [sweep EXCEPT ![e] = NoSweep]
      /\ UNCHANGED <<parent, copies, shown, twice, contested>>
  BY DEF SweepEnd, queue, outward
<1>2. ~Posting(e)
  BY <1>0, <1>1, SweepCases
<1>3. sweep'[e] = NoSweep /\ (\A f \in Senders : f # e => sweep'[f] = sweep[f])
      /\ sweep' \in [Senders -> Sweeps \cup {NoSweep}]
  BY <1>0, <1>1 DEF SweepTyped
<1>4. SweepTyped' /\ ~Posting(e)'
  BY <1>0, <1>3 DEF SweepTyped, Posting, NoSweep
<1>5. QED
  BY <1>1, <1>2, <1>3, <1>4, MovedKeeps

LEMMA CutKeepsOut ==
    ASSUME OutboundInv, NEW ps, NEW es, CutOff(ps, es)
    PROVE  OutboundInv'
<1>0. SweepTyped
  BY DEF OutboundInv
<1>1. /\ sweep' = [e \in Senders |-> IF e \in es THEN NoSweep ELSE sweep[e]]
      /\ contested' = contested \cup {Path(e) : e \in {f \in es : AtPath(f, "post")}}
      /\ UNCHANGED <<parent, copies, shown, twice>>
  BY DEF CutOff, queue
<1>2. \A e \in Senders : e \in es => ~Posting(e)' /\ sweep'[e].pc # "read"
  BY <1>1 DEF Posting, NoSweep
<1>3. \A e \in Senders : e \in es /\ Posting(e) => Path(e) \in contested'
  <2>1. \A e \in Senders : Posting(e) => AtPath(e, "post")
    BY <1>0 DEF SweepTyped, Posting, AtPath
  <2>2. QED
    BY <1>1, <2>1
<1>4. \A e \in Senders : e \notin es => sweep'[e] = sweep[e] /\ Posting(e)' = Posting(e) /\ Path(e)' = Path(e)
  BY <1>1 DEF Posting, Path
<1>5. SweepTyped'
  <2>1. sweep' \in [Senders -> Sweeps \cup {NoSweep}]
    BY <1>0, <1>1 DEF SweepTyped
  <2>2. QED
    BY <1>0, <1>2, <1>4, <2>1 DEF SweepTyped
<1>6. Copies' = Copies /\ (\A c : Stage(c)' = Stage(c)) /\ contested \subseteq contested'
  BY <1>1 DEF Copies, Posts, Stage
<1>7. Accounted'
  <2>1. SUFFICES ASSUME NEW x \in shown
                 PROVE  /\ x[1] \in Copies /\ x[2] \in Nat
                        /\ \/ x[1] \in contested' \/ Stage(x[1]) = "sent"
                           \/ \E e \in Senders : Posting(e)' /\ Path(e)' = x[1] /\ sweep'[e].chunk > x[2]
    BY <1>1, <1>6 DEF Accounted
  <2>2. /\ x[1] \in Copies /\ x[2] \in Nat
        /\ \/ x[1] \in contested \/ Stage(x[1]) = "sent"
           \/ \E e \in Senders : Posting(e) /\ Path(e) = x[1] /\ sweep[e].chunk > x[2]
    BY DEF OutboundInv, Accounted
  <2>3. QED
    BY <1>3, <1>4, <1>6, <2>2
<1>8. ShownSoFar' /\ Contested'
  <2>1. \A e \in Senders : Posting(e)' => Posting(e) /\ sweep'[e] = sweep[e] /\ Path(e)' = Path(e)
    BY <1>2, <1>4
  <2>2. QED
    BY <1>1, <1>6, <2>1 DEF OutboundInv, ShownSoFar, Contested
<1>9. QED
  BY <1>1, <1>5, <1>6, <1>7, <1>8 DEF OutboundInv, SentWhole, TwiceContested

\* Steps of the passes and loops touch the queue only by enqueueing a post.
LEMMA PassStages ==
    ASSUME InboundInv, InboundInv', NEW p \in Passers, Pass(p)
    PROVE  StageStep /\ UNCHANGED sweeping
<1>0. Typed /\ Typed'
  BY DEF InboundInv
<1>1. CASE PassEnqueue(p)
  <2>1. PICK m \in pass[p].batch : copies' = enqueue_incoming(m)
    BY <1>0, <1>1, EnqueueResult
  <2>2. Active(p)
    BY <1>1 DEF PassEnqueue, Active
  <2>3. m \in Posts
    BY <2>2 DEF InboundInv, Bounded, PassBounded
  <2>4. UNCHANGED parent /\ UNCHANGED sweeping
    BY <1>1 DEF PassEnqueue, sweeping, outward
  <2>5. QED
    BY <1>0, <2>1, <2>3, <2>4, EnqueueStages
<1>2. CASE ~PassEnqueue(p)
  <2>1. UNCHANGED <<parent, copies>> /\ UNCHANGED sweeping
    BY <1>2 DEF Pass, FetchHistory, DiscoverThreads, FetchReplies, PassWrite, PassSave, PassNotInChannel, WriteDraft,
                ThreadNotInChannel, PassFail, queue, outward, sweeping
  <2>2. QED
    BY <2>1, SameStages
<1>3. QED
  BY <1>1, <1>2

LEMMA LoopStages ==
    ASSUME InboundInv, InboundInv', NEW i \in Loops, Loop(i)
    PROVE  StageStep /\ UNCHANGED sweeping
<1>0. Typed /\ Typed'
  BY DEF InboundInv
<1>1. CASE BufferEnqueue(i)
  <2>1. /\ UNCHANGED parent /\ UNCHANGED sweeping /\ copies' = enqueue_incoming(Head(buffer[i]))
        /\ buffer[i] # <<>>
    BY <1>1 DEF BufferEnqueue, LoopUnchanged, sweeping, outward
  <2>2. /\ buffer[i] \in Seq(1..MaxPosts)
        /\ \A n \in 1..Len(buffer[i]) : buffer[i][n] \in delivered
    BY <1>0 DEF Typed
  <2>3. Head(buffer[i]) \in delivered
    BY <2>1, <2>2
  <2>4. PICK m \in Posts : m = Head(buffer[i])
    BY <1>0, <2>3 DEF Typed
  <2>5. QED
    BY <1>0, <2>1, <2>4, EnqueueStages
<1>2. CASE ~BufferEnqueue(i)
  <2>1. UNCHANGED <<parent, copies>> /\ UNCHANGED sweeping
    BY <1>2 DEF Loop, LoopTop, Connect, Disconnect, Closed, LoopGone, Deliver, LoopUnchanged,
                outward, sweeping
  <2>2. QED
    BY <2>1, SameStages
<1>3. QED
  BY <1>1, <1>2

LEMMA OutboundNext == InboundInv /\ InboundInv' /\ OutboundInv /\ [Next]_vars => OutboundInv'
<1>1. SUFFICES ASSUME InboundInv, InboundInv', OutboundInv, [Next]_vars PROVE OutboundInv'
  OBVIOUS
<1>0. Typed /\ Typed'
  BY <1>1 DEF InboundInv
<1>2. CASE UNCHANGED vars
  <2>1. UNCHANGED <<parent, copies>> /\ UNCHANGED sweeping
    BY <1>2 DEF vars, sweeping
  <2>2. QED
    BY <1>1, <2>1, SameStages, StagesKeep
<1>3. CASE \E t \in 0..MaxPosts : Post(t)
  <2>1. UNCHANGED sweeping
    BY <1>3 DEF Post, outward, sweeping
  <2>2. QED
    BY <1>0, <1>1, <1>3, <2>1, PostStages, StagesKeep
<1>4. CASE Handle
  <2>1. UNCHANGED sweeping
    BY <1>4 DEF Handle, RequeueOrRecover, Answer, AnswerNothing, Move, outward, sweeping
  <2>2. QED
    BY <1>0, <1>1, <1>4, <2>1, HandleStages, StagesKeep
<1>5. CASE \E p \in Passers : Pass(p)
  BY <1>1, <1>5, PassStages, StagesKeep
<1>6. CASE \E i \in Loops : Loop(i)
  BY <1>1, <1>6, LoopStages, StagesKeep
<1>7. CASE \E e \in Senders : Sweep(e)
  BY <1>0, <1>1, <1>7, SweepBeginKeeps, SweepReadKeeps, SweepPostKeeps, SweepRemoveKeeps, SweepEndKeeps DEF Sweep
<1>8. CASE RuntimeStart \/ RuntimeStop \/ RequestStop \/ Start \/ TickBegin \/ CommandBegin
  <2>1. UNCHANGED <<parent, copies>> /\ UNCHANGED sweeping
    BY <1>8 DEF RuntimeStart, RuntimeStop, RequestStop, Start, TickBegin, CommandBegin, WorkerUnchanged, queue, outward, sweeping
  <2>2. QED
    BY <1>1, <2>1, SameStages, StagesKeep
<1>9. CASE Exit \/ Crash \/ CommandKilled
  BY <1>1, <1>9, CutKeepsOut DEF Exit, Crash, Down, CommandKilled
<1>10. QED
  BY <1>1, <1>2, <1>3, <1>4, <1>5, <1>6, <1>7, <1>8, <1>9 DEF Next

LEMMA OutboundInit == Init => OutboundInv
<1>1. SUFFICES ASSUME Init PROVE OutboundInv
  OBVIOUS
<1>2. sweep = [e \in Senders |-> NoSweep] /\ shown = {} /\ twice = {} /\ parent = <<>>
  BY <1>1 DEF Init
<1>3. \A e \in Senders : sweep[e].pc = "idle"
  BY <1>2 DEF NoSweep
<1>4. SweepTyped
  BY <1>2, <1>3 DEF SweepTyped, Posting
<1>5. Copies = {}
  <2>1. Posts = {}
    BY <1>2 DEF Posts
  <2>2. QED
    BY <2>1 DEF Copies
<1>6. QED
  BY <1>2, <1>3, <1>4, <1>5 DEF OutboundInv, ShownSoFar, Contested, Accounted, SentWhole, TwiceContested, Posting

\* A reply's file is removed only when every chunk of it is in Slack, and a chunk
\* is in Slack twice only where a post failed, a process died, or two sweeps
\* were at the file (process_outbound, deliver_targeted_post).
THEOREM RepliesAreWhole == Spec => []ReplyDelivered
<1>1. OutboundInv => ReplyDelivered
  BY DEF OutboundInv, SentWhole, TwiceContested, ReplyDelivered, Stage
<1>2. Spec => []OutboundInv
  BY InboundAlways, OutboundInit, OutboundNext, PTL DEF Spec
<1>3. QED
  BY <1>1, <1>2, PTL
=============================================================================
