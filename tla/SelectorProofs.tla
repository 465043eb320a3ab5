--------------------------- MODULE SelectorProofs ---------------------------
(* Proofs about the descriptor numbers in Selector.tla, for every set of    *)
(* numbers and of threads.                                                  *)
EXTENDS Selector, WellFoundedInduction, TLAPS

-----------------------------------------------------------------------------
(***************************************************************************)
(* The inductive invariant.                                                *)
(***************************************************************************)
Sweeping == phase \in { "sweep", "close", "close again" }

\* The listeners stay in the table as long as the process runs, and what is marked
\* for removal is a monitor session that has sent QUIT.
Entries ==
    /\ IF phase = "stopped" THEN \A i \in Fds : ~Registered(i)
       ELSE item[SocksListener] = "listener" /\ item[MonitorListener] = "listener"
    /\ \A i \in marked : item[i] = "monitor"
    /\ marked # {} \/ phase = "close again" => quit
    /\ phase \in { "close", "close again" } => ~Registered(at)
    /\ \A i \in Fds : item[i] \in { "listener", "monitor" } /\ i \notin marked
                        => i \in ignored

\* Marks are made while the handlers run, at numbers already served, and the next
\* sweep has them all.
Marks ==
    /\ Sweeping => \A i \in marked : at <= i
    /\ phase = "select" => marked = {}
    /\ phase = "serve" => \A i \in marked : i < at

\* The two legs of a connection name each other, but for the time in which a sweep
\* that has dropped one of them is still to come to the other.
Pairs ==
    /\ \A i \in Fds : partner[i] # NoFd =>
         /\ Leg(i) /\ partner[i] # i
         /\ ~Listener(partner[i])
    /\ ~split => \A i \in Fds : partner[i] # NoFd =>
         \/ partner[partner[i]] = i
         \/ Sweeping /\ at <= i /\ Silent(i)

\* Until a close() hits a number of somebody else, the table agrees with the kernel,
\* a number about to be closed is still that of a SOCKS descriptor, and every thread
\* has the number it got.
Agreement ==
    ~robbed =>
      /\ \A i \in Fds :
           /\ Registered(i) /\ i \notin marked => kernel[i] = item[i]
           /\ kernel[i] \in Kind => item[i] = kernel[i] \/ (phase = "close" /\ at = i)
      /\ phase = "close" => kernel[at] \in Socks
      /\ \A t \in Threads : socket[t] # NoFd => kernel[socket[t]] = t

\* What is exempt from the timeout is a listener or a monitor session, or the number
\* was left exempt by an accept that failed.
Exempt ==
    ~robbed /\ phase # "stopped" =>
      \A i \in ignored \ stray : item[i] \in { "listener", "monitor" } /\ i \notin marked

Blame == robbed => quit \/ split

SelectorInv ==
    /\ TypeOK
    /\ Entries
    /\ Marks
    /\ Pairs
    /\ Agreement
    /\ Exempt
    /\ Blame

-----------------------------------------------------------------------------
(***************************************************************************)
(* Lemmas on numbers and on the loops over them.                           *)
(***************************************************************************)
LEMMA Kinds ==
    /\ Kind = { "client", "origin", "listener", "monitor" }
    /\ Socks = { "client", "origin" } /\ Unused = "unused" /\ NoFd = -1
    /\ Free \notin Kind /\ Free \notin Threads
    /\ \A t \in Threads : t \notin Kind
    /\ Fds \subseteq Nat /\ NoFd \notin Fds
    /\ SocksListener \in Fds /\ MonitorListener \in Fds
    /\ SocksListener # MonitorListener
    /\ \A i \in Fds : ~Listener(i) => SocksListener < i /\ MonitorListener < i
  BY SelectorAssumption, KindAssumption DEF Kind, Socks, Unused, NoFd, Listener

LEMMA MinOf ==
    ASSUME NEW S \in SUBSET Fds, S # {}
    PROVE  Min(S) \in S /\ \A j \in S : Min(S) <= j
<1>. DEFINE R == OpToRel(<, Nat)
<1>1. S \subseteq Nat
  BY Kinds
<1>2. PICK i \in S : \A j \in S : << j, i >> \notin R
  <2>1. IsWellFoundedOn(R, Nat)
    BY NatLessThanWellFounded
  <2>. HIDE DEF R
  <2>. QED
    BY <1>1, <2>1, WFMin
<1>3. \A j \in S : ~(j < i)
  BY <1>1, <1>2 DEF OpToRel
<1>4. \A j \in S : i <= j
  BY <1>1, <1>3
<1>. QED
  BY <1>4 DEF Min

LEMMA NewFdIsFree ==
    ASSUME TypeOK, FreeFds # {}
    PROVE  NewFd \in Fds /\ kernel[NewFd] = Free
<1>1. FreeFds \in SUBSET Fds
  BY DEF FreeFds
<1>2. NewFd \in FreeFds
  BY <1>1, MinOf DEF NewFd
<1>. QED
  BY <1>2 DEF FreeFds

LEMMA FirstFd == Min(Fds) \in Fds /\ \A i \in Fds : Min(Fds) <= i
  BY Kinds, MinOf

\* A loop goes on to the next registered number, or there is none.
LEMMA AdvanceTo ==
    ASSUME NEW loop, NEW following, Advance(loop, following)
    PROVE  /\ at' \in Fds
           /\ \/ /\ phase' = loop /\ at < at' /\ item'[at'] # Unused
                 /\ \A i \in Fds : at < i /\ item'[i] # Unused => at' <= i
              \/ /\ phase' = following
                 /\ \A i \in Fds : at < i => item'[i] = Unused
<1>1. Rest \in SUBSET Fds
  BY DEF Rest
<1>2. CASE Rest = {}
  <2>1. phase' = following /\ at' = Min(Fds)
    BY <1>2 DEF Advance
  <2>2. \A i \in Fds : at < i => item'[i] = Unused
    BY <1>2 DEF Rest
  <2>. QED
    BY <2>1, <2>2, FirstFd
<1>3. CASE Rest # {}
  <2>1. phase' = loop /\ at' = Min(Rest)
    BY <1>3 DEF Advance
  <2>2. at' \in Rest /\ \A i \in Rest : at' <= i
    BY <1>1, <1>3, <2>1, MinOf
  <2>. QED
    BY <2>1, <2>2 DEF Rest
<1>. QED
  BY <1>2, <1>3

\* Where the turn is after a handler.
Onward ==
    /\ phase \in { "serve", "notify" } /\ phase' \in { "serve", "notify" }
    /\ at' \in Fds
    /\ phase' = "serve" => phase = "serve" /\ at < at'

LEMMA ServedOnward ==
    ASSUME phase = "serve", Advance("serve", "notify")
    PROVE  Onward
  BY AdvanceTo DEF Onward

LEMMA ReturnsOnward ==
    ASSUME TypeOK, NEW i \in Fds, InHandler(i), Return
    PROVE  Onward
<1>1. CASE phase = "serve"
  BY <1>1, ServedOnward DEF Return
<1>2. CASE phase # "serve"
  BY <1>2 DEF Return, InHandler, ServesLeg, Resolved, turn, Onward, TypeOK
<1>. QED
  BY <1>1, <1>2

\* A handler marks at most the number it is called for.
LEMMA OnwardMarks ==
    ASSUME TypeOK, Marks, Onward, marked' \subseteq marked \cup {at}
    PROVE  Marks'
<1>1. ASSUME phase' = "serve", NEW i \in marked' PROVE i < at'
  <2>1. i \in Nat /\ at \in Nat /\ at' \in Nat
    BY Kinds DEF TypeOK, Onward
  <2>2. i <= at /\ at < at'
    BY <1>1, <2>1 DEF Onward, Marks
  <2>. QED
    BY <2>1, <2>2
<1>. QED
  BY <1>1 DEF Onward, Marks, Sweeping

-----------------------------------------------------------------------------
LEMMA InitInv == Init => SelectorInv
<1>. SUFFICES ASSUME Init PROVE SelectorInv
  OBVIOUS
<1>. USE DEF Init, Listener
<1>1. TypeOK
  BY Kinds, FirstFd DEF TypeOK, Phase, Registered, Leg
<1>2. Entries /\ Marks /\ Pairs
  BY Kinds DEF Entries, Marks, Pairs, Sweeping, Leg, Registered
<1>3. Agreement /\ Exempt /\ Blame
  BY Kinds DEF Agreement, Exempt, Blame, Registered
<1>. QED
  BY <1>1, <1>2, <1>3 DEF SelectorInv

-----------------------------------------------------------------------------
(***************************************************************************)
(* The turn, the sweep and pselect.                                        *)
(***************************************************************************)
\* What a step needs that changes neither the table nor the kernel.
LEMMA TurnInv ==
    ASSUME SelectorInv, UNCHANGED << kernel, table, socket, history >>,
           at' \in Fds, phase' \in Phase, finished' \in BOOLEAN,
           phase # "stopped", phase' \notin { "close", "close again", "stopped" }, Marks',
           \A i \in Fds : Sweeping /\ at <= i /\ Silent(i) /\ ~split /\ partner[i] # NoFd
              => (partner[partner[i]] = i \/ (Sweeping /\ at <= i))',
           phase = "close" => kernel[at] \notin Kind
    PROVE  SelectorInv'
<1>. USE DEF SelectorInv, table, history
<1>1. TypeOK'
  BY DEF TypeOK, Registered, Leg
<1>2. Entries'
  BY DEF Entries, Registered
<1>3. Pairs'
  BY DEF Pairs, Leg, Listener, Silent, Registered
<1>4. Agreement'
  BY DEF Agreement, Registered
<1>5. Exempt'
  BY DEF Exempt
<1>6. Blame'
  BY DEF Blame
<1>. QED
  BY <1>1, <1>2, <1>3, <1>4, <1>5, <1>6

LEMMA TestInv == SelectorInv /\ Test => SelectorInv'
<1>. SUFFICES ASSUME SelectorInv, Test PROVE SelectorInv'
  OBVIOUS
<1>1. phase = "test" /\ phase' = "sweep" /\ at' = Min(Fds)
  BY DEF Test
<1>2. \A i \in Fds : Min(Fds) <= i
  BY FirstFd
<1>3. Marks'
  BY <1>1, <1>2 DEF Test, Marks, Sweeping, SelectorInv, TypeOK, table
<1>. QED
  BY <1>1, <1>3, FirstFd, TurnInv DEF Test, Sweeping, Phase, SelectorInv, TypeOK

LEMMA SweepPassInv == SelectorInv /\ SweepPass => SelectorInv'
<1>. SUFFICES ASSUME SelectorInv, SweepPass PROVE SelectorInv'
  OBVIOUS
<1>1. phase = "sweep" /\ at \notin marked /\ ~Silent(at) /\ item' = item /\ marked' = marked
  BY DEF SweepPass, table
<1>2. /\ at' \in Fds
      /\ \/ phase' = "sweep" /\ \A i \in Fds : at < i /\ Registered(i) => at' <= i
         \/ phase' = "select" /\ \A i \in Fds : at < i => ~Registered(i)
  BY <1>1, AdvanceTo DEF SweepPass, Registered
<1>3. \A i \in Fds : at <= i /\ i # at => at < i
  BY Kinds DEF SelectorInv, TypeOK
<1>4. \A i \in marked : i \in Fds /\ Registered(i) /\ at < i
  BY <1>1, <1>3 DEF SelectorInv, TypeOK, Marks, Sweeping
<1>5. Marks'
  BY <1>1, <1>2, <1>4 DEF Marks, Sweeping
<1>6. \A i \in Fds : at <= i /\ Silent(i) => phase' = "sweep" /\ at' <= i
  BY <1>1, <1>2, <1>3 DEF Silent
<1>. QED
  BY <1>1, <1>2, <1>5, <1>6, TurnInv DEF SweepPass, Sweeping, Phase, SelectorInv, TypeOK

LEMMA SelectInv == SelectorInv /\ Select => SelectorInv'
<1>. SUFFICES ASSUME SelectorInv, Select PROVE SelectorInv'
  OBVIOUS
<1>1. /\ phase = "select" /\ phase' \in { "test", "serve", "notify" } /\ at' \in Fds
      /\ marked' = marked
  BY FirstFd DEF Select, table
<1>2. Marks'
  BY <1>1 DEF Marks, Sweeping, SelectorInv
<1>. QED
  BY <1>1, <1>2, TurnInv DEF Select, Sweeping, Phase, SelectorInv, TypeOK

LEMMA ServePassInv == SelectorInv /\ ServePass => SelectorInv'
<1>. SUFFICES ASSUME SelectorInv, ServePass PROVE SelectorInv'
  OBVIOUS
<1>1. phase = "serve" /\ Onward /\ marked' = marked
  BY ServedOnward DEF ServePass, table
<1>2. Marks'
  BY <1>1, OnwardMarks DEF SelectorInv
<1>. QED
  BY <1>1, <1>2, TurnInv DEF ServePass, Sweeping, Onward, Phase, SelectorInv, TypeOK

LEMMA NotifyDoneInv == SelectorInv /\ NotifyDone => SelectorInv'
<1>. SUFFICES ASSUME SelectorInv, NotifyDone PROVE SelectorInv'
  OBVIOUS
<1>1. phase = "notify" /\ phase' = "test" /\ at' = at /\ marked' = marked
  BY DEF NotifyDone, table
<1>2. Marks'
  BY <1>1 DEF Marks, Sweeping
<1>. QED
  BY <1>1, <1>2, TurnInv DEF NotifyDone, Sweeping, Phase, SelectorInv, TypeOK

\* Neither the passage of time nor the signal touches what the invariant relates.
LEMMA TerminateInv == SelectorInv /\ Terminate => SelectorInv'
<1>. SUFFICES ASSUME SelectorInv, Terminate PROVE SelectorInv'
  OBVIOUS
<1>1. UNCHANGED << kernel, table, turn, socket, history >> /\ finished' \in BOOLEAN
  BY DEF Terminate
<1>. QED
  BY <1>1 DEF SelectorInv, table, turn, history, TypeOK, Entries, Marks, Pairs, Agreement,
              Exempt, Blame, Registered, Leg, Silent, Sweeping

LEMMA AgeInv ==
    ASSUME SelectorInv, NEW i \in Fds, Age(i)
    PROVE  SelectorInv'
<1>1. /\ UNCHANGED << kernel, item, partner, watched, ignored, marked, turn, socket,
                      finished, history >>
      /\ fresh' \subseteq fresh
  BY DEF Age
<1>2. TypeOK' /\ Pairs'
  BY <1>1 DEF SelectorInv, turn, history, TypeOK, Pairs, Registered, Leg, Silent, Sweeping
<1>. QED
  BY <1>1, <1>2 DEF SelectorInv, turn, history, Entries, Marks, Agreement, Exempt, Blame,
                    Registered, Sweeping

\* What the sweep takes from the table at the number it has come to.
LEMMA SweptInv ==
    ASSUME SelectorInv, phase = "sweep", Registered(at), ~Listener(at), Unregister({at}),
           phase' \in { "close", "close again" }, phase' = "close again" => quit,
           UNCHANGED << ignored, at, socket, finished, quit, stray >>,
           kernel' \in [Fds -> Kind \cup Threads \cup {Free}],
           robbed' \in BOOLEAN, split' \in BOOLEAN, split => split',
           ~split' => \A k \in Fds : partner[k] = at => at <= k /\ Silent(k)
    PROVE  TypeOK' /\ Entries' /\ Marks' /\ Pairs'
<1>. USE DEF SelectorInv
<1>1. /\ at \in Fds /\ at' = at
      /\ item \in [Fds -> Kind \cup {Unused}] /\ partner \in [Fds -> Fds \cup {NoFd}]
  BY DEF TypeOK
<1>2. \A i \in Fds : /\ item'[i] = IF i = at THEN Unused ELSE item[i]
                     /\ partner'[i] = IF i = at THEN NoFd ELSE partner[i]
  BY DEF Unregister
<1>3. /\ item' \in [Fds -> Kind \cup {Unused}] /\ partner' \in [Fds -> Fds \cup {NoFd}]
      /\ watched' = watched \ {at} /\ fresh' = fresh \ {at} /\ marked' = marked \ {at}
  BY <1>1 DEF Unregister, TypeOK
<1>4. TypeOK'
  BY <1>1, <1>2, <1>3 DEF TypeOK, Phase, Registered, Leg
<1>5. Entries'
  BY <1>1, <1>2, <1>3, Kinds DEF Entries, Registered, Listener, TypeOK
<1>6. Marks'
  BY <1>1, <1>3 DEF Marks, Sweeping
<1>7. \A i \in Fds : i # at => Leg(i)' = Leg(i) /\ Silent(i)' = Silent(i)
  BY <1>2, <1>3 DEF Leg, Silent, Registered
<1>8. ASSUME NEW i \in Fds, partner'[i] # NoFd
      PROVE  Leg(i)' /\ partner'[i] # i /\ ~Listener(partner'[i])
  BY <1>2, <1>7, <1>8 DEF Pairs
<1>9. ASSUME ~split', NEW i \in Fds, partner'[i] # NoFd
      PROVE  partner'[partner'[i]] = i \/ (Sweeping /\ at <= i /\ Silent(i))'
  <2>1. i # at /\ partner'[i] = partner[i] /\ partner[i] \in Fds /\ ~split
    BY <1>1, <1>2, <1>9
  <2>2. Sweeping'
    BY DEF Sweeping
  <2>3. CASE partner[i] = at
    BY <1>1, <1>7, <1>9, <2>1, <2>2, <2>3
  <2>4. CASE partner[i] # at
    BY <1>1, <1>2, <1>7, <1>9, <2>1, <2>2, <2>4 DEF Pairs
  <2>. QED
    BY <2>3, <2>4
<1>10. Pairs'
  BY <1>8, <1>9 DEF Pairs, Listener
<1>. QED
  BY <1>4, <1>5, <1>6, <1>10

LEMMA SweepMarkedInv == SelectorInv /\ SweepMarked => SelectorInv'
<1>. SUFFICES ASSUME SelectorInv, SweepMarked PROVE SelectorInv'
  OBVIOUS
<1>. USE DEF SelectorInv
<1>1. /\ phase = "sweep" /\ at \in marked /\ phase' = "close again" /\ Unregister({at})
      /\ UNCHANGED << ignored, at, socket, finished, quit, split, stray >>
      /\ at \in Fds /\ kernel \in [Fds -> Kind \cup Threads \cup {Free}]
      /\ item[at] = "monitor" /\ quit
  BY DEF SweepMarked, TypeOK, Entries
<1>2. /\ kernel' = [kernel EXCEPT ![at] = Free]
      /\ robbed' = (robbed \/ kernel[at] # Free)
  BY DEF SweepMarked, Close
<1>3. /\ \A i \in Fds : /\ item'[i] = IF i = at THEN Unused ELSE item[i]
                        /\ kernel'[i] = IF i = at THEN Free ELSE kernel[i]
      /\ marked' = marked \ {at}
  BY <1>1, <1>2 DEF Unregister
<1>4. TypeOK' /\ Entries' /\ Marks' /\ Pairs'
  <2>1. Registered(at) /\ ~Listener(at)
    BY <1>1, Kinds DEF Registered, Entries, Listener
  <2>2. \A k \in Fds : ~split /\ partner[k] = at => at <= k /\ Silent(k)
    <3>. SUFFICES ASSUME ~split, NEW k \in Fds, partner[k] = at
                  PROVE  at <= k /\ Silent(k)
      OBVIOUS
    <3>1. partner[k] # NoFd /\ k # NoFd /\ ~Leg(at)
      BY <1>1, Kinds DEF Leg
    <3>2. partner[at] # k
      BY <1>1, <3>1 DEF Pairs
    <3>. QED
      BY <3>1, <3>2 DEF Pairs
  <2>. QED
    BY <1>1, <1>2, <2>1, <2>2, SweptInv DEF TypeOK
<1>5. Agreement'
  <2>. SUFFICES ASSUME ~robbed' PROVE Agreement'
    BY DEF Agreement
  <2>1. ~robbed /\ kernel[at] = Free
    BY <1>2
  <2>2. \A t \in Threads : socket'[t] # NoFd => kernel'[socket'[t]] = t
    BY <1>1, <1>3, <2>1, Kinds DEF Agreement, TypeOK
  <2>. QED
    BY <1>1, <1>3, <2>1, <2>2, Kinds DEF Agreement, Registered
<1>6. Exempt'
  BY <1>1, <1>2, <1>3 DEF Exempt, TypeOK
<1>7. Blame'
  BY <1>1 DEF Blame
<1>. QED
  BY <1>4, <1>5, <1>6, <1>7

LEMMA SweepSilentInv == SelectorInv /\ SweepSilent => SelectorInv'
<1>. SUFFICES ASSUME SelectorInv, SweepSilent PROVE SelectorInv'
  OBVIOUS
<1>. USE DEF SelectorInv
<1>1. /\ phase = "sweep" /\ at \notin marked /\ Silent(at) /\ phase' = "close"
      /\ Unregister({at})
      /\ split' = (split \/ \E k \in Fds : partner[k] = at /\ (k < at \/ ~Silent(k)))
      /\ UNCHANGED << kernel, ignored, at, socket, finished, quit, robbed, stray >>
      /\ at \in Fds /\ item[at] \in Kind
  BY DEF SweepSilent, TypeOK, Silent, Registered
<1>2. /\ \A i \in Fds : item'[i] = IF i = at THEN Unused ELSE item[i]
      /\ marked' = marked \ {at}
  BY <1>1 DEF Unregister
<1>3. item[at] \in Socks
  BY <1>1, Kinds DEF Entries, Silent
<1>4. TypeOK' /\ Entries' /\ Marks' /\ Pairs'
  <2>1. Registered(at) /\ ~Listener(at)
    BY <1>1, <1>3, Kinds DEF Registered, Entries, Listener
  <2>2. ~split' => \A k \in Fds : partner[k] = at => at <= k /\ Silent(k)
    <3>. SUFFICES ASSUME ~split', NEW k \in Fds, partner[k] = at
                  PROVE  at <= k /\ Silent(k)
      OBVIOUS
    <3>1. ~(k < at) /\ Silent(k)
      BY <1>1
    <3>2. k \in Nat /\ at \in Nat
      BY <1>1, Kinds
    <3>. QED
      BY <3>1, <3>2
  <2>3. split' \in BOOLEAN /\ (split => split')
    BY <1>1 DEF TypeOK
  <2>. QED
    BY <1>1, <2>1, <2>2, <2>3, SweptInv DEF TypeOK
<1>5. Agreement'
  BY <1>1, <1>2, <1>3, Kinds DEF Agreement, Registered, Silent
<1>6. Exempt'
  BY <1>1, <1>2 DEF Exempt, TypeOK, Silent
<1>7. Blame'
  BY <1>1 DEF Blame
<1>. QED
  BY <1>4, <1>5, <1>6, <1>7

LEMMA SweepCloseInv == SelectorInv /\ SweepClose => SelectorInv'
<1>. SUFFICES ASSUME SelectorInv, SweepClose PROVE SelectorInv'
  OBVIOUS
<1>. USE DEF SelectorInv
<1>1. /\ phase \in { "close", "close again" }
      /\ UNCHANGED << table, socket, finished, quit, split, stray >>
      /\ at \in Fds /\ kernel \in [Fds -> Kind \cup Threads \cup {Free}]
      /\ item[at] = Unused
  BY DEF SweepClose, TypeOK, Entries, Registered
<1>2. /\ kernel' = [kernel EXCEPT ![at] = Free]
      /\ robbed' = (robbed \/ kernel[at] \notin
                      (IF phase = "close" THEN Socks ELSE {}) \cup {Free})
  BY DEF SweepClose, Close
<1>3. /\ at' \in Fds
      /\ \/ phase' = "sweep" /\ \A i \in Fds : at < i /\ Registered(i) => at' <= i
         \/ phase' = "select" /\ \A i \in Fds : at < i => ~Registered(i)
  BY <1>1, AdvanceTo DEF SweepClose, Registered, table
<1>4. \A i \in Fds : at <= i /\ Registered(i) => at < i
  <2>. TAKE i \in Fds
  <2>1. i \in Nat /\ at \in Nat
    BY <1>1, Kinds
  <2>2. Registered(i) => i # at
    BY <1>1 DEF Registered
  <2>. QED
    BY <2>1, <2>2
<1>5. \A i \in Fds : kernel'[i] = IF i = at THEN Free ELSE kernel[i]
  BY <1>1, <1>2
<1>6. TypeOK'
  BY <1>1, <1>2, <1>3 DEF TypeOK, Phase, Registered, Leg, table
<1>7. Entries'
  BY <1>1, <1>3 DEF Entries, Registered, table
<1>8. Marks'
  BY <1>1, <1>3, <1>4 DEF Marks, Sweeping, TypeOK, table
<1>9. \A i \in Fds : at <= i /\ Silent(i) => phase' = "sweep" /\ at' <= i
  BY <1>3, <1>4 DEF Silent
<1>10. Pairs'
  BY <1>1, <1>9 DEF Pairs, Leg, Silent, Registered, Sweeping, table, Listener
<1>11. Agreement'
  <2>. SUFFICES ASSUME ~robbed' PROVE Agreement'
    BY DEF Agreement
  <2>1. ~robbed /\ kernel[at] \in Socks \cup {Free}
    BY <1>2
  <2>2. \A t \in Threads : socket'[t] # NoFd => kernel'[socket'[t]] = t
    BY <1>1, <1>5, <2>1, Kinds, ZenonT(60) DEF Agreement, TypeOK
  <2>3. \A i \in Fds : /\ Registered(i)' /\ i \notin marked' => kernel'[i] = item'[i]
                       /\ kernel'[i] \in Kind => item'[i] = kernel'[i]
    BY <1>1, <1>5, <2>1, Kinds DEF Agreement, Registered, table
  <2>. QED
    BY <1>3, <2>2, <2>3 DEF Agreement
<1>12. Exempt'
  BY <1>1, <1>2 DEF Exempt, table
<1>13. Blame'
  BY <1>1, <1>2 DEF Blame, Agreement, Entries
<1>. QED
  BY <1>6, <1>7, <1>8, <1>10, <1>11, <1>12, <1>13

-----------------------------------------------------------------------------
(***************************************************************************)
(* The threads, and the end.                                               *)
(***************************************************************************)
LEMMA ThreadOpensInv ==
    ASSUME SelectorInv, NEW t \in Threads, ThreadOpens(t)
    PROVE  SelectorInv'
<1>. USE DEF SelectorInv
<1>. DEFINE n == NewFd
<1>1. /\ n \in Fds /\ kernel[n] = Free
      /\ kernel' = [kernel EXCEPT ![n] = t] /\ socket' = [socket EXCEPT ![t] = n]
      /\ UNCHANGED << table, turn, finished, history >>
  BY NewFdIsFree DEF ThreadOpens
<1>. HIDE DEF n
<1>2. /\ \A i \in Fds : kernel'[i] = IF i = n THEN t ELSE kernel[i]
      /\ \A u \in Threads : socket'[u] = IF u = t THEN n ELSE socket[u]
      /\ kernel' \in [Fds -> Kind \cup Threads \cup {Free}]
      /\ socket' \in [Threads -> Fds \cup {NoFd}]
  BY <1>1 DEF TypeOK
<1>3. TypeOK' /\ Entries' /\ Marks' /\ Pairs'
  BY <1>1, <1>2 DEF TypeOK, Entries, Marks, Pairs, Sweeping, Silent, Registered, Leg,
                    table, turn, history, Listener
<1>4. Agreement'
  <2>. SUFFICES ASSUME ~robbed' PROVE Agreement'
    BY DEF Agreement
  <2>1. ~robbed
    BY <1>1 DEF history
  <2>2. \A u \in Threads : socket'[u] # NoFd => kernel'[socket'[u]] = u
    BY <1>1, <1>2, <2>1, Kinds DEF Agreement, TypeOK
  <2>3. \A i \in Fds :
          /\ Registered(i)' /\ i \notin marked' => kernel'[i] = item'[i]
          /\ kernel'[i] \in Kind => item'[i] = kernel'[i] \/ (phase' = "close" /\ at' = i)
    BY <1>1, <1>2, <2>1, Kinds DEF Agreement, Registered, TypeOK, table, turn
  <2>4. phase' = "close" => kernel'[at'] \in Socks
    BY <1>1, <1>2, <2>1, Kinds DEF Agreement, TypeOK, turn
  <2>. QED
    BY <2>2, <2>3, <2>4 DEF Agreement
<1>5. Exempt' /\ Blame'
  BY <1>1 DEF Exempt, Blame, table, turn, history
<1>. QED
  BY <1>3, <1>4, <1>5

LEMMA ThreadClosesInv ==
    ASSUME SelectorInv, NEW t \in Threads, ThreadCloses(t)
    PROVE  SelectorInv'
<1>. USE DEF SelectorInv
<1>. DEFINE n == socket[t]
<1>1. /\ n \in Fds
      /\ kernel' = [kernel EXCEPT ![n] = Free] /\ socket' = [socket EXCEPT ![t] = NoFd]
      /\ robbed' = (robbed \/ kernel[n] \notin {t} \cup {Free})
      /\ UNCHANGED << table, turn, finished, quit, split, stray >>
  BY DEF ThreadCloses, Close, TypeOK
<1>2. /\ \A i \in Fds : kernel'[i] = IF i = n THEN Free ELSE kernel[i]
      /\ \A u \in Threads : socket'[u] = IF u = t THEN NoFd ELSE socket[u]
      /\ kernel' \in [Fds -> Kind \cup Threads \cup {Free}]
      /\ socket' \in [Threads -> Fds \cup {NoFd}]
  BY <1>1 DEF TypeOK
<1>3. ~robbed => kernel[n] = t /\ ~robbed'
  BY <1>1, Kinds DEF Agreement, TypeOK
<1>4. TypeOK' /\ Entries' /\ Marks' /\ Pairs'
  BY <1>1, <1>2 DEF TypeOK, Entries, Marks, Pairs, Sweeping, Silent, Registered, Leg,
                    table, turn, Listener
<1>5. Agreement'
  <2>. SUFFICES ASSUME ~robbed' PROVE Agreement'
    BY DEF Agreement
  <2>1. ~robbed /\ kernel[n] = t
    BY <1>1, <1>3
  <2>2. \A u \in Threads : socket'[u] # NoFd => kernel'[socket'[u]] = u
    BY <1>1, <1>2, <2>1, Kinds DEF Agreement, TypeOK
  <2>3. \A i \in Fds :
          /\ Registered(i)' /\ i \notin marked' => kernel'[i] = item'[i]
          /\ kernel'[i] \in Kind => item'[i] = kernel'[i] \/ (phase' = "close" /\ at' = i)
    BY <1>1, <1>2, <2>1, Kinds DEF Agreement, Registered, TypeOK, table, turn
  <2>4. phase' = "close" => kernel'[at'] \in Socks
    BY <1>1, <1>2, <2>1, Kinds DEF Agreement, TypeOK, turn
  <2>. QED
    BY <2>2, <2>3, <2>4 DEF Agreement
<1>6. Exempt' /\ Blame'
  BY <1>1, <1>3 DEF Exempt, Blame, table, turn
<1>. QED
  BY <1>4, <1>5, <1>6

LEMMA GoneInv == SelectorInv /\ Gone => SelectorInv'
<1>. SUFFICES ASSUME SelectorInv, Gone PROVE SelectorInv'
  OBVIOUS
<1>. USE DEF SelectorInv
<1>1. /\ phase' = "stopped" /\ UNCHANGED << ignored, at, finished, history >>
      /\ kernel' = [i \in Fds |-> Free] /\ socket' = [t \in Threads |-> NoFd]
  BY DEF Gone
<1>2. \A i \in Fds : item'[i] = Unused /\ partner'[i] = NoFd
  BY DEF Gone, Unregister, Registered, Pairs, Leg, Socks, Unused
<1>3. marked' = {} /\ watched' = {} /\ fresh' = {}
  BY Kinds DEF Gone, Unregister, TypeOK, Registered, Leg
<1>4. TypeOK'
  BY <1>1, <1>3 DEF Gone, Unregister, TypeOK, Phase, history
<1>5. Entries' /\ Marks' /\ Pairs'
  <2>1. phase' \notin { "sweep", "close", "close again", "select", "serve" }
    BY <1>1
  <2>2. Entries'
    BY <1>1, <1>2, <1>3, <2>1, Kinds DEF Entries, Registered
  <2>3. Marks'
    BY <1>3, <2>1 DEF Marks, Sweeping
  <2>4. Pairs'
    BY <1>2 DEF Pairs
  <2>. QED
    BY <2>2, <2>3, <2>4
<1>6. Agreement' /\ Exempt' /\ Blame'
  BY <1>1, <1>2, Kinds DEF Agreement, Exempt, Blame, Registered, history
<1>. QED
  BY <1>4, <1>5, <1>6

-----------------------------------------------------------------------------
(***************************************************************************)
(* The listeners and the monitor sessions.                                 *)
(***************************************************************************)
\* A number that is free is not in the table, unless it waits for the sweep.
LEMMA FreeIsUnregistered ==
    ASSUME SelectorInv, ~robbed, NEW n \in Fds, kernel[n] = Free, n \notin marked
    PROVE  ~Registered(n)
  BY Kinds DEF SelectorInv, Agreement, Registered, TypeOK

LEMMA AcceptInv == SelectorInv /\ Accept => SelectorInv'
<1>. SUFFICES ASSUME SelectorInv, Accept PROVE SelectorInv'
  OBVIOUS
<1>. USE DEF SelectorInv
<1>. DEFINE n == NewFd
<1>1. /\ n \in Fds /\ kernel[n] = Free /\ item[n] = Unused /\ phase = "serve"
      /\ kernel' = [kernel EXCEPT ![n] = "client"]
      /\ item' = [item EXCEPT ![n] = "client"]
      /\ watched' = watched \cup {n} /\ fresh' = fresh \cup {n}
      /\ UNCHANGED << partner, ignored, marked, socket, finished, history >>
      /\ Onward
  BY NewFdIsFree, ServedOnward DEF Accept, Serving, Register, Registered, Socks
<1>. HIDE DEF n
<1>2. /\ kernel' \in [Fds -> Kind \cup Threads \cup {Free}]
      /\ item' \in [Fds -> Kind \cup {Unused}]
      /\ \A i \in Fds : /\ kernel'[i] = IF i = n THEN "client" ELSE kernel[i]
                        /\ item'[i] = IF i = n THEN "client" ELSE item[i]
  BY <1>1, Kinds DEF TypeOK
<1>3. n \notin marked /\ partner[n] = NoFd
  BY <1>1, Kinds DEF TypeOK, Registered, Pairs, Leg
<1>4. TypeOK'
  <2>1. \A i \in watched' \cup marked' : Registered(i)'
    BY <1>1, <1>2, Kinds DEF TypeOK, Registered
  <2>2. \A i \in fresh' : Leg(i)'
    BY <1>1, <1>2, Kinds DEF TypeOK, Leg
  <2>. QED
    BY <1>1, <1>2, <2>1, <2>2 DEF TypeOK, Onward, Phase, history
<1>5. Marks'
  BY <1>1, OnwardMarks
<1>6. Entries'
  <2>1. \A i \in Fds : item'[i] \in { "listener", "monitor" } => item'[i] = item[i]
    BY <1>2, Kinds
  <2>2. item'[SocksListener] = "listener" /\ item'[MonitorListener] = "listener"
    BY <1>1, <1>2, Kinds DEF Entries
  <2>3. \A i \in marked' : item'[i] = "monitor"
    BY <1>1, <1>2, <1>3 DEF Entries, TypeOK
  <2>. QED
    BY <1>1, <2>1, <2>2, <2>3 DEF Entries, Onward, history
<1>7. Pairs'
  BY <1>1, <1>2, <1>3, Kinds DEF Pairs, Leg, Listener, Sweeping, Onward, history
<1>8. Agreement'
  BY <1>1, <1>2, <1>3, Kinds DEF Agreement, Registered, Onward, history, TypeOK
<1>9. Exempt'
  BY <1>1, <1>2, Kinds DEF Exempt, history, TypeOK
<1>10. Blame'
  BY <1>1 DEF Blame, history
<1>. QED
  BY <1>4, <1>5, <1>6, <1>7, <1>8, <1>9, <1>10

\* The listener of the monitor is served before the numbers a QUIT can have freed.
LEMMA MonitorAcceptInv == SelectorInv /\ MonitorAccept => SelectorInv'
<1>. SUFFICES ASSUME SelectorInv, MonitorAccept PROVE SelectorInv'
  OBVIOUS
<1>. USE DEF SelectorInv
<1>. DEFINE n == NewFd
<1>1. /\ n \in Fds /\ kernel[n] = Free /\ phase = "serve" /\ at = MonitorListener
      /\ ignored' = ignored \cup {n}
      /\ UNCHANGED << partner, marked, socket, finished, quit, split, robbed >>
      /\ Onward
  BY NewFdIsFree, ServedOnward DEF MonitorAccept, Serving
<1>2. marked = {}
  <2>1. ASSUME NEW i \in marked PROVE FALSE
    <3>1. i \in Fds /\ i < MonitorListener /\ item[i] = "monitor"
      BY <1>1, <2>1 DEF Marks, TypeOK, Entries
    <3>2. ~Listener(i)
      BY <1>1, <3>1 DEF Entries, Listener
    <3>3. i \in Nat /\ MonitorListener \in Nat /\ MonitorListener < i
      BY <3>1, <3>2, Kinds
    <3>. QED
      BY <3>1, <3>3
  <2>. QED
    BY <2>1
<1>3. Marks'
  BY <1>1, OnwardMarks
<1>4. CASE stray' = stray \cup {n} /\ UNCHANGED << kernel, item, watched, fresh >>
  <2>1. TypeOK' /\ Entries' /\ Pairs'
    BY <1>1, <1>4 DEF TypeOK, Registered, Leg, Onward, Phase, Entries, Pairs, Sweeping,
                      Listener
  <2>2. Exempt'
    <3>1. ignored' \ stray' \subseteq ignored \ stray
      BY <1>1, <1>4
    <3>. QED
      BY <1>1, <1>4, <3>1 DEF Exempt
  <2>. QED
    BY <1>1, <1>3, <1>4, <2>1, <2>2 DEF Agreement, Blame, Registered, Onward
<1>5. CASE /\ ~Registered(n) /\ stray' = stray \ {n}
           /\ kernel' = [kernel EXCEPT ![n] = "monitor"] /\ Register(n, "monitor", {}, {})
  <2>1. /\ kernel' = [kernel EXCEPT ![n] = "monitor"]
        /\ item' = [item EXCEPT ![n] = "monitor"]
        /\ watched' = watched \cup {n} /\ fresh' = fresh /\ item[n] = Unused
    BY <1>5 DEF Register, Registered, Socks
  <2>. HIDE DEF n
  <2>2. /\ kernel' \in [Fds -> Kind \cup Threads \cup {Free}]
        /\ item' \in [Fds -> Kind \cup {Unused}]
        /\ \A i \in Fds : /\ kernel'[i] = IF i = n THEN "monitor" ELSE kernel[i]
                          /\ item'[i] = IF i = n THEN "monitor" ELSE item[i]
    BY <1>1, <2>1, Kinds DEF TypeOK
  <2>3. partner[n] = NoFd
    BY <1>1, <2>1, Kinds DEF Pairs, Leg
  <2>4. TypeOK'
    <3>1. \A i \in watched' \cup marked' : Registered(i)'
      BY <1>1, <1>2, <2>1, <2>2, Kinds DEF TypeOK, Registered
    <3>2. \A i \in fresh' : Leg(i)'
      BY <1>1, <2>1, <2>2, Kinds DEF TypeOK, Leg
    <3>. QED
      BY <1>1, <1>5, <2>1, <2>2, <3>1, <3>2 DEF TypeOK, Onward, Phase
  <2>5. Entries'
    <3>1. item'[SocksListener] = "listener" /\ item'[MonitorListener] = "listener"
      BY <1>1, <2>1, <2>2, Kinds DEF Entries
    <3>2. \A i \in Fds : item'[i] \in { "listener", "monitor" } => i \in ignored'
      BY <1>1, <1>2, <2>2 DEF Entries
    <3>. QED
      BY <1>1, <1>2, <3>1, <3>2 DEF Entries, Onward
  <2>6. Pairs'
    BY <1>1, <2>2, <2>3, Kinds DEF Pairs, Leg, Listener, Sweeping, Onward
  <2>7. Agreement'
    BY <1>1, <1>2, <2>1, <2>2, Kinds DEF Agreement, Registered, Onward, TypeOK
  <2>8. Exempt'
    <3>1. \A i \in ignored' \ stray' : i = n \/ i \in ignored \ stray
      BY <1>1, <1>5
    <3>. QED
      BY <1>1, <1>2, <2>2, <3>1, Kinds DEF Exempt, TypeOK
  <2>9. Blame'
    BY <1>1 DEF Blame
  <2>. QED
    BY <1>3, <2>4, <2>5, <2>6, <2>7, <2>8, <2>9
<1>. QED
  <2>1. \/ stray' = stray \cup {n} /\ UNCHANGED << kernel, item, watched, fresh >>
        \/ /\ ~Registered(n) /\ stray' = stray \ {n}
           /\ kernel' = [kernel EXCEPT ![n] = "monitor"] /\ Register(n, "monitor", {}, {})
    BY DEF MonitorAccept
  <2>. QED
    BY <1>4, <1>5, <2>1

LEMMA MonitorQuitInv == SelectorInv /\ MonitorQuit => SelectorInv'
<1>. SUFFICES ASSUME SelectorInv, MonitorQuit PROVE SelectorInv'
  OBVIOUS
<1>. USE DEF SelectorInv
<1>1. /\ at \in Fds /\ item[at] = "monitor" /\ at \notin marked /\ phase = "serve"
      /\ ignored' = ignored \ {at} /\ marked' = marked \cup {at} /\ quit'
      /\ quit' \in BOOLEAN /\ stray' = stray \ {at}
      /\ kernel' = [kernel EXCEPT ![at] = Free]
      /\ robbed' = (robbed \/ kernel[at] \notin {"monitor"} \cup {Free})
      /\ UNCHANGED << item, partner, watched, fresh, socket, finished, split >>
      /\ Onward
  BY ServedOnward DEF MonitorQuit, Serving, Close, TypeOK
<1>2. /\ kernel' \in [Fds -> Kind \cup Threads \cup {Free}]
      /\ \A i \in Fds : kernel'[i] = IF i = at THEN Free ELSE kernel[i]
  BY <1>1 DEF TypeOK
<1>3. Marks'
  BY <1>1, OnwardMarks
<1>4. TypeOK'
  BY <1>1, <1>2, Kinds, ZenonT(60) DEF TypeOK, Registered, Leg, Onward, Phase
<1>5. Entries'
  <2>1. phase' \notin { "stopped", "close", "close again" }
    BY <1>1 DEF Onward
  <2>2. item'[SocksListener] = "listener" /\ item'[MonitorListener] = "listener"
    BY <1>1 DEF Entries
  <2>3. \A i \in marked' : item'[i] = "monitor"
    BY <1>1 DEF Entries
  <2>4. \A i \in Fds : item'[i] \in { "listener", "monitor" } /\ i \notin marked'
                         => i \in ignored'
    BY <1>1 DEF Entries
  <2>. QED
    BY <1>1, <2>1, <2>2, <2>3, <2>4 DEF Entries
<1>6. Pairs'
  BY <1>1, Kinds DEF Pairs, Leg, Listener, Sweeping, Onward
<1>7. Agreement'
  <2>. SUFFICES ASSUME ~robbed' PROVE Agreement'
    BY DEF Agreement
  <2>1. ~robbed /\ kernel[at] \in { "monitor", Free }
    BY <1>1
  <2>2. \A t \in Threads : socket'[t] # NoFd => kernel'[socket'[t]] = t
    BY <1>1, <1>2, <2>1, Kinds DEF Agreement, TypeOK
  <2>3. \A i \in Fds : /\ Registered(i)' /\ i \notin marked' => kernel'[i] = item'[i]
                       /\ kernel'[i] \in Kind => item'[i] = kernel'[i]
    BY <1>1, <1>2, <2>1, Kinds DEF Agreement, Registered
  <2>. QED
    BY <1>1, <2>2, <2>3 DEF Agreement, Onward
<1>8. Exempt'
  BY <1>1, Kinds DEF Exempt, TypeOK
<1>9. Blame'
  BY <1>1 DEF Blame
<1>. QED
  BY <1>3, <1>4, <1>5, <1>6, <1>7, <1>8, <1>9

LEMMA MonitorFailsInv == SelectorInv /\ MonitorFails => SelectorInv'
<1>. SUFFICES ASSUME SelectorInv, MonitorFails PROVE SelectorInv'
  OBVIOUS
<1>. USE DEF SelectorInv
<1>1. /\ phase = "serve" /\ watched' \subseteq watched
      /\ UNCHANGED << kernel, item, partner, fresh, ignored, marked, socket, finished,
                      history >>
      /\ Onward
  BY ServedOnward DEF MonitorFails, Serving
<1>2. Marks'
  BY <1>1, OnwardMarks
<1>. QED
  BY <1>1, <1>2 DEF TypeOK, Registered, Leg, Onward, Phase, history, Entries, Pairs,
                    Sweeping, Listener, Agreement, Exempt, Blame

-----------------------------------------------------------------------------
(***************************************************************************)
(* The SOCKS connections.                                                  *)
(***************************************************************************)
LEMMA HandledLeg ==
    ASSUME TypeOK, NEW i \in Fds, InHandler(i)
    PROVE  Leg(i) /\ Registered(i) /\ phase \in { "serve", "notify" }
  BY Kinds DEF InHandler, ServesLeg, Resolved, Leg, Registered

\* Handlers that only set interests.
LEMMA InterestsInv ==
    ASSUME SelectorInv, Onward, fresh' \subseteq Fds, watched' \subseteq Fds,
           \A k \in watched' : Registered(k), \A k \in fresh' : Leg(k),
           UNCHANGED << kernel, item, partner, ignored, marked, socket, finished, history >>
    PROVE  SelectorInv'
<1>. USE DEF SelectorInv
<1>1. TypeOK'
  BY DEF TypeOK, Registered, Leg, Onward, Phase, history
<1>2. Marks'
  BY OnwardMarks
<1>3. Entries' /\ Pairs'
  <2>1. Entries'
    BY DEF Entries, Onward, Registered, history
  <2>2. Pairs'
    BY DEF Pairs, Onward, Sweeping, Leg, Listener, history
  <2>. QED
    BY <2>1, <2>2
<1>4. Agreement' /\ Exempt' /\ Blame'
  BY DEF Agreement, Exempt, Blame, Onward, Registered, history
<1>. QED
  BY <1>1, <1>2, <1>3, <1>4

LEMMA SocksWaitsInv ==
    ASSUME SelectorInv, NEW i \in Fds, SocksWaits(i)
    PROVE  SelectorInv'
<1>1. /\ InHandler(i) /\ Return /\ TypeOK
      /\ fresh' = fresh \cup {i} /\ watched' = watched \cup {i}
      /\ UNCHANGED << kernel, item, partner, ignored, marked, socket, finished, history >>
  BY DEF SocksWaits, SelectorInv
<1>2. Onward /\ Leg(i) /\ Registered(i)
  BY <1>1, ReturnsOnward, HandledLeg
<1>. QED
  BY <1>1, <1>2, InterestsInv DEF TypeOK

LEMMA SocksWakesInv ==
    ASSUME SelectorInv, NEW i \in Fds, SocksWakes(i)
    PROVE  SelectorInv'
<1>. DEFINE j == partner[i]
<1>1. /\ ServesLeg(i) /\ Return /\ TypeOK
      /\ j \in Fds /\ Registered(j)
      /\ fresh' = fresh \cup { k \in {i, j} : Leg(k) }
      /\ watched' \in { watched \cup {j}, (watched \ {i}) \cup {j} }
      /\ UNCHANGED << kernel, item, partner, ignored, marked, socket, finished, history >>
  BY DEF SocksWakes, SelectorInv, TypeOK
<1>2. Onward
  BY <1>1, ReturnsOnward DEF InHandler
<1>. QED
  BY <1>1, <1>2, InterestsInv DEF TypeOK

LEMMA SocksConnectsInv ==
    ASSUME SelectorInv, NEW i \in Fds, SocksConnects(i)
    PROVE  SelectorInv'
<1>. USE DEF SelectorInv
<1>. DEFINE n == NewFd
<1>1. /\ n \in Fds /\ kernel[n] = Free /\ item[n] = Unused /\ InHandler(i) /\ Return
      /\ item[i] = "client" /\ partner[i] = NoFd
      /\ kernel' = [kernel EXCEPT ![n] = "origin"]
      /\ partner' = [partner EXCEPT ![i] = n, ![n] = i]
      /\ item' = [item EXCEPT ![n] = "origin"]
      /\ watched' = (watched \ {i}) \cup {n}
      /\ fresh' = fresh \cup Stamped(i) \cup {n}
      /\ UNCHANGED << ignored, marked, socket, finished, history >>
  BY NewFdIsFree DEF SocksConnects, Register, Registered, Socks
<1>2. Onward /\ n # i
  BY <1>1, ReturnsOnward, Kinds
<1>. HIDE DEF n
<1>3. /\ kernel' \in [Fds -> Kind \cup Threads \cup {Free}]
      /\ item' \in [Fds -> Kind \cup {Unused}]
      /\ partner' \in [Fds -> Fds \cup {NoFd}]
      /\ \A k \in Fds :
           /\ kernel'[k] = IF k = n THEN "origin" ELSE kernel[k]
           /\ item'[k] = IF k = n THEN "origin" ELSE item[k]
           /\ partner'[k] = IF k = n THEN i ELSE IF k = i THEN n ELSE partner[k]
  BY <1>1, Kinds DEF TypeOK
<1>4. n \notin marked /\ partner[n] = NoFd
  BY <1>1, Kinds DEF TypeOK, Registered, Pairs, Leg
<1>5. ~Listener(n) /\ ~Listener(i)
  BY <1>1, <1>2, Kinds DEF Entries, Listener, Onward
<1>6. TypeOK'
  <2>1. \A k \in watched' \cup marked' : Registered(k)'
    BY <1>1, <1>3, Kinds DEF TypeOK, Registered
  <2>2. Stamped(i) \subseteq {i} /\ \A k \in fresh' : Leg(k)'
    BY <1>1, <1>3, Kinds DEF TypeOK, Leg, Stamped
  <2>. QED
    BY <1>1, <1>2, <1>3, <2>1, <2>2 DEF TypeOK, Onward, Phase, history
<1>7. Marks'
  BY <1>1, <1>2, OnwardMarks
<1>8. Entries'
  <2>1. \A k \in Fds : item'[k] \in { "listener", "monitor" } => item'[k] = item[k]
    BY <1>3, Kinds
  <2>2. item'[SocksListener] = "listener" /\ item'[MonitorListener] = "listener"
    <3>1. item[SocksListener] = "listener" /\ item[MonitorListener] = "listener"
      BY <1>2 DEF Entries, Onward
    <3>. QED
      BY <1>3, <1>5, <3>1, Kinds DEF Listener
  <2>3. \A k \in marked' : item'[k] = "monitor"
    BY <1>1, <1>3, <1>4 DEF Entries, TypeOK
  <2>. QED
    BY <1>1, <1>2, <2>1, <2>2, <2>3 DEF Entries, Onward, history
<1>9. Pairs'
  <2>1. ASSUME NEW k \in Fds, partner'[k] # NoFd
        PROVE  Leg(k)' /\ partner'[k] # k /\ ~Listener(partner'[k])
    BY <1>1, <1>2, <1>3, <1>5, <2>1, Kinds DEF Pairs, Leg
  <2>2. ASSUME ~split, NEW k \in Fds, partner'[k] # NoFd
        PROVE  partner'[partner'[k]] = k
    <3>1. CASE k \in {i, n}
      BY <1>1, <1>2, <1>3, <3>1
    <3>2. CASE k \notin {i, n}
      <4>0. partner'[k] = partner[k] /\ partner[k] # NoFd
        BY <1>3, <2>2, <3>2
      <4>1. partner[k] \in Fds /\ partner[partner[k]] = k
        BY <1>2, <2>2, <4>0 DEF Pairs, Onward, Sweeping, TypeOK
      <4>2. partner[k] \notin {i, n} /\ k # NoFd
        BY <1>1, <1>4, <4>1, Kinds
      <4>. QED
        BY <1>3, <4>0, <4>1, <4>2
    <3>. QED
      BY <3>1, <3>2
  <2>. QED
    BY <1>1, <2>1, <2>2 DEF Pairs, Listener, history
<1>10. Agreement'
  BY <1>1, <1>2, <1>3, <1>4, Kinds DEF Agreement, Registered, Onward, history, TypeOK
<1>11. Exempt'
  BY <1>1, <1>2, <1>3, Kinds DEF Exempt, Onward, history, TypeOK
<1>12. Blame'
  BY <1>1 DEF Blame, history
<1>. QED
  BY <1>6, <1>7, <1>8, <1>9, <1>10, <1>11, <1>12

\* The number of a failed attempt is free again, and the next one gets the lowest.
LEMMA SocksRetriesInv ==
    ASSUME SelectorInv, NEW i \in Fds, SocksRetries(i)
    PROVE  SelectorInv'
<1>. USE DEF SelectorInv
<1>. DEFINE c == partner[i]
            n == Min(FreeFds \cup {i})
<1>1. /\ ServesLeg(i) /\ item[i] = "origin" /\ kernel[i] = "origin"
      /\ c # NoFd /\ partner[c] = i
      /\ UNCHANGED << ignored, marked, socket, finished, history >>
      /\ Return
  BY DEF SocksRetries
<1>2. Onward /\ i # NoFd
  BY <1>1, ReturnsOnward, Kinds DEF InHandler
<1>3. c \in Fds /\ c # i /\ item[c] \in Socks /\ i \notin marked
  <2>1. c \in Fds
    BY <1>1 DEF TypeOK
  <2>2. Leg(c) /\ c # i
    BY <1>1, <1>2, <2>1 DEF Pairs
  <2>3. i \notin marked
    BY <1>1, Kinds DEF Entries
  <2>. QED
    BY <2>1, <2>2, <2>3 DEF Leg
<1>4. n \in Fds /\ (n = i \/ kernel[n] = Free)
  <2>1. FreeFds \cup {i} \in SUBSET Fds
    BY DEF FreeFds
  <2>2. n \in FreeFds \cup {i}
    BY <2>1, MinOf
  <2>. QED
    BY <2>2 DEF FreeFds
<1>. HIDE DEF c, n
\* In both cases new is the number of the next attempt, and in the first there is none.
<1>5. PICK new \in Fds \cup {NoFd} :
        /\ new \in {NoFd, i} \/ (kernel[new] = Free /\ item[new] = Unused)
        /\ \A k \in Fds :
             /\ kernel'[k] = IF k = new THEN "origin" ELSE IF k = i THEN Free ELSE kernel[k]
             /\ item'[k] = IF k = new THEN "origin" ELSE IF k = i THEN Unused ELSE item[k]
             /\ partner'[k] = IF k = c THEN new ELSE IF k = new THEN c
                              ELSE IF k = i THEN NoFd ELSE partner[k]
        /\ kernel' \in [Fds -> Kind \cup Threads \cup {Free}]
        /\ item' \in [Fds -> Kind \cup {Unused}]
        /\ partner' \in [Fds -> Fds \cup {NoFd}]
        /\ watched' = (watched \ {i}) \cup ({new} \ {NoFd})
        /\ fresh' = (fresh \ {i}) \cup ({new} \ {NoFd})
  <2>0. "origin" \in Kind /\ NoFd \notin Fds
    BY Kinds
  <2>1. CASE /\ kernel' = [kernel EXCEPT ![i] = Free]
             /\ item' = [item EXCEPT ![i] = Unused]
             /\ partner' = [partner EXCEPT ![i] = NoFd, ![c] = NoFd]
             /\ watched' = watched \ {i}
             /\ fresh' = fresh \ {i}
    <3>1. \A k \in Fds :
             /\ kernel'[k] = IF k = i THEN Free ELSE kernel[k]
             /\ item'[k] = IF k = i THEN Unused ELSE item[k]
             /\ partner'[k] = IF k \in {i, c} THEN NoFd ELSE partner[k]
      BY <1>3, <2>1 DEF TypeOK
    <3>2. /\ kernel' \in [Fds -> Kind \cup Threads \cup {Free}]
          /\ item' \in [Fds -> Kind \cup {Unused}]
          /\ partner' \in [Fds -> Fds \cup {NoFd}]
      BY <2>1 DEF TypeOK
    <3>. QED
      BY <1>3, <2>0, <2>1, <3>1, <3>2
  <2>2. CASE /\ n = i \/ ~Registered(n)
             /\ kernel' = [kernel EXCEPT ![i] = Free, ![n] = "origin"]
             /\ item' = [item EXCEPT ![i] = Unused, ![n] = "origin"]
             /\ partner' = [partner EXCEPT ![i] = NoFd, ![n] = c, ![c] = n]
             /\ watched' = (watched \ {i}) \cup {n}
             /\ fresh' = (fresh \ {i}) \cup {n}
    <3>1. n # c
      BY <1>3, <2>2, Kinds DEF Registered
    <3>2. \A k \in Fds :
             /\ kernel'[k] = IF k = n THEN "origin" ELSE IF k = i THEN Free ELSE kernel[k]
             /\ item'[k] = IF k = n THEN "origin" ELSE IF k = i THEN Unused ELSE item[k]
             /\ partner'[k] = IF k = c THEN n ELSE IF k = n THEN c
                              ELSE IF k = i THEN NoFd ELSE partner[k]
      BY <1>3, <1>4, <2>2, <3>1 DEF TypeOK
    <3>3. /\ kernel' \in [Fds -> Kind \cup Threads \cup {Free}]
          /\ item' \in [Fds -> Kind \cup {Unused}]
          /\ partner' \in [Fds -> Fds \cup {NoFd}]
      BY <1>3, <1>4, <2>0, <2>2 DEF TypeOK
    <3>4. n \in {NoFd, i} \/ (kernel[n] = Free /\ item[n] = Unused)
      BY <1>4, <2>2 DEF Registered
    <3>5. {n} \ {NoFd} = {n}
      BY <1>4, <2>0
    <3>. QED
      BY <1>4, <2>2, <3>2, <3>3, <3>4, <3>5
  <2>. QED
    BY <2>1, <2>2 DEF SocksRetries, c, n
<1>6. new # c /\ new \notin marked /\ ~Listener(new) /\ ~Listener(i) /\ ~Listener(c)
  <2>1. \A k \in Fds : item[k] = "origin" \/ item[k] = "client" \/ item[k] = Unused
           => ~Listener(k) /\ k \notin marked
    BY <1>2, Kinds DEF Entries, Onward, Listener
  <2>2. new \in Fds => item[new] = "origin" \/ item[new] = Unused
    BY <1>1, <1>5, Kinds
  <2>3. NoFd \notin marked /\ ~Listener(NoFd)
    BY Kinds DEF TypeOK, Listener
  <2>4. new # c
    BY <1>3, <1>5, Kinds
  <2>. QED
    BY <1>1, <1>3, <1>5, <2>1, <2>2, <2>3, <2>4, Kinds
<1>7. new \notin {NoFd, i} => partner[new] = NoFd
  BY <1>5, Kinds DEF Pairs, Leg
<1>8. TypeOK'
  <2>1. \A k \in watched' \cup marked' : Registered(k)'
    BY <1>1, <1>3, <1>5, Kinds DEF TypeOK, Registered
  <2>2. \A k \in fresh' : Leg(k)'
    BY <1>3, <1>5, Kinds DEF TypeOK, Leg
  <2>. QED
    BY <1>1, <1>2, <1>5, <2>1, <2>2 DEF TypeOK, Onward, Phase, history
<1>9. Marks'
  BY <1>1, <1>2, OnwardMarks
<1>10. Entries'
  <2>1. \A k \in Fds : item'[k] \in { "listener", "monitor" } => item'[k] = item[k]
    BY <1>5, Kinds
  <2>2. item'[SocksListener] = "listener" /\ item'[MonitorListener] = "listener"
    <3>1. item[SocksListener] = "listener" /\ item[MonitorListener] = "listener"
      BY <1>2 DEF Entries, Onward
    <3>. QED
      BY <1>5, <1>6, <3>1, Kinds DEF Listener
  <2>3. \A k \in marked' : item'[k] = "monitor"
    <3>1. \A k \in marked : k \in Fds /\ k # i /\ k # new /\ item[k] = "monitor"
      BY <1>3, <1>6 DEF Entries, TypeOK
    <3>. QED
      BY <1>1, <1>5, <3>1
  <2>. QED
    BY <1>1, <1>2, <2>1, <2>2, <2>3 DEF Entries, Onward, history
<1>11. Pairs'
  <2>1. ASSUME NEW k \in Fds, partner'[k] # NoFd
        PROVE  Leg(k)' /\ partner'[k] # k /\ ~Listener(partner'[k])
    BY <1>3, <1>5, <1>6, <2>1, Kinds DEF Pairs, Leg
  <2>2. ASSUME ~split, NEW k \in Fds, partner'[k] # NoFd
        PROVE  partner'[partner'[k]] = k
    <3>1. CASE k \in {c, new}
      BY <1>3, <1>5, <1>6, <2>2, <3>1
    <3>2. CASE k \notin {c, new}
      <4>1. k # i /\ partner'[k] = partner[k] /\ partner[k] \in Fds
        BY <1>5, <2>2, <3>2
      <4>2. partner[partner[k]] = k
        BY <1>2, <2>2, <4>1 DEF Pairs, Onward, Sweeping
      <4>3. partner[k] \notin {c, i, new} /\ k # NoFd
        BY <1>1, <1>7, <2>2, <3>2, <4>1, <4>2, Kinds DEF c
      <4>. QED
        BY <1>5, <4>1, <4>2, <4>3
    <3>. QED
      BY <3>1, <3>2
  <2>. QED
    BY <1>1, <2>1, <2>2 DEF Pairs, Listener, history
<1>12. Agreement'
  <2>. SUFFICES ASSUME ~robbed' PROVE Agreement'
    BY DEF Agreement
  <2>1. ~robbed
    BY <1>1 DEF history
  <2>2. \A t \in Threads : socket'[t] # NoFd => kernel'[socket'[t]] = t
    <3>. SUFFICES ASSUME NEW t \in Threads, socket[t] # NoFd
                  PROVE  kernel'[socket[t]] = t
      BY <1>1
    <3>1. socket[t] \in Fds /\ kernel[socket[t]] = t
      BY <2>1 DEF Agreement, TypeOK
    <3>2. socket[t] # i /\ socket[t] # new
      BY <1>1, <1>5, <3>1, Kinds
    <3>. QED
      BY <1>5, <3>1, <3>2
  <2>3. \A k \in Fds : /\ Registered(k)' /\ k \notin marked' => kernel'[k] = item'[k]
                       /\ kernel'[k] \in Kind => item'[k] = kernel'[k]
    BY <1>1, <1>2, <1>5, <2>1, Kinds DEF Agreement, Registered, Onward
  <2>. QED
    BY <1>2, <2>2, <2>3 DEF Agreement, Onward
<1>13. Exempt'
  BY <1>1, <1>2, <1>5, Kinds DEF Exempt, Onward, history, TypeOK
<1>14. Blame'
  BY <1>1 DEF Blame, history
<1>. QED
  BY <1>8, <1>9, <1>10, <1>11, <1>12, <1>13, <1>14

\* A connection that names its own descriptors only can end without harm.
LEMMA SocksEndsInv ==
    ASSUME SelectorInv, NEW i \in Fds, SocksEnds(i)
    PROVE  SelectorInv'
<1>. USE DEF SelectorInv
<1>. DEFINE N == Named(i)
<1>1. /\ InHandler(i) /\ Return /\ Unregister(N)
      /\ \A k \in N : Registered(k)
      /\ kernel' = [k \in Fds |-> IF k \in N THEN Free ELSE kernel[k]]
      /\ robbed' = (robbed \/ \E k \in N :
                       kernel[k] # Free /\ (k \notin Own(i) \/ kernel[k] # item[k]))
      /\ UNCHANGED << ignored, socket, finished, quit, split, stray >>
  BY DEF SocksEnds
<1>2. Onward /\ Leg(i)
  BY <1>1, ReturnsOnward, HandledLeg
<1>3. N \subseteq Fds /\ i \in N /\ \A k \in N : k = i \/ k = partner[i]
  BY Kinds DEF Named, TypeOK
<1>4. \A k \in N : ~Listener(k)
  BY <1>2, <1>3, Kinds DEF Pairs, Leg, Entries, Listener, Onward, Named
<1>5. /\ item' = [k \in Fds |-> IF k \in N THEN Unused ELSE item[k]]
      /\ partner' = [k \in Fds |-> IF k \in N THEN NoFd ELSE partner[k]]
      /\ watched' = watched \ N /\ fresh' = fresh \ N /\ marked' = marked \ N
  BY <1>1 DEF Unregister
<1>. HIDE DEF N
<1>6. TypeOK'
  <2>1. \A k \in watched' \cup marked' : Registered(k)'
    BY <1>5 DEF TypeOK, Registered
  <2>2. \A k \in fresh' : Leg(k)'
    BY <1>5 DEF TypeOK, Leg
  <2>3. robbed' \in BOOLEAN
    BY <1>1
  <2>4. /\ kernel' \in [Fds -> Kind \cup Threads \cup {Free}]
        /\ item' \in [Fds -> Kind \cup {Unused}]
        /\ partner' \in [Fds -> Fds \cup {NoFd}]
    BY <1>1, <1>5 DEF TypeOK
  <2>. QED
    BY <1>1, <1>2, <1>5, <2>1, <2>2, <2>3, <2>4 DEF TypeOK, Onward, Phase
<1>7. Marks'
  BY <1>2, <1>5, OnwardMarks
<1>8. Entries'
  <2>1. \A k \in Fds : item'[k] \in { "listener", "monitor" } =>
                          item'[k] = item[k] /\ (k \notin marked' => k \notin marked)
    BY <1>5, Kinds
  <2>2. item'[SocksListener] = "listener" /\ item'[MonitorListener] = "listener"
    BY <1>2, <1>4, <1>5, Kinds DEF Entries, Onward, Listener
  <2>. QED
    BY <1>1, <1>2, <1>5, <2>1, <2>2 DEF Entries, Onward, TypeOK
<1>9. Pairs'
  <2>1. ASSUME NEW k \in Fds, partner'[k] # NoFd
        PROVE  Leg(k)' /\ partner'[k] # k /\ ~Listener(partner'[k])
    BY <1>5, <2>1 DEF Pairs, Leg
  <2>2. ASSUME ~split, NEW k \in Fds, partner'[k] # NoFd
        PROVE  partner'[partner'[k]] = k
    <3>1. k \notin N /\ partner'[k] = partner[k] /\ partner[k] \in Fds
      BY <1>5, <2>2 DEF TypeOK
    <3>2. partner[partner[k]] = k /\ k # NoFd
      BY <1>2, <2>2, <3>1, Kinds DEF Pairs, Onward, Sweeping
    <3>3. partner[i] # NoFd => partner[partner[i]] = i
      BY <1>2, <2>2 DEF Pairs, Onward, Sweeping
    <3>4. partner[k] \notin N
      <4>1. partner[k] = i => k \in N
        BY <3>2 DEF N, Named
      <4>2. partner[k] = partner[i] => k = i
        BY <3>1, <3>2, <3>3, Kinds
      <4>. QED
        BY <1>3, <3>1, <4>1, <4>2
    <3>. QED
      BY <1>5, <3>1, <3>2, <3>4
  <2>. QED
    BY <1>1, <2>1, <2>2 DEF Pairs, Listener
<1>10. Agreement'
  <2>. SUFFICES ASSUME ~robbed' PROVE Agreement'
    BY DEF Agreement
  <2>1. ~robbed /\ \A k \in N : kernel[k] = Free \/ kernel[k] = item[k]
    BY <1>1
  <2>2. \A k \in N : kernel[k] \notin Threads
    BY <1>1, <1>3, <2>1, Kinds DEF TypeOK, Registered
  <2>3. \A t \in Threads : socket'[t] # NoFd => kernel'[socket'[t]] = t
    BY <1>1, <2>1, <2>2, Kinds DEF Agreement, TypeOK
  <2>4. \A k \in Fds : /\ Registered(k)' /\ k \notin marked' => kernel'[k] = item'[k]
                       /\ kernel'[k] \in Kind => item'[k] = kernel'[k]
    BY <1>1, <1>2, <1>5, <2>1, Kinds DEF Agreement, Registered, Onward
  <2>. QED
    BY <1>2, <2>3, <2>4 DEF Agreement, Onward
<1>11. Exempt'
  <2>. SUFFICES ASSUME ~robbed', NEW k \in ignored' \ stray'
                PROVE  item'[k] \in { "listener", "monitor" } /\ k \notin marked'
    BY DEF Exempt
  <2>1. k \in Fds /\ item[k] \in { "listener", "monitor" } /\ k \notin marked /\ ~robbed
    BY <1>1, <1>2 DEF Exempt, TypeOK, Onward
  <2>2. kernel[k] = item[k] /\ kernel[k] # Free /\ k \notin Own(i)
    BY <1>2, <2>1, Kinds DEF Agreement, Registered, Leg, Own, Pairs
  <2>3. k \notin N
    BY <1>1, <2>1, <2>2
  <2>. QED
    BY <1>5, <2>1, <2>3
<1>12. Blame'
  <2>. SUFFICES ASSUME ~robbed, ~quit, ~split PROVE ~robbed'
    BY <1>1 DEF Blame
  <2>1. \A k \in N : kernel[k] = item[k]
    BY <1>1, <1>3 DEF Agreement, Entries
  <2>2. \A k \in N : k \in Own(i)
    BY <1>2, <1>3, Kinds DEF N, Own, Named, Pairs, Onward, Sweeping
  <2>. QED
    BY <1>1, <2>1, <2>2
<1>. QED
  BY <1>6, <1>7, <1>8, <1>9, <1>10, <1>11, <1>12

-----------------------------------------------------------------------------
(***************************************************************************)
(* Every step, and the theorems.                                           *)
(***************************************************************************)
LEMMA NextInv == SelectorInv /\ [Next]_vars => SelectorInv'
<1>. SUFFICES ASSUME SelectorInv, [Next]_vars PROVE SelectorInv'
  OBVIOUS
<1>1. CASE UNCHANGED vars
  BY <1>1 DEF vars, SelectorInv, table, turn, history, TypeOK, Entries, Marks, Pairs,
              Agreement, Exempt, Blame, Registered, Leg, Silent, Sweeping, Listener
<1>2. CASE Main
  <2>1. CASE SocksHandler
    <3>1. PICK i \in Fds : \/ SocksWaits(i) \/ SocksWakes(i) \/ SocksConnects(i)
                           \/ SocksRetries(i) \/ SocksEnds(i) \/ SocksAborts(i)
      BY <2>1 DEF SocksHandler
    <3>2. CASE SocksAborts(i)
      BY <3>2, GoneInv DEF SocksAborts
    <3>. QED
      BY <3>1, <3>2, SocksWaitsInv, SocksWakesInv, SocksConnectsInv, SocksRetriesInv,
         SocksEndsInv
  <2>2. CASE Stop
    BY <2>2, GoneInv DEF Stop
  <2>. QED
    BY <1>2, <2>1, <2>2, TestInv, SweepMarkedInv, SweepSilentInv, SweepPassInv,
       SweepCloseInv, SelectInv, ServePassInv, AcceptInv, MonitorAcceptInv, MonitorQuitInv,
       MonitorFailsInv, NotifyDoneInv DEF Main
<1>. QED
  BY <1>1, <1>2, TerminateInv, AgeInv, ThreadOpensInv, ThreadClosesInv DEF Next, Stopped

LEMMA Invariance == Spec => []SelectorInv
  BY InitInv, NextInv, PTL DEF Spec

\* Types, for every set of numbers and any number of threads: no mark, interest or
\* time of selector.c is that of a number that is not registered.
THEOREM SelectorTypeOK == Spec => []TypeOK
<1>1. SelectorInv => TypeOK
  BY DEF SelectorInv
<1>. QED
  BY <1>1, Invariance, PTL

\* With any number of descriptors, of resolver threads and of monitor sessions, only a
\* QUIT (whose mark makes the sweep close the number a second time) or a connection of
\* which the sweep has dropped one leg makes a close() hit somebody else's number, and
\* until then the table of selector.c and the kernel agree.
THEOREM OwnersKeepTheirDescriptors == Spec => []DescriptorsStayWithTheirOwners
<1>1. SelectorInv => DescriptorsStayWithTheirOwners
  BY DEF SelectorInv, Agreement, Blame, DescriptorsStayWithTheirOwners
<1>. QED
  BY <1>1, Invariance, PTL

\* As long as the numbers are not mixed up, a SOCKS connection inherits an exemption only
\* with a number that monitor_accept_connection has put in ignored_fds and given up: the
\* exemption of every session that came to be is cleared before its number is free.
THEOREM OtherExemptionsAreNotInherited == Spec => []ExemptionsLeakOnlyByFailedAccepts
<1>1. SelectorInv => ExemptionsLeakOnlyByFailedAccepts
  <2>. SUFFICES ASSUME SelectorInv, ~robbed, NEW i \in ignored, Leg(i), i \notin stray
                PROVE  FALSE
    BY DEF ExemptionsLeakOnlyByFailedAccepts
  <2>1. CASE phase # "stopped"
    BY <2>1, Kinds DEF SelectorInv, Exempt, Leg
  <2>2. CASE phase = "stopped"
    BY <2>2, Kinds DEF SelectorInv, Entries, Registered, Leg, TypeOK
  <2>. QED
    BY <2>1, <2>2
<1>. QED
  BY <1>1, Invariance, PTL
=============================================================================
