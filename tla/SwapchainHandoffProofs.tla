----------------------- MODULE SwapchainHandoffProofs -----------------------
(* That no pointer to a deleted swapchain is followed, in chains of any     *)
(* length with any number of images and failures, when the application      *)
(* makes its calls one after another; and that a new swapchain's images     *)
(* come after the old one's, also when it does not.                         *)
EXTENDS SwapchainHandoff, TLAPS

(* A step keeps the state well formed. *)
LEMMA TypeStep == TypeOK /\ [Next]_vars => TypeOK'
<1> SUFFICES ASSUME TypeOK, [Next]_vars PROVE TypeOK'
  OBVIOUS
<1> USE DEF TypeOK, Null, Flips, Calls, imageVars, linkVars, startVars, waitVars, threadVars, historyVars
<1>1. CASE UNCHANGED vars
  BY <1>1 DEF vars
<1>2. CASE Next
  <2> PICK s \in Chain : \/ Create(s) \/ Acquire(s) \/ Present(s) \/ PresentLate(s)
                         \/ Destroy(s) \/ DestroyRuns(s) \/ FlipThread(s)
    BY <1>2 DEF Next
  <2>0. Null \notin Chain
    BY DEF Chain
  <2>1. CASE Create(s)
    <3>1. s - 1 \in Chain
      BY <2>1, HandoffAssumption DEF Create, Chain
    <3> QED
      BY <2>1, <3>1 DEF Create
  <2>2. CASE Acquire(s)
    BY <2>2 DEF Acquire
  <2>3. CASE Present(s)
    BY <2>3 DEF Present
  <2>4. CASE PresentLate(s)
    BY <2>4 DEF PresentLate
  <2>5. CASE Destroy(s)
    BY <2>5 DEF Destroy
  <2>6. CASE Teardown(s)
    BY <2>6 DEF Teardown
  <2>7. CASE AwaitHeir(s)
    <3>1. CASE descendant[s] = Null
      BY <2>7, <3>1, <2>0 DEF AwaitHeir
    <3>2. CASE descendant[s] \in Chain
      BY <2>7, <3>2 DEF AwaitHeir
    <3> QED
      BY <3>1, <3>2
  <2>8. CASE DrainBegins(s)
    BY <2>8, HandoffAssumption DEF DrainBegins, BeginDrain
  <2>9. CASE DrainTakes(s)
    BY <2>9 DEF DrainTakes, TakeOne
  <2>10. CASE DrainEnds(s)
    BY <2>10 DEF DrainEnds, Drained
  <2>11. CASE StopFlipThread(s)
    BY <2>11 DEF StopFlipThread
  <2>12. CASE Unlink(s)
    BY <2>12 DEF Unlink
  <2>13. CASE FlipTakes(s)
    BY <2>13 DEF FlipTakes
  <2>14. CASE FlipExits(s)
    BY <2>14 DEF FlipExits
  <2>15. CASE FlipFence(s)
    BY <2>15 DEF FlipFence
  <2>16. CASE FlipFails(s)
    BY <2>16 DEF FlipFails
  <2>17. CASE FlipEntersAncestor(s)
    <3>1. CASE target[s] = Null
      BY <2>17, <3>1, <2>0 DEF FlipEntersAncestor, BeginDrain
    <3>2. CASE target[s] \in Chain
      BY <2>17, <3>2, HandoffAssumption DEF FlipEntersAncestor, BeginDrain
    <3> QED
      BY <3>1, <3>2
  <2>18. CASE FlipDrains(s)
    <3>1. CASE target[s] = Null
      BY <2>18, <3>1, <2>0 DEF FlipDrains, TakeOne
    <3>2. CASE target[s] \in Chain
      BY <2>18, <3>2 DEF FlipDrains, TakeOne
    <3> QED
      BY <3>1, <3>2
  <2>19. CASE FlipLeavesAncestor(s)
    BY <2>19 DEF FlipLeavesAncestor, Drained
  <2>20. CASE FlipStarts(s)
    BY <2>20 DEF FlipStarts
  <2>21. CASE FlipPresents(s)
    BY <2>21 DEF FlipPresents
  <2> QED
    BY <2>1, <2>2, <2>3, <2>4, <2>5, <2>6, <2>7, <2>8, <2>9, <2>10, <2>11, <2>12, <2>13, <2>14, <2>15, <2>16, <2>17, <2>18, <2>19, <2>20, <2>21 DEF DestroyRuns, FlipThread
<1> QED
  BY <1>1, <1>2

(* The state is well formed in every behaviour. *)
THEOREM TypeCorrect == Spec => []TypeOK
<1>1. Init => TypeOK
  <2> SUFFICES ASSUME Init PROVE TypeOK
    OBVIOUS
  <2>1. NumImages \in Nat
    BY HandoffAssumption
  <2>2. /\ life \in [Chain -> {"none", "alive", "dead"}]
        /\ acquired \in [Chain -> Nat]
        /\ queued \in [Chain -> Nat]
        /\ dropped \in [Chain -> Nat]
        /\ usable \in [Chain -> Nat]
        /\ free \in [Chain -> Nat]
        /\ startSem \in [Chain -> Nat]
    BY <2>1 DEF Init
  <2>3. /\ error \in [Chain -> BOOLEAN]
        /\ started \in [Chain -> BOOLEAN]
        /\ firstPresent \in [Chain -> BOOLEAN]
        /\ retired \in [Chain -> BOOLEAN]
        /\ run \in [Chain -> BOOLEAN]
    BY DEF Init
  <2>4. /\ ancestor \in [Chain -> Chain \union {Null}]
        /\ descendant \in [Chain -> Chain \union {Null}]
        /\ target \in [Chain -> Chain \union {Null}]
        /\ lock \in [Chain -> {"none", "app", "heir"}]
        /\ left \in [Chain -> Int]
        /\ flip \in [Chain -> Flips]
        /\ call \in [Chain -> Calls]
    BY DEF Init, Flips, Calls
  <2> QED
    BY <2>2, <2>3, <2>4 DEF Init, TypeOK
<1>2. TypeOK /\ [Next]_vars => TypeOK'
  BY TypeStep
<1> QED
  BY <1>1, <1>2, PTL DEF Spec

-----------------------------------------------------------------------------
(* The inductive invariant.  One call at a time, and on a live swapchain;  *)
OneCall == \A s \in Chain : call[s] # "none" =>
    /\ Alive(s)
    /\ \A r \in Chain : call[r] # "none" => r = s

(* ... the links join live neighbours, and are cut on both sides;          *)
Linked == \A s \in Chain :
    /\ ancestor[s] # Null => /\ ancestor[s] = s - 1
                             /\ s - 1 \in Chain
                             /\ Alive(s) /\ Alive(s - 1)
                             /\ descendant[s - 1] = s
    /\ descendant[s] # Null => /\ descendant[s] = s + 1
                               /\ s + 1 \in Chain
                               /\ ancestor[s + 1] = s

(* ... an heir inside its ancestor is at its first present, linked to it;  *)
InAncestor == \A s \in Chain : flip[s] \in {"ancestor", "draining"} =>
    firstPresent[s] /\ ancestor[s] # Null /\ target[s] = ancestor[s]

(* ... nothing is queued before started is set;                            *)
NotStarted == \A s \in Chain : ~started[s] => queued[s] = 0 /\ flip[s] \in {"top", "exited"}

(* ... the start semaphore has a unit only once the ancestor was left;     *)
PastAncestor(s) == ~firstPresent[s] \/ flip[s] = "present"
StartPosted == \A s \in Chain : startSem[s] > 0 => PastAncestor(s)

(* ... and a teardown past its wait has no heir inside or bound for it.    *)
TeardownWaits == \A s \in Chain :
    /\ call[s] = "await" => descendant[s] # Null
    /\ call[s] \in {"drain", "draining"} /\ descendant[s] # Null => ~started[descendant[s]]
    /\ call[s] \in {"stop", "join"} /\ descendant[s] # Null
         => ~started[descendant[s]] \/ PastAncestor(descendant[s])

HandoffInv == OneCall /\ Linked /\ InAncestor /\ NotStarted /\ StartPosted /\ TeardownWaits

(* Every step keeps the invariant. *)
LEMMA HandoffStep == ~Concurrent /\ TypeOK /\ HandoffInv /\ [Next]_vars => HandoffInv'
<1> SUFFICES ASSUME ~Concurrent, TypeOK, HandoffInv, [Next]_vars PROVE HandoffInv'
  OBVIOUS
<1> USE DEF TypeOK, Null, HandoffInv, OneCall, Linked, InAncestor, NotStarted, StartPosted, TeardownWaits,
          PastAncestor, Alive, imageVars, linkVars, startVars, waitVars, threadVars, historyVars
<1>1. CASE UNCHANGED vars
  BY <1>1 DEF vars
<1>2. CASE Next
  <2>0. Chain \subseteq Nat \ {Null}
    BY DEF Chain
  <2> PICK s \in Chain : \/ Create(s) \/ Acquire(s) \/ Present(s) \/ PresentLate(s)
                         \/ Destroy(s) \/ DestroyRuns(s) \/ FlipThread(s)
    BY <1>2 DEF Next
  <2>1. CASE Create(s)
    <3>0. s - 1 \in Chain /\ Alive(s - 1) /\ ~Alive(s) /\ call[s - 1] = "none"
      BY <2>1, HandoffAssumption DEF Create, MayCall, Chain
    <3>1. ancestor[s] = Null /\ descendant[s] = Null /\ descendant[s - 1] = Null
      BY <3>0, <2>0
    <3>2. Linked'
      <4> SUFFICES ASSUME NEW r \in Chain
                   PROVE  /\ ancestor'[r] # Null => /\ ancestor'[r] = r - 1
                                                    /\ r - 1 \in Chain
                                                    /\ Alive(r)' /\ Alive(r - 1)'
                                                    /\ descendant'[r - 1] = r
                          /\ descendant'[r] # Null => /\ descendant'[r] = r + 1
                                                      /\ r + 1 \in Chain
                                                      /\ ancestor'[r + 1] = r
        BY DEF Linked
      <4>1. CASE r = s
        BY <2>1, <2>0, <3>0, <3>1, <4>1 DEF Create
      <4>2. CASE r = s - 1
        BY <2>1, <2>0, <3>0, <3>1, <4>2 DEF Create
      <4>3. CASE r # s /\ r # s - 1
        BY <2>1, <2>0, <3>0, <3>1, <4>3 DEF Create
      <4> QED
        BY <4>1, <4>2, <4>3
    <3> QED
      BY <2>1, <3>0, <3>1, <3>2 DEF Create
  <2>2. CASE Acquire(s)
    BY <2>2 DEF Acquire
  <2>3. CASE Present(s)
    BY <2>3 DEF Present, MayCall
  <2>4. CASE PresentLate(s)
    BY <2>4 DEF PresentLate
  <2>5. CASE Destroy(s)
    BY <2>5 DEF Destroy, MayCall
  <2>6. CASE Teardown(s)
    <3>1. OneCall' /\ Linked' /\ NotStarted'
      BY <2>6 DEF Teardown, DescendantPresents
    <3>2. InAncestor' /\ StartPosted'
      BY <2>6 DEF Teardown, DescendantPresents
    <3>3. TeardownWaits'
      BY <2>6 DEF Teardown, DescendantPresents
    <3> QED
      BY <3>1, <3>2, <3>3
  <2>7. CASE AwaitHeir(s)
    <3>1. OneCall' /\ Linked' /\ NotStarted'
      BY <2>7 DEF AwaitHeir
    <3>2. InAncestor' /\ StartPosted'
      BY <2>7 DEF AwaitHeir
    <3>3. TeardownWaits'
      BY <2>7 DEF AwaitHeir
    <3> QED
      BY <3>1, <3>2, <3>3
  <2>8. CASE DrainBegins(s)
    <3>1. OneCall' /\ Linked' /\ NotStarted'
      BY <2>8 DEF DrainBegins, BeginDrain
    <3>2. InAncestor' /\ StartPosted'
      BY <2>8 DEF DrainBegins, BeginDrain
    <3>3. TeardownWaits'
      BY <2>8 DEF DrainBegins, BeginDrain
    <3> QED
      BY <3>1, <3>2, <3>3
  <2>9. CASE DrainTakes(s)
    <3>1. OneCall' /\ Linked' /\ NotStarted'
      BY <2>9 DEF DrainTakes, TakeOne
    <3>2. InAncestor' /\ StartPosted'
      BY <2>9 DEF DrainTakes, TakeOne
    <3>3. TeardownWaits'
      BY <2>9 DEF DrainTakes, TakeOne
    <3> QED
      BY <3>1, <3>2, <3>3
  <2>10. CASE DrainEnds(s)
    <3>1. OneCall' /\ Linked' /\ NotStarted'
      BY <2>10 DEF DrainEnds, Drained
    <3>2. InAncestor' /\ StartPosted'
      BY <2>10 DEF DrainEnds, Drained
    <3>3. TeardownWaits'
      BY <2>10 DEF DrainEnds, Drained
    <3> QED
      BY <3>1, <3>2, <3>3
  <2>11. CASE StopFlipThread(s)
    <3>1. OneCall' /\ Linked' /\ InAncestor' /\ NotStarted' /\ StartPosted'
      BY <2>11 DEF StopFlipThread
    <3>2. TeardownWaits'
      BY <2>11 DEF StopFlipThread
    <3> QED
      BY <3>1, <3>2
  <2>12. CASE Unlink(s)
    <3>1. /\ \A r \in Chain : ancestor'[r] = IF r = s \/ r = descendant[s] THEN Null ELSE ancestor[r]
          /\ \A r \in Chain : descendant'[r] = IF r = s \/ r = ancestor[s] THEN Null ELSE descendant[r]
          /\ \A r \in Chain : Alive(r)' <=> Alive(r) /\ r # s
      BY <2>12 DEF Unlink
    <3>2. Linked'
      <4>1. ASSUME NEW r \in Chain, ancestor'[r] # Null
            PROVE  /\ ancestor'[r] = r - 1
                   /\ r - 1 \in Chain
                   /\ Alive(r)' /\ Alive(r - 1)'
                   /\ descendant'[r - 1] = r
        BY <3>1, <4>1, <2>0
      <4>2. ASSUME NEW r \in Chain, descendant'[r] # Null
            PROVE  /\ descendant'[r] = r + 1
                   /\ r + 1 \in Chain
                   /\ ancestor'[r + 1] = r
        BY <3>1, <4>2, <2>0
      <4> QED
        BY <4>1, <4>2
    <3>3. InAncestor'
      <4> SUFFICES ASSUME NEW r \in Chain, flip[r] \in {"ancestor", "draining"}
                   PROVE  /\ firstPresent[r]
                          /\ ancestor'[r] # Null
                          /\ target[r] = ancestor'[r]
        BY <2>12 DEF Unlink
      <4>1. r # s
        BY <2>12 DEF Unlink
      <4>2. r # descendant[s]
        <5>1. descendant[s] # Null => ~started[descendant[s]] \/ PastAncestor(descendant[s])
          BY <2>12 DEF Unlink
        <5> QED
          BY <5>1, <2>0
      <4> QED
        BY <3>1, <4>1, <4>2
    <3>4. OneCall'
      BY <2>12, <3>1 DEF Unlink
    <3>5. NotStarted' /\ StartPosted'
      BY <2>12 DEF Unlink
    <3>6. TeardownWaits'
      BY <2>12 DEF Unlink
    <3> QED
      BY <3>2, <3>3, <3>4, <3>5, <3>6
  <2>13. CASE FlipTakes(s)
    BY <2>13 DEF FlipTakes
  <2>14. CASE FlipExits(s)
    BY <2>14 DEF FlipExits
  <2>15. CASE FlipFence(s)
    BY <2>15 DEF FlipFence
  <2>16. CASE FlipFails(s)
    BY <2>16 DEF FlipFails
  <2>17. CASE FlipEntersAncestor(s)
    BY <2>17 DEF FlipEntersAncestor, BeginDrain
  <2>18. CASE FlipDrains(s)
    BY <2>18 DEF FlipDrains, TakeOne
  <2>19. CASE FlipLeavesAncestor(s)
    BY <2>19 DEF FlipLeavesAncestor, Drained
  <2>20. CASE FlipStarts(s)
    BY <2>20 DEF FlipStarts
  <2>21. CASE FlipPresents(s)
    BY <2>21 DEF FlipPresents
  <2> QED
    BY <2>1, <2>2, <2>3, <2>4, <2>5, <2>6, <2>7, <2>8, <2>9, <2>10, <2>11, <2>12, <2>13, <2>14, <2>15, <2>16, <2>17, <2>18, <2>19, <2>20, <2>21 DEF DestroyRuns, FlipThread
<1> QED
  BY <1>1, <1>2

(* No pointer to a deleted swapchain is followed, when the application     *)
(* makes its calls one after another: call_present() and teardown() stay   *)
(* inside live neighbours.                                                 *)
THEOREM NobodyUsesTheDeadAlone == ~Concurrent => (Spec => []NobodyUsesTheDead)
<1> SUFFICES ASSUME ~Concurrent PROVE Spec => []NobodyUsesTheDead
  OBVIOUS
<1>1. Init => HandoffInv
  BY DEF Init, HandoffInv, OneCall, Linked, InAncestor, NotStarted, StartPosted, TeardownWaits
<1>2. TypeOK /\ HandoffInv /\ [Next]_vars => HandoffInv'
  BY HandoffStep
<1>3. TypeOK /\ HandoffInv => NobodyUsesTheDead
  <2>1. Chain \subseteq Nat \ {Null}
    BY DEF Chain, Null
  <2> QED
    BY <2>1 DEF TypeOK, HandoffInv, Linked, InAncestor, TeardownWaits, NobodyUsesTheDead, Alive
<1> QED
  BY <1>1, <1>2, <1>3, TypeCorrect, PTL DEF Spec
-----------------------------------------------------------------------------
(* The order of the images, whoever calls.  A unit of the semaphore stands *)
(* for an image that is neither acquired nor on its way to the screen;     *)
UnitsBounded == \A a \in Chain : free[a] + acquired[a] + Unshown(a) =< NumImages

(* ... a swapchain's thread reads its ancestor once, at its first present, *)
(* and stays linked to it as long as the ancestor lives;                   *)
OnTheWay(s) ==
    \/ flip[s] \in {"ancestor", "draining"}
    \/ flip[s] \in {"start", "present"} /\ firstPresent[s] /\ target[s] # Null
Entered == \A s \in Chain :
    /\ OnTheWay(s) => /\ s - 1 \in Chain /\ target[s] = s - 1
                      /\ life[s - 1] = "dead" \/ ancestor[s] = s - 1
    /\ firstPresent[s] /\ flip[s] \in {"top", "fence", "exited"} => target[s] = Null

(* ... only the heir's thread drains as the heir;                          *)
HeirDrains == \A a \in Chain :
    lock[a] = "heir" => a + 1 \in Chain /\ flip[a + 1] = "draining"

(* ... what it still waits for is one less than what is not shown, as no   *)
(* present to the ancestor is accepted any more ...                        *)
Awaited == \A a \in Chain :
    lock[a] = "heir" /\ ~late => free[a] + Unshown(a) =< left[a] + 1

(* ... and when it has left, at most one image is not shown.               *)
AlmostShown == \A s \in Chain :
    flip[s] \in {"start", "present"} /\ firstPresent[s] /\ target[s] # Null /\ ~late
        => free[target[s]] + Unshown(target[s]) =< 1

OrderInv == Linked /\ NotStarted /\ UnitsBounded /\ Entered /\ HeirDrains /\ Awaited /\ AlmostShown

(* The links stay what they are, also when calls overlap.                  *)
LEMMA KeepLinked ==
    ASSUME TypeOK, Linked, [Next]_vars
    PROVE  Linked'
<1> USE DEF TypeOK, Null, Unshown, Linked, Alive, imageVars, linkVars, startVars, waitVars, threadVars, historyVars
<1>0. Chain \subseteq Nat \ {Null} /\ NumImages \in Nat
  BY HandoffAssumption DEF Chain
<1>1. CASE UNCHANGED vars
  BY <1>1 DEF vars
<1>2. CASE Next
  <2> PICK s \in Chain : \/ Create(s) \/ Acquire(s) \/ Present(s) \/ PresentLate(s)
                         \/ Destroy(s) \/ DestroyRuns(s) \/ FlipThread(s)
    BY <1>2 DEF Next
  <2>1. CASE Create(s)
    <3>0. s - 1 \in Chain /\ Alive(s - 1) /\ ~Alive(s) /\ life[s] = "none"
      BY <2>1, HandoffAssumption DEF Create, MayCall, Alive, Chain
    <3>1. ancestor[s] = Null /\ descendant[s] = Null /\ descendant[s - 1] = Null
      BY <3>0, <1>0
    <3>2. Linked'
      <4> SUFFICES ASSUME NEW r \in Chain
                   PROVE  /\ ancestor'[r] # Null => /\ ancestor'[r] = r - 1
                                                    /\ r - 1 \in Chain
                                                    /\ Alive(r)' /\ Alive(r - 1)'
                                                    /\ descendant'[r - 1] = r
                          /\ descendant'[r] # Null => /\ descendant'[r] = r + 1
                                                      /\ r + 1 \in Chain
                                                      /\ ancestor'[r + 1] = r
        BY DEF Linked
      <4>1. CASE r = s
        BY <2>1, <1>0, <3>0, <3>1, <4>1 DEF Create, Alive
      <4>2. CASE r = s - 1
        BY <2>1, <1>0, <3>0, <3>1, <4>2 DEF Create, Alive
      <4>3. CASE r # s /\ r # s - 1
        BY <2>1, <1>0, <3>0, <3>1, <4>3 DEF Create, Alive
      <4> QED
        BY <4>1, <4>2, <4>3
    <3> QED
      BY <3>2
  <2>2. CASE Acquire(s)
    BY <1>0, <2>2 DEF Acquire, MayCall
  <2>3. CASE Present(s)
    BY <1>0, <2>3 DEF Present, MayCall
  <2>4. CASE PresentLate(s)
    BY <1>0, <2>4 DEF PresentLate, MayCall
  <2>5. CASE Destroy(s)
    BY <1>0, <2>5 DEF Destroy, MayCall
  <2>6. CASE Teardown(s)
    BY <1>0, <2>6 DEF Teardown
  <2>7. CASE AwaitHeir(s)
    BY <1>0, <2>7 DEF AwaitHeir
  <2>8. CASE DrainBegins(s)
    BY <1>0, <2>8 DEF DrainBegins, BeginDrain
  <2>9. CASE DrainTakes(s)
    BY <1>0, <2>9 DEF DrainTakes, TakeOne
  <2>10. CASE DrainEnds(s)
    BY <1>0, <2>10 DEF DrainEnds, Drained
  <2>11. CASE StopFlipThread(s)
    BY <1>0, <2>11 DEF StopFlipThread
  <2>12. CASE Unlink(s)
    <3>1. /\ \A r \in Chain : ancestor'[r] = IF r = s \/ r = descendant[s] THEN Null ELSE ancestor[r]
          /\ \A r \in Chain : descendant'[r] = IF r = s \/ r = ancestor[s] THEN Null ELSE descendant[r]
          /\ \A r \in Chain : Alive(r)' <=> Alive(r) /\ r # s
      BY <2>12 DEF Unlink
    <3>2. Linked'
      <4>1. ASSUME NEW r \in Chain, ancestor'[r] # Null
            PROVE  /\ ancestor'[r] = r - 1
                   /\ r - 1 \in Chain
                   /\ Alive(r)' /\ Alive(r - 1)'
                   /\ descendant'[r - 1] = r
        BY <3>1, <4>1, <1>0
      <4>2. ASSUME NEW r \in Chain, descendant'[r] # Null
            PROVE  /\ descendant'[r] = r + 1
                   /\ r + 1 \in Chain
                   /\ ancestor'[r + 1] = r
        BY <3>1, <4>2, <1>0
      <4> QED
        BY <4>1, <4>2
    <3> QED
      BY <3>2
  <2>13. CASE FlipTakes(s)
    BY <1>0, <2>13 DEF FlipTakes
  <2>14. CASE FlipExits(s)
    BY <1>0, <2>14 DEF FlipExits
  <2>15. CASE FlipFence(s)
    BY <1>0, <2>15 DEF FlipFence
  <2>16. CASE FlipFails(s)
    BY <1>0, <2>16 DEF FlipFails
  <2>17. CASE FlipEntersAncestor(s)
    BY <1>0, <2>17 DEF FlipEntersAncestor, BeginDrain
  <2>18. CASE FlipDrains(s)
    BY <1>0, <2>18 DEF FlipDrains, TakeOne
  <2>19. CASE FlipLeavesAncestor(s)
    BY <1>0, <2>19 DEF FlipLeavesAncestor, Drained
  <2>20. CASE FlipStarts(s)
    BY <1>0, <2>20 DEF FlipStarts
  <2>21. CASE FlipPresents(s)
    BY <1>0, <2>21 DEF FlipPresents
  <2> QED
    BY <2>1, <2>2, <2>3, <2>4, <2>5, <2>6, <2>7, <2>8, <2>9, <2>10, <2>11, <2>12, <2>13, <2>14, <2>15, <2>16, <2>17, <2>18, <2>19, <2>20, <2>21
       DEF DestroyRuns, FlipThread
<1> QED
  BY <1>1, <1>2

(* Nothing is queued before started is set.                                *)
LEMMA KeepNotStarted ==
    ASSUME TypeOK, NotStarted, [Next]_vars
    PROVE  NotStarted'
<1> USE DEF TypeOK, Null, Unshown, NotStarted, imageVars, linkVars, startVars, waitVars, threadVars, historyVars
<1>0. Chain \subseteq Nat \ {Null} /\ NumImages \in Nat
  BY HandoffAssumption DEF Chain
<1>1. CASE UNCHANGED vars
  BY <1>1 DEF vars
<1>2. CASE Next
  <2> PICK s \in Chain : \/ Create(s) \/ Acquire(s) \/ Present(s) \/ PresentLate(s)
                         \/ Destroy(s) \/ DestroyRuns(s) \/ FlipThread(s)
    BY <1>2 DEF Next
  <2>1. CASE Create(s)
    BY <1>0, <2>1 DEF Create
  <2>2. CASE Acquire(s)
    BY <1>0, <2>2 DEF Acquire, MayCall
  <2>3. CASE Present(s)
    BY <1>0, <2>3 DEF Present, MayCall
  <2>4. CASE PresentLate(s)
    BY <1>0, <2>4 DEF PresentLate, MayCall
  <2>5. CASE Destroy(s)
    BY <1>0, <2>5 DEF Destroy, MayCall
  <2>6. CASE Teardown(s)
    BY <1>0, <2>6 DEF Teardown
  <2>7. CASE AwaitHeir(s)
    BY <1>0, <2>7 DEF AwaitHeir
  <2>8. CASE DrainBegins(s)
    BY <1>0, <2>8 DEF DrainBegins, BeginDrain
  <2>9. CASE DrainTakes(s)
    BY <1>0, <2>9 DEF DrainTakes, TakeOne
  <2>10. CASE DrainEnds(s)
    BY <1>0, <2>10 DEF DrainEnds, Drained
  <2>11. CASE StopFlipThread(s)
    BY <1>0, <2>11 DEF StopFlipThread
  <2>12. CASE Unlink(s)
    BY <1>0, <2>12 DEF Unlink
  <2>13. CASE FlipTakes(s)
    BY <1>0, <2>13 DEF FlipTakes
  <2>14. CASE FlipExits(s)
    BY <1>0, <2>14 DEF FlipExits
  <2>15. CASE FlipFence(s)
    BY <1>0, <2>15 DEF FlipFence
  <2>16. CASE FlipFails(s)
    BY <1>0, <2>16 DEF FlipFails
  <2>17. CASE FlipEntersAncestor(s)
    BY <1>0, <2>17 DEF FlipEntersAncestor, BeginDrain
  <2>18. CASE FlipDrains(s)
    BY <1>0, <2>18 DEF FlipDrains, TakeOne
  <2>19. CASE FlipLeavesAncestor(s)
    BY <1>0, <2>19 DEF FlipLeavesAncestor, Drained
  <2>20. CASE FlipStarts(s)
    BY <1>0, <2>20 DEF FlipStarts
  <2>21. CASE FlipPresents(s)
    BY <1>0, <2>21 DEF FlipPresents
  <2> QED
    BY <2>1, <2>2, <2>3, <2>4, <2>5, <2>6, <2>7, <2>8, <2>9, <2>10, <2>11, <2>12, <2>13, <2>14, <2>15, <2>16, <2>17, <2>18, <2>19, <2>20, <2>21
       DEF DestroyRuns, FlipThread
<1> QED
  BY <1>1, <1>2

(* An image and its unit move together.                                    *)
LEMMA KeepUnits ==
    ASSUME TypeOK, Entered, UnitsBounded, [Next]_vars
    PROVE  UnitsBounded'
<1> USE DEF TypeOK, Null, Unshown, UnitsBounded, Entered, OnTheWay, imageVars, linkVars, startVars, waitVars, threadVars, historyVars
<1>0. Chain \subseteq Nat \ {Null} /\ NumImages \in Nat
  BY HandoffAssumption DEF Chain
<1>1. CASE UNCHANGED vars
  BY <1>1 DEF vars
<1>2. CASE Next
  <2> PICK s \in Chain : \/ Create(s) \/ Acquire(s) \/ Present(s) \/ PresentLate(s)
                         \/ Destroy(s) \/ DestroyRuns(s) \/ FlipThread(s)
    BY <1>2 DEF Next
  <2>1. CASE Create(s)
    BY <1>0, <2>1 DEF Create
  <2>2. CASE Acquire(s)
    BY <1>0, <2>2 DEF Acquire, MayCall
  <2>3. CASE Present(s)
    BY <1>0, <2>3 DEF Present, MayCall
  <2>4. CASE PresentLate(s)
    BY <1>0, <2>4 DEF PresentLate, MayCall
  <2>5. CASE Destroy(s)
    BY <1>0, <2>5 DEF Destroy, MayCall
  <2>6. CASE Teardown(s)
    BY <1>0, <2>6 DEF Teardown
  <2>7. CASE AwaitHeir(s)
    BY <1>0, <2>7 DEF AwaitHeir
  <2>8. CASE DrainBegins(s)
    BY <1>0, <2>8 DEF DrainBegins, BeginDrain
  <2>9. CASE DrainTakes(s)
    BY <1>0, <2>9 DEF DrainTakes, TakeOne
  <2>10. CASE DrainEnds(s)
    BY <1>0, <2>10 DEF DrainEnds, Drained
  <2>11. CASE StopFlipThread(s)
    BY <1>0, <2>11 DEF StopFlipThread
  <2>12. CASE Unlink(s)
    BY <1>0, <2>12 DEF Unlink
  <2>13. CASE FlipTakes(s)
    BY <1>0, <2>13 DEF FlipTakes
  <2>14. CASE FlipExits(s)
    BY <1>0, <2>14 DEF FlipExits
  <2>15. CASE FlipFence(s)
    BY <1>0, <2>15 DEF FlipFence
  <2>16. CASE FlipFails(s)
    BY <1>0, <2>16 DEF FlipFails
  <2>17. CASE FlipEntersAncestor(s)
    BY <1>0, <2>17 DEF FlipEntersAncestor, BeginDrain
  <2>18. CASE FlipDrains(s)
    BY <1>0, <2>18 DEF FlipDrains, TakeOne
  <2>19. CASE FlipLeavesAncestor(s)
    BY <1>0, <2>19 DEF FlipLeavesAncestor, Drained
  <2>20. CASE FlipStarts(s)
    BY <1>0, <2>20 DEF FlipStarts
  <2>21. CASE FlipPresents(s)
    BY <1>0, <2>21 DEF FlipPresents
  <2> QED
    BY <2>1, <2>2, <2>3, <2>4, <2>5, <2>6, <2>7, <2>8, <2>9, <2>10, <2>11, <2>12, <2>13, <2>14, <2>15, <2>16, <2>17, <2>18, <2>19, <2>20, <2>21
       DEF DestroyRuns, FlipThread
<1> QED
  BY <1>1, <1>2

(* The thread of the heir stays where its ancestor is.                     *)
LEMMA KeepEntered ==
    ASSUME TypeOK, Linked, Entered, [Next]_vars
    PROVE  Entered'
<1> USE DEF TypeOK, Null, Unshown, Entered, Linked, OnTheWay, Alive, imageVars, linkVars, startVars, waitVars, threadVars, historyVars
<1>0. Chain \subseteq Nat \ {Null} /\ NumImages \in Nat
  BY HandoffAssumption DEF Chain
<1>1. CASE UNCHANGED vars
  BY <1>1 DEF vars
<1>2. CASE Next
  <2> PICK s \in Chain : \/ Create(s) \/ Acquire(s) \/ Present(s) \/ PresentLate(s)
                         \/ Destroy(s) \/ DestroyRuns(s) \/ FlipThread(s)
    BY <1>2 DEF Next
  <2>1. CASE Create(s)
    BY <1>0, <2>1 DEF Create
  <2>2. CASE Acquire(s)
    BY <1>0, <2>2 DEF Acquire, MayCall
  <2>3. CASE Present(s)
    BY <1>0, <2>3 DEF Present, MayCall
  <2>4. CASE PresentLate(s)
    BY <1>0, <2>4 DEF PresentLate, MayCall
  <2>5. CASE Destroy(s)
    BY <1>0, <2>5 DEF Destroy, MayCall
  <2>6. CASE Teardown(s)
    BY <1>0, <2>6 DEF Teardown
  <2>7. CASE AwaitHeir(s)
    BY <1>0, <2>7 DEF AwaitHeir
  <2>8. CASE DrainBegins(s)
    BY <1>0, <2>8 DEF DrainBegins, BeginDrain
  <2>9. CASE DrainTakes(s)
    BY <1>0, <2>9 DEF DrainTakes, TakeOne
  <2>10. CASE DrainEnds(s)
    BY <1>0, <2>10 DEF DrainEnds, Drained
  <2>11. CASE StopFlipThread(s)
    BY <1>0, <2>11 DEF StopFlipThread
  <2>12. CASE Unlink(s)
    BY <1>0, <2>12 DEF Unlink
  <2>13. CASE FlipTakes(s)
    BY <1>0, <2>13 DEF FlipTakes
  <2>14. CASE FlipExits(s)
    BY <1>0, <2>14 DEF FlipExits
  <2>15. CASE FlipFence(s)
    BY <1>0, <2>15 DEF FlipFence
  <2>16. CASE FlipFails(s)
    BY <1>0, <2>16 DEF FlipFails
  <2>17. CASE FlipEntersAncestor(s)
    BY <1>0, <2>17 DEF FlipEntersAncestor, BeginDrain
  <2>18. CASE FlipDrains(s)
    BY <1>0, <2>18 DEF FlipDrains, TakeOne
  <2>19. CASE FlipLeavesAncestor(s)
    BY <1>0, <2>19 DEF FlipLeavesAncestor, Drained
  <2>20. CASE FlipStarts(s)
    BY <1>0, <2>20 DEF FlipStarts
  <2>21. CASE FlipPresents(s)
    BY <1>0, <2>21 DEF FlipPresents
  <2> QED
    BY <2>1, <2>2, <2>3, <2>4, <2>5, <2>6, <2>7, <2>8, <2>9, <2>10, <2>11, <2>12, <2>13, <2>14, <2>15, <2>16, <2>17, <2>18, <2>19, <2>20, <2>21
       DEF DestroyRuns, FlipThread
<1> QED
  BY <1>1, <1>2

(* Who drains as the heir is the heir.                                     *)
LEMMA KeepHeir ==
    ASSUME TypeOK, Entered, HeirDrains, [Next]_vars
    PROVE  HeirDrains'
<1> USE DEF TypeOK, Null, Unshown, HeirDrains, Entered, OnTheWay, imageVars, linkVars, startVars, waitVars, threadVars, historyVars
<1>0. Chain \subseteq Nat \ {Null} /\ NumImages \in Nat
  BY HandoffAssumption DEF Chain
<1>1. CASE UNCHANGED vars
  BY <1>1 DEF vars
<1>2. CASE Next
  <2> PICK s \in Chain : \/ Create(s) \/ Acquire(s) \/ Present(s) \/ PresentLate(s)
                         \/ Destroy(s) \/ DestroyRuns(s) \/ FlipThread(s)
    BY <1>2 DEF Next
  <2>1. CASE Create(s)
    BY <1>0, <2>1 DEF Create
  <2>2. CASE Acquire(s)
    BY <1>0, <2>2 DEF Acquire, MayCall
  <2>3. CASE Present(s)
    BY <1>0, <2>3 DEF Present, MayCall
  <2>4. CASE PresentLate(s)
    BY <1>0, <2>4 DEF PresentLate, MayCall
  <2>5. CASE Destroy(s)
    BY <1>0, <2>5 DEF Destroy, MayCall
  <2>6. CASE Teardown(s)
    BY <1>0, <2>6 DEF Teardown
  <2>7. CASE AwaitHeir(s)
    BY <1>0, <2>7 DEF AwaitHeir
  <2>8. CASE DrainBegins(s)
    BY <1>0, <2>8 DEF DrainBegins, BeginDrain
  <2>9. CASE DrainTakes(s)
    BY <1>0, <2>9 DEF DrainTakes, TakeOne
  <2>10. CASE DrainEnds(s)
    BY <1>0, <2>10 DEF DrainEnds, Drained
  <2>11. CASE StopFlipThread(s)
    BY <1>0, <2>11 DEF StopFlipThread
  <2>12. CASE Unlink(s)
    BY <1>0, <2>12 DEF Unlink
  <2>13. CASE FlipTakes(s)
    BY <1>0, <2>13 DEF FlipTakes
  <2>14. CASE FlipExits(s)
    BY <1>0, <2>14 DEF FlipExits
  <2>15. CASE FlipFence(s)
    BY <1>0, <2>15 DEF FlipFence
  <2>16. CASE FlipFails(s)
    BY <1>0, <2>16 DEF FlipFails
  <2>17. CASE FlipEntersAncestor(s)
    BY <1>0, <2>17 DEF FlipEntersAncestor, BeginDrain
  <2>18. CASE FlipDrains(s)
    BY <1>0, <2>18 DEF FlipDrains, TakeOne
  <2>19. CASE FlipLeavesAncestor(s)
    BY <1>0, <2>19 DEF FlipLeavesAncestor, Drained
  <2>20. CASE FlipStarts(s)
    BY <1>0, <2>20 DEF FlipStarts
  <2>21. CASE FlipPresents(s)
    BY <1>0, <2>21 DEF FlipPresents
  <2> QED
    BY <2>1, <2>2, <2>3, <2>4, <2>5, <2>6, <2>7, <2>8, <2>9, <2>10, <2>11, <2>12, <2>13, <2>14, <2>15, <2>16, <2>17, <2>18, <2>19, <2>20, <2>21
       DEF DestroyRuns, FlipThread
<1> QED
  BY <1>1, <1>2

(* The ancestor of a thread on its way accepts no present: it has a        *)
(* descendant that has started.                                            *)
LEMMA NoMorePresents ==
    ASSUME TypeOK, Linked, NotStarted, Entered, NEW s \in Chain, OnTheWay(s)
    PROVE  s - 1 \in Chain /\ target[s] = s - 1 /\ ~Present(s - 1)
<1>1. s - 1 \in Chain /\ target[s] = s - 1 /\ (life[s - 1] = "dead" \/ ancestor[s] = s - 1)
  BY DEF Entered
<1>2. started[s]
  BY DEF TypeOK, NotStarted, OnTheWay
<1>3. CASE life[s - 1] = "dead"
  BY <1>1, <1>3 DEF Present, MayCall, Alive
<1>4. CASE ancestor[s] = s - 1
  <2>1. ancestor[s] # Null
    BY <1>1, <1>4 DEF Chain, Null
  <2>2. descendant[s - 1] = s
    BY <2>1 DEF Linked
  <2>3. s # Null
    BY DEF Chain, Null
  <2> QED BY <1>1, <1>2, <2>2, <2>3 DEF Present, DescendantPresents
<1> QED BY <1>1, <1>3, <1>4

(* What is awaited shrinks with what is not shown.                         *)
LEMMA KeepAwaited ==
    ASSUME TypeOK, Linked, NotStarted, Entered, HeirDrains, UnitsBounded, Awaited, [Next]_vars
    PROVE  Awaited'
<1> USE DEF TypeOK, Null, Unshown, Awaited, imageVars, linkVars, startVars, waitVars, threadVars, historyVars
<1>0. Chain \subseteq Nat \ {Null} /\ NumImages \in Nat
  BY HandoffAssumption DEF Chain
<1>1. CASE UNCHANGED vars
  BY <1>1 DEF vars
<1>2. CASE Next
  <2> PICK s \in Chain : \/ Create(s) \/ Acquire(s) \/ Present(s) \/ PresentLate(s)
                         \/ Destroy(s) \/ DestroyRuns(s) \/ FlipThread(s)
    BY <1>2 DEF Next
  <2>1. CASE Create(s)
    BY <1>0, <2>1 DEF Create
  <2>2. CASE Acquire(s)
    BY <1>0, <2>2 DEF Acquire, MayCall
  <2>3. CASE Present(s)
    <3>1. ~(lock[s] = "heir")
      <4>1. ASSUME lock[s] = "heir" PROVE FALSE
        <5>1. PICK r \in Chain : r = s + 1 /\ OnTheWay(r)
          BY <4>1 DEF HeirDrains, OnTheWay
        <5>2. r - 1 = s
          BY <1>0, <5>1
        <5> QED BY <2>3, <5>1, <5>2, NoMorePresents
      <4> QED BY <4>1
    <3> QED BY <1>0, <2>3, <3>1 DEF Present
  <2>4. CASE PresentLate(s)
    BY <1>0, <2>4 DEF PresentLate, MayCall
  <2>5. CASE Destroy(s)
    BY <1>0, <2>5 DEF Destroy, MayCall
  <2>6. CASE Teardown(s)
    BY <1>0, <2>6 DEF Teardown
  <2>7. CASE AwaitHeir(s)
    BY <1>0, <2>7 DEF AwaitHeir
  <2>8. CASE DrainBegins(s)
    BY <1>0, <2>8 DEF DrainBegins, BeginDrain, UnitsBounded
  <2>9. CASE DrainTakes(s)
    BY <1>0, <2>9 DEF DrainTakes, TakeOne
  <2>10. CASE DrainEnds(s)
    BY <1>0, <2>10 DEF DrainEnds, Drained
  <2>11. CASE StopFlipThread(s)
    BY <1>0, <2>11 DEF StopFlipThread
  <2>12. CASE Unlink(s)
    BY <1>0, <2>12 DEF Unlink
  <2>13. CASE FlipTakes(s)
    BY <1>0, <2>13 DEF FlipTakes
  <2>14. CASE FlipExits(s)
    BY <1>0, <2>14 DEF FlipExits
  <2>15. CASE FlipFence(s)
    BY <1>0, <2>15 DEF FlipFence
  <2>16. CASE FlipFails(s)
    BY <1>0, <2>16 DEF FlipFails
  <2>17. CASE FlipEntersAncestor(s)
    BY <1>0, <2>17 DEF FlipEntersAncestor, BeginDrain, UnitsBounded, Entered, OnTheWay
  <2>18. CASE FlipDrains(s)
    BY <1>0, <2>18 DEF FlipDrains, TakeOne, Entered, OnTheWay
  <2>19. CASE FlipLeavesAncestor(s)
    BY <1>0, <2>19 DEF FlipLeavesAncestor, Drained
  <2>20. CASE FlipStarts(s)
    BY <1>0, <2>20 DEF FlipStarts
  <2>21. CASE FlipPresents(s)
    BY <1>0, <2>21 DEF FlipPresents
  <2> QED
    BY <2>1, <2>2, <2>3, <2>4, <2>5, <2>6, <2>7, <2>8, <2>9, <2>10, <2>11, <2>12, <2>13, <2>14, <2>15, <2>16, <2>17, <2>18, <2>19, <2>20, <2>21
       DEF DestroyRuns, FlipThread
<1> QED
  BY <1>1, <1>2

(* Once the heir has left, nothing comes after it.                         *)
LEMMA KeepAlmostShown ==
    ASSUME TypeOK, Linked, NotStarted, Entered, HeirDrains, Awaited, AlmostShown, [Next]_vars
    PROVE  AlmostShown'
<1> USE DEF TypeOK, Null, Unshown, AlmostShown, imageVars, linkVars, startVars, waitVars, threadVars, historyVars
<1>0. Chain \subseteq Nat \ {Null} /\ NumImages \in Nat
  BY HandoffAssumption DEF Chain
<1>1. CASE UNCHANGED vars
  BY <1>1 DEF vars
<1>2. CASE Next
  <2> PICK s \in Chain : \/ Create(s) \/ Acquire(s) \/ Present(s) \/ PresentLate(s)
                         \/ Destroy(s) \/ DestroyRuns(s) \/ FlipThread(s)
    BY <1>2 DEF Next
  <2>1. CASE Create(s)
    BY <1>0, <2>1 DEF Create, Entered, OnTheWay
  <2>2. CASE Acquire(s)
    BY <1>0, <2>2 DEF Acquire, Entered, OnTheWay, MayCall
  <2>3. CASE Present(s)
    <3>1. ASSUME NEW r \in Chain, OnTheWay(r) PROVE target[r] # s /\ target[r] \in Chain
      BY <2>3, <3>1, NoMorePresents
    <3>2. /\ \A r \in Chain : r # s => queued'[r] = queued[r] /\ free'[r] = free[r]
          /\ UNCHANGED <<flip, firstPresent, target, late>>
      BY <2>3 DEF Present
    <3> QED BY <3>1, <3>2 DEF OnTheWay, Present
  <2>4. CASE PresentLate(s)
    BY <1>0, <2>4 DEF PresentLate, Entered, OnTheWay, MayCall
  <2>5. CASE Destroy(s)
    BY <1>0, <2>5 DEF Destroy, Entered, OnTheWay, MayCall
  <2>6. CASE Teardown(s)
    BY <1>0, <2>6 DEF Teardown, Entered, OnTheWay
  <2>7. CASE AwaitHeir(s)
    BY <1>0, <2>7 DEF AwaitHeir, Entered, OnTheWay
  <2>8. CASE DrainBegins(s)
    BY <1>0, <2>8 DEF DrainBegins, Entered, OnTheWay, BeginDrain
  <2>9. CASE DrainTakes(s)
    BY <1>0, <2>9 DEF DrainTakes, Entered, OnTheWay, TakeOne
  <2>10. CASE DrainEnds(s)
    BY <1>0, <2>10 DEF DrainEnds, Entered, OnTheWay, Drained
  <2>11. CASE StopFlipThread(s)
    BY <1>0, <2>11 DEF StopFlipThread, Entered, OnTheWay
  <2>12. CASE Unlink(s)
    BY <1>0, <2>12 DEF Unlink, Entered, OnTheWay
  <2>13. CASE FlipTakes(s)
    BY <1>0, <2>13 DEF FlipTakes, Entered, OnTheWay
  <2>14. CASE FlipExits(s)
    BY <1>0, <2>14 DEF FlipExits, Entered, OnTheWay
  <2>15. CASE FlipFence(s)
    BY <1>0, <2>15 DEF FlipFence, Entered, OnTheWay
  <2>16. CASE FlipFails(s)
    BY <1>0, <2>16 DEF FlipFails, Entered, OnTheWay
  <2>17. CASE FlipEntersAncestor(s)
    BY <1>0, <2>17 DEF FlipEntersAncestor, Entered, OnTheWay, BeginDrain
  <2>18. CASE FlipDrains(s)
    BY <1>0, <2>18 DEF FlipDrains, Entered, OnTheWay, TakeOne
  <2>19. CASE FlipLeavesAncestor(s)
    <3>1. OnTheWay(s) /\ target[s] \in Chain /\ target[s] # s
      BY <1>0, <2>19 DEF FlipLeavesAncestor, Entered, OnTheWay
    <3>2. ~late => free[target[s]] + Unshown(target[s]) =< 1
      BY <2>19, <3>1 DEF FlipLeavesAncestor, Drained, Awaited
    <3>3. \A r \in Chain : free'[r] = free[r] /\ Unshown(r)' = Unshown(r)
      BY <2>19 DEF FlipLeavesAncestor
    <3> HIDE DEF Unshown
    <3> QED BY <1>0, <2>19, <3>1, <3>2, <3>3 DEF FlipLeavesAncestor
  <2>20. CASE FlipStarts(s)
    BY <1>0, <2>20 DEF FlipStarts, Entered, OnTheWay
  <2>21. CASE FlipPresents(s)
    BY <1>0, <2>21 DEF FlipPresents, Entered, OnTheWay
  <2> QED
    BY <2>1, <2>2, <2>3, <2>4, <2>5, <2>6, <2>7, <2>8, <2>9, <2>10, <2>11, <2>12, <2>13, <2>14, <2>15, <2>16, <2>17, <2>18, <2>19, <2>20, <2>21
       DEF DestroyRuns, FlipThread
<1> QED
  BY <1>1, <1>2

(* The first image of a new swapchain never overtakes two of the old one,  *)
(* however calls overlap: call_present() drains the ancestor, and          *)
(* queue_present() refuses what would come after.                          *)
THEOREM OldShownFirst == Spec => []OldIsShownFirst
<1>1. Init => OrderInv
  <2> SUFFICES ASSUME Init PROVE OrderInv
    OBVIOUS
  <2>1. NumImages \in Nat
    BY HandoffAssumption
  <2> QED BY <2>1 DEF Init, OrderInv, Linked, NotStarted, UnitsBounded, Entered, HeirDrains, Awaited,
                      AlmostShown, OnTheWay, Unshown
<1>2. TypeOK /\ OrderInv /\ [Next]_vars => OrderInv'
  BY KeepLinked, KeepNotStarted, KeepUnits, KeepEntered, KeepHeir, KeepAwaited, KeepAlmostShown
     DEF OrderInv
<1>3. TypeOK /\ OrderInv => OldIsShownFirst
  <2> SUFFICES ASSUME TypeOK, OrderInv, NEW s \in Chain,
                      flip[s] \in {"start", "present"}, firstPresent[s], target[s] # Null, ~late
               PROVE  Unshown(target[s]) =< 1
    BY DEF OldIsShownFirst
  <2>1. target[s] \in Chain
    BY DEF OrderInv, Entered, OnTheWay
  <2>2. free[target[s]] \in Nat /\ Unshown(target[s]) \in Nat
    BY <2>1 DEF TypeOK, Unshown
  <2>3. free[target[s]] + Unshown(target[s]) =< 1
    BY DEF OrderInv, AlmostShown
  <2> QED BY <2>2, <2>3
<1> QED
  BY <1>1, <1>2, <1>3, TypeCorrect, PTL DEF Spec
=============================================================================
