----------------------------- MODULE AdGateProofs -----------------------------
(***************************************************************************)
(* Proofs about AdGate, for every number of free requests and every length *)
(* of the countdown.                                                       *)
(***************************************************************************)
EXTENDS AdGate, TLAPS

(* Types *)

LEMMA NewPromptType ==
    ASSUME NEW k \in Kind
    PROVE  [kind |-> k, left |-> Seconds, leaving |-> FALSE, late |-> FALSE]
               \in Prompt
BY AdGateConstants DEF Prompt

LEMMA DismissType ==
    ASSUME NEW p \in Prompt
    PROVE  [p EXCEPT !.leaving = TRUE] \in Prompt
BY DEF Prompt

LEMMA TickType ==
    ASSUME NEW p \in Prompt
    PROVE  /\ p.left > 0 =>
                 [p EXCEPT !.left = @ - 1, !.late = p.leaving] \in Prompt
           /\ [p EXCEPT !.leaving = TRUE, !.late = p.leaving] \in Prompt
<1>1. p.left > 0 => p.left - 1 \in 0..Seconds
    BY AdGateConstants DEF Prompt
<1> QED BY <1>1 DEF Prompt

LEMMA TypeInit == Init => TypeOK
<1>1. 0 \in 0..MaxRequests
    BY AdGateConstants
<1>2. Init => prompt \in {{}} \cup {{p} : p \in Prompt}
    BY DEF Init
<1> QED BY <1>1, <1>2 DEF Init, TypeOK

\* A prompt on the screen is the only one, and no ad is there.
LEMMA OnePrompt ==
    ASSUME TypeOK, NEW p \in prompt
    PROVE  prompt = {p} /\ p \in Prompt /\ playing = FALSE /\ rewarded = FALSE
<1>1. prompt = {p} /\ p \in Prompt
    BY DEF TypeOK
<1>2. playing = FALSE
    BY <1>1 DEF TypeOK
<1> QED BY <1>1, <1>2 DEF TypeOK

LEMMA TypeStep ==
    ASSUME TypeOK, [Next]_vars
    PROVE  TypeOK'
<1> USE AdGateConstants
<1>1. CASE RequestGated
    BY <1>1, NewPromptType DEF TypeOK, RequestGated, PromptForAd, Present, Idle, Kind
<1>2. CASE RequestPlayerToTeamUp
    BY <1>2 DEF TypeOK, RequestPlayerToTeamUp, Idle
<1>3. CASE Requested
    <2>1. prompt' = prompt \/ \E p \in Prompt : prompt' = {p} /\ Idle
        BY <1>3, NewPromptType DEF Requested, Present, Kind
    <2>2. prompted' \in BOOLEAN /\ actionPrompt' \in Kind \cup {"nil"}
        BY <1>3 DEF Requested, TypeOK, Kind
    <2>3. answers' \in 0..MaxRequests
        BY <1>3 DEF Requested, TypeOK
    <2> QED BY <1>3, <2>1, <2>2, <2>3 DEF Requested, TypeOK, Idle
<1>4. CASE Reopen
    <2>1. answers' \in 0..MaxRequests
        BY <1>4 DEF Reopen
    <2> QED BY <1>4, <2>1 DEF TypeOK, Reopen
<1>5. CASE Dismiss
    <2>1. PICK p \in prompt : prompt' = {[p EXCEPT !.leaving = TRUE]}
        BY <1>5 DEF Dismiss
    <2>2. p \in Prompt /\ playing = FALSE
        BY <2>1, OnePrompt
    <2>3. [p EXCEPT !.leaving = TRUE] \in Prompt
        BY <2>2, DismissType
    <2>4. refused' \in BOOLEAN
        BY <1>5 DEF Dismiss
    <2>5. UNCHANGED <<requestsCount, ad, loading, screen, registered, playing,
                      rewarded, excused, rooted>>
        BY <1>5 DEF Dismiss
    <2> QED BY <2>1, <2>2, <2>3, <2>4, <2>5 DEF TypeOK, screen
<1>6. CASE HandleAccept
    <2>1. PICK p \in prompt : prompt' = {[p EXCEPT !.leaving = TRUE]}
        BY <1>6 DEF HandleAccept
    <2>2. p \in Prompt /\ playing = FALSE
        BY <2>1, OnePrompt
    <2>3. [p EXCEPT !.leaving = TRUE] \in Prompt
        BY <2>2, DismissType
    <2>4. registered' \in BOOLEAN
        BY <1>6 DEF HandleAccept, TypeOK
    <2>5. UNCHANGED <<requestsCount, ad, loading, screen, playing, rewarded,
                      refused, excused, rooted>>
        BY <1>6 DEF HandleAccept
    <2> QED BY <2>1, <2>2, <2>3, <2>4, <2>5 DEF TypeOK, screen
<1>7. CASE Tick
    BY <1>7, TickType DEF TypeOK, Tick, screen
<1>8. CASE Dismissed
    <2>1. PICK p \in prompt : prompt' = {} /\ TimerEnded(p)
        BY <1>8 DEF Dismissed
    <2>2. playing = FALSE /\ rewarded = FALSE
        BY <2>1, OnePrompt
    <2>3. /\ playing' \in BOOLEAN /\ loading' \in BOOLEAN
          /\ ad' \in {"none", "ready", "spent"}
          /\ actionPrompt' \in Kind \cup {"nil"}
        BY <2>1 DEF TimerEnded, TypeOK
    <2> QED BY <1>8, <2>1, <2>2, <2>3 DEF TypeOK, Dismissed
<1>9. CASE Reward
    BY <1>9 DEF TypeOK, Reward, screen
<1>10. CASE CloseAd
    BY <1>10 DEF TypeOK, CloseAd, screen
<1>11. CASE AdLoaded
    BY <1>11 DEF TypeOK, AdLoaded, screen
<1>12. CASE LoadFailed
    BY <1>12 DEF TypeOK, LoadFailed, screen
<1>13. CASE UNCHANGED vars
    BY <1>13 DEF TypeOK, vars, screen
<1> QED
    BY <1>1, <1>2, <1>3, <1>4, <1>5, <1>6, <1>7, <1>8, <1>9, <1>10, <1>11,
       <1>12, <1>13 DEF Next

\* The state stays well typed; in particular the countdown never passes 0, and
\* no prompt lies over an ad (PromptUserViewController.setTimer).
THEOREM TypeCorrect == Spec => []TypeOK
<1>1. Init => TypeOK
    BY TypeInit
<1> QED BY <1>1, TypeStep, PTL DEF Spec

(* What a prompt says about the rest of the screen *)

\* No prompt is up without the mark that it was shown, and the screen knows
\* which it is: so no second prompt makes it forget.
PromptInv ==
    \A p \in prompt : prompted = TRUE /\ actionPrompt = p.kind

LEMMA PromptStep ==
    ASSUME TypeOK, PromptInv, [Next]_vars
    PROVE  PromptInv'
<1>1. CASE RequestGated
    BY <1>1 DEF RequestGated, PromptForAd, Present, PromptInv
<1>2. CASE RequestPlayerToTeamUp \/ Reward \/ CloseAd \/ AdLoaded \/ LoadFailed
    BY <1>2 DEF RequestPlayerToTeamUp, Reward, CloseAd, AdLoaded, LoadFailed,
                PromptInv, screen
<1>3. CASE Requested
    <2>1. CASE registered \/ prompted
        BY <1>3, <2>1 DEF Requested, PromptInv
    <2>2. CASE ~(registered \/ prompted)
        <3>1. prompt = {}
            BY <2>2 DEF PromptInv
        <3> QED BY <1>3, <2>2, <3>1 DEF Requested, Present, PromptInv
    <2> QED BY <2>1, <2>2
<1>4. CASE Reopen
    BY <1>4 DEF Reopen, Idle, PromptInv
<1>5. CASE Dismiss \/ HandleAccept \/ Tick
    <2>1. PICK p \in prompt : \E q \in Prompt : prompt' = {q} /\ q.kind = p.kind
        <3>1. ASSUME NEW p \in prompt
              PROVE  /\ [p EXCEPT !.leaving = TRUE].kind = p.kind
                     /\ [p EXCEPT !.left = @ - 1, !.late = p.leaving].kind = p.kind
                     /\ [p EXCEPT !.leaving = TRUE, !.late = p.leaving].kind = p.kind
            BY OnePrompt DEF Prompt
        <3> QED BY <1>5, <3>1, OnePrompt, DismissType, TickType
                DEF Dismiss, HandleAccept, Tick
    <2>2. UNCHANGED screen
        BY <1>5 DEF Dismiss, HandleAccept, Tick
    <2> QED BY <2>1, <2>2 DEF PromptInv, screen
<1>6. CASE Dismissed
    BY <1>6 DEF Dismissed, PromptInv
<1>7. CASE UNCHANGED vars
    BY <1>7 DEF vars, screen, PromptInv
<1> QED BY <1>1, <1>2, <1>3, <1>4, <1>5, <1>6, <1>7 DEF Next

\* The screen knows which prompt it shows (PlayersViewController.actionPrompt).
THEOREM PromptKnown == Spec => []PromptMatches
<1>1. Init => TypeOK /\ PromptInv
    BY TypeInit DEF Init, PromptInv
<1>2. TypeOK /\ PromptInv /\ [Next]_vars => TypeOK' /\ PromptInv'
    BY TypeStep, PromptStep
<1>3. PromptInv => PromptMatches
    BY DEF PromptInv, PromptMatches
<1> QED BY <1>1, <1>2, <1>3, PTL DEF Spec

(* Refusals *)

\* A prompt that was refused with time to go is leaving with time to go: while
\* it leaves the timer fires at most once.
RefusalInv ==
    /\ \A p \in prompt : refused = TRUE /\ p.kind = "ad" =>
          /\ p.leaving = TRUE
          /\ p.left > 1 \/ (p.left = 1 /\ p.late = TRUE)
    /\ playing = TRUE => refused = FALSE

LEMMA RefusalStep ==
    ASSUME TypeOK, RefusalInv, [Next]_vars
    PROVE  RefusalInv'
<1>1. CASE RequestGated
    BY <1>1 DEF RequestGated, PromptForAd, Present, RefusalInv
<1>2. CASE RequestPlayerToTeamUp \/ Reward \/ CloseAd \/ AdLoaded \/ LoadFailed
           \/ Reopen
    BY <1>2 DEF RequestPlayerToTeamUp, Reward, CloseAd, AdLoaded, LoadFailed,
                Reopen, RefusalInv, screen
<1>3. CASE Requested
    BY <1>3 DEF Requested, Present, RefusalInv
<1>4. CASE Dismiss
    <2>1. PICK p \in prompt : /\ prompt' = {[p EXCEPT !.leaving = TRUE]}
                              /\ refused' = (p.kind = "ad" /\ p.left > 1)
                              /\ UNCHANGED playing
        BY <1>4 DEF Dismiss
    <2>2. playing = FALSE /\ p \in Prompt
        BY <2>1, OnePrompt
    <2>3. /\ [p EXCEPT !.leaving = TRUE].left = p.left
          /\ [p EXCEPT !.leaving = TRUE].leaving = TRUE
        BY <2>2 DEF Prompt
    <2>4. refused' = TRUE => p.left > 1
        BY <2>1
    <2> QED BY <2>1, <2>2, <2>3, <2>4 DEF RefusalInv
<1>5. CASE HandleAccept
    <2>1. PICK p \in prompt : /\ prompt' = {[p EXCEPT !.leaving = TRUE]}
                              /\ p.kind = "notifications"
                              /\ UNCHANGED <<playing, refused>>
        BY <1>5 DEF HandleAccept
    <2>2. playing = FALSE /\ p \in Prompt
        BY <2>1, OnePrompt
    <2>3. [p EXCEPT !.leaving = TRUE].kind = "notifications"
        BY <2>1, <2>2 DEF Prompt
    <2> QED BY <2>1, <2>2, <2>3 DEF RefusalInv
<1>6. CASE Tick
    <2>1. PICK p \in prompt :
              /\ ~p.late
              /\ \/ /\ p.left > 0
                    /\ prompt' = {[p EXCEPT !.left = @ - 1, !.late = p.leaving]}
                 \/ /\ p.left = 0
                    /\ prompt' = {[p EXCEPT !.leaving = TRUE, !.late = p.leaving]}
              /\ p.kind = "ad"
              /\ UNCHANGED <<playing, refused>>
        BY <1>6 DEF Tick
    <2>a. playing = FALSE /\ p \in Prompt
        BY <2>1, OnePrompt
    <2>b. p.left \in Nat /\ p.late \in BOOLEAN
        BY <2>a, AdGateConstants DEF Prompt
    <2>2. playing = FALSE /\ p \in Prompt /\ p.left \in Nat /\ p.late = FALSE
        BY <2>1, <2>a, <2>b
    <2>c. refused = TRUE =>
              p.leaving = TRUE /\ (p.left > 1 \/ (p.left = 1 /\ p.late = TRUE))
        BY <2>1 DEF RefusalInv
    <2>3. refused = TRUE => p.leaving = TRUE /\ p.left > 1
        BY <2>2, <2>c
    <2>4. refused = TRUE =>
              /\ prompt' = {[p EXCEPT !.left = @ - 1, !.late = p.leaving]}
              /\ [p EXCEPT !.left = @ - 1, !.late = p.leaving].leaving = TRUE
              /\ [p EXCEPT !.left = @ - 1, !.late = p.leaving].late = TRUE
              /\ [p EXCEPT !.left = @ - 1, !.late = p.leaving].left = p.left - 1
        BY <2>1, <2>2, <2>3 DEF Prompt
    <2>5. refused = TRUE => p.left - 1 > 1 \/ p.left - 1 = 1
        BY <2>2, <2>3
    <2> QED BY <2>1, <2>2, <2>4, <2>5 DEF RefusalInv
<1>7. CASE Dismissed
    <2>1. PICK p \in prompt : /\ prompt' = {} /\ TimerEnded(p)
                              /\ UNCHANGED refused
        BY <1>7 DEF Dismissed
    <2>2. playing = FALSE /\ p \in Prompt
        BY <2>1, OnePrompt
    <2>3. CASE p.kind # "ad" \/ p.left > 0
        BY <2>1, <2>2, <2>3 DEF TimerEnded, RefusalInv
    <2>4. CASE p.kind = "ad" /\ ~(p.left > 0)
        <3>1. p.left = 0
            BY <2>2, <2>4, AdGateConstants DEF Prompt
        <3>a. refused = TRUE => p.left > 1 \/ p.left = 1
            BY <2>4, Zenon DEF RefusalInv
        <3>b. ~(p.left > 1 \/ p.left = 1)
            BY <3>1
        <3>2. refused # TRUE
            BY <3>a, <3>b
        <3>3. refused \in BOOLEAN /\ refused' = refused /\ prompt' = {}
            BY <2>1 DEF TypeOK
        <3>4. refused' = FALSE
            BY <3>2, <3>3
        <3>5. \A q \in prompt' : FALSE
            BY <3>3
        <3>6. playing' = TRUE => refused' = FALSE
            BY <3>4
        <3> QED BY <3>5, <3>6, Zenon DEF RefusalInv
    <2> QED BY <2>3, <2>4
<1>8. CASE UNCHANGED vars
    BY <1>8 DEF vars, RefusalInv
<1> QED BY <1>1, <1>2, <1>3, <1>4, <1>5, <1>6, <1>7, <1>8 DEF Next

\* No ad is played after a refusal with two seconds or more to go
\* (PromptUserViewController.handleDismiss).
THEOREM RefusalRespected == Spec => []NoAdAfterRefusal
<1>1. Init => TypeOK /\ RefusalInv
    BY TypeInit DEF Init, RefusalInv
<1>2. TypeOK /\ RefusalInv /\ [Next]_vars => TypeOK' /\ RefusalInv'
    BY TypeStep, RefusalStep
<1>3. RefusalInv => NoAdAfterRefusal
    BY DEF RefusalInv, NoAdAfterRefusal
<1> QED BY <1>1, <1>2, <1>3, PTL DEF Spec

(* The used ad *)

\* A used ad stays in memory only while the next is asked for, unless one was
\* closed early or a load failed; the ad on the screen has still to be rewarded.
SpentInv ==
    ad = "spent" /\ loading = FALSE /\ (playing = FALSE \/ rewarded = TRUE)
        => excused = TRUE

LEMMA SpentStep ==
    ASSUME TypeOK, SpentInv, [Next]_vars
    PROVE  SpentInv'
<1>1. CASE RequestGated \/ RequestPlayerToTeamUp \/ Requested \/ Reopen
           \/ Dismiss \/ HandleAccept \/ Tick
    BY <1>1 DEF RequestGated, RequestPlayerToTeamUp, Requested, Reopen, Dismiss,
                HandleAccept, Tick, SpentInv
<1>2. CASE Dismissed
    <2>1. PICK p \in prompt : TimerEnded(p) /\ UNCHANGED <<rewarded, excused>>
        BY <1>2 DEF Dismissed
    <2>2. playing = FALSE /\ rewarded = FALSE
        BY <2>1, OnePrompt
    <2>3. CASE p.kind # "ad" \/ p.left > 0
        BY <2>1, <2>3 DEF TimerEnded, SpentInv
    <2>4. CASE ~(p.kind # "ad" \/ p.left > 0)
        <3>1. CASE playing' = TRUE
            BY <2>1, <2>2, <3>1 DEF SpentInv
        <3>2. CASE playing' = FALSE
            <4>1. ad' = ad /\ (loading' = FALSE => loading = FALSE)
                BY <2>1, <2>4, <3>2 DEF TimerEnded, TypeOK
            <4> QED BY <2>1, <2>2, <4>1 DEF SpentInv
        <3> QED BY <3>1, <3>2, TypeStep DEF TypeOK
    <2> QED BY <2>3, <2>4
<1>3. CASE Reward
    BY <1>3 DEF Reward, SpentInv
<1>4. CASE CloseAd
    <2>1. excused' = FALSE => excused = FALSE /\ rewarded = TRUE
        BY <1>4 DEF CloseAd, TypeOK
    <2>2. excused' \in BOOLEAN
        BY TypeStep DEF TypeOK
    <2> QED BY <1>4, <2>1, <2>2 DEF CloseAd, SpentInv
<1>5. CASE AdLoaded
    BY <1>5 DEF AdLoaded, SpentInv
<1>6. CASE LoadFailed
    BY <1>6 DEF LoadFailed, SpentInv
<1>7. CASE UNCHANGED vars
    BY <1>7 DEF vars, SpentInv
<1> QED BY <1>1, <1>2, <1>3, <1>4, <1>5, <1>6, <1>7 DEF Next

\* A used ad blocks the requests only after an ad was closed before its reward
\* or could not be loaded (AdController.showRequestsRewardAd).
THEOREM LockOutsExcused == Spec => []LockedOutExcused
<1>1. Init => TypeOK /\ SpentInv
    BY TypeInit DEF Init, SpentInv
<1>2. TypeOK /\ SpentInv /\ [Next]_vars => TypeOK' /\ SpentInv'
    BY TypeStep, SpentStep
<1>3. TypeOK /\ SpentInv => LockedOutExcused
    BY DEF TypeOK, SpentInv, LockedOutExcused, Idle
<1> QED BY <1>1, <1>2, <1>3, PTL DEF Spec
==============================================================================
