-------------------------------- MODULE AdGate --------------------------------
(***************************************************************************)
(* The ad after every third teammate request (PlayersViewController,       *)
(* PromptUserViewController, AdController).                                *)
(*                                                                         *)
(* A prompt counts down, or is dismissed, and has to decide when it is     *)
(* gone which of the two it was; the screen below remembers in one         *)
(* variable what its prompt was about.  An ad can be presented once.       *)
(***************************************************************************)
EXTENDS Integers

CONSTANTS
    Free,         \* requests between two ads: 3
    Seconds,      \* length of the countdown: 3
    MaxRequests   \* bound: requests counted

ASSUME AdGateConstants ==
    /\ Free \in Nat \ {0} /\ Seconds \in Nat \ {0, 1}
    /\ MaxRequests \in Nat /\ Free < MaxRequests

VARIABLES
    requestsCount,
    ad,             \* the ad in memory: none, ready, or presented once (spent)
    loading,        \* an ad has been asked for
    answers,        \* requests of this screen whose callbacks are to come
    prompted,       \* alreadyPromptedForNotifications
    registered,     \* notifications are allowed
    actionPrompt,   \* what the prompt is about, as the screen remembers it
    prompt,         \* the prompt on the screen, if there is one
    playing,        \* an ad is on the screen
    rewarded,       \* ... and its reward has been given
    rooted,         \* the tab bar SceneDelegate remembers is on the screen: the
                    \* app was started signed in, and nobody signed out since
    refused,        \* history: the prompt was dismissed with 2 s or more to go
    excused         \* history: since the last ad was loaded, one was closed
                    \* early or a load failed

screen == <<answers, prompted, actionPrompt>>
vars == <<requestsCount, ad, loading, screen, registered, prompt, playing,
          rewarded, rooted, refused, excused>>

------------------------------------------------------------------------------

Kind == {"ad", "notifications"}

\* left: the timer's time; leaving: handleDismiss has begun its animation;
\* late: the timer fired during it (the animation is shorter than its period).
Prompt == [kind : Kind, left : 0..Seconds, leaving : BOOLEAN, late : BOOLEAN]

TypeOK ==
    /\ requestsCount \in 0..MaxRequests
    /\ ad \in {"none", "ready", "spent"}
    /\ loading \in BOOLEAN /\ prompted \in BOOLEAN /\ registered \in BOOLEAN
    /\ playing \in BOOLEAN /\ rewarded \in BOOLEAN /\ rooted \in BOOLEAN
    /\ refused \in BOOLEAN /\ excused \in BOOLEAN
    /\ answers \in 0..MaxRequests
    /\ actionPrompt \in Kind \cup {"nil"}
    /\ prompt \in {{}} \cup {{p} : p \in Prompt}
    /\ playing => prompt = {}
    /\ rewarded => playing

\* The app is started, which asks for an ad, and the screen opened.
Init ==
    /\ requestsCount = 0
    /\ ad = "none" /\ loading = TRUE
    /\ answers = 0 /\ prompted = FALSE
    /\ registered \in BOOLEAN /\ rooted \in BOOLEAN
    /\ actionPrompt = "nil" /\ prompt = {}
    /\ playing = FALSE /\ rewarded = FALSE
    /\ refused = FALSE /\ excused = FALSE

------------------------------------------------------------------------------
(* Requests *)

Idle == prompt = {} /\ ~playing

\* What is presented while something is, is not shown at all.
Present(kind) ==
    prompt' = IF Idle THEN {[kind |-> kind, left |-> Seconds, leaving |-> FALSE,
                             late |-> FALSE]}
              ELSE prompt

\* Mutant: the prompt of the ad does not hold back that of the notifications.
PromptForAdAlone ==
    /\ Present("ad")
    /\ actionPrompt' = "ad"
    /\ refused' = FALSE
    /\ UNCHANGED prompted

PromptForAd ==
    /\ Present("ad")
    /\ actionPrompt' = "ad"
    /\ refused' = FALSE
    /\ prompted' = TRUE

\* requestTapped.
RequestGated ==
    /\ Idle
    /\ requestsCount >= Free /\ ad # "none"
    /\ PromptForAd
    /\ UNCHANGED <<requestsCount, ad, loading, answers, registered, playing,
                   rewarded, excused, rooted>>

RequestPlayerToTeamUp ==
    /\ Idle
    /\ requestsCount < Free \/ ad = "none"
    /\ requestsCount < MaxRequests /\ answers < MaxRequests
    /\ requestsCount' = requestsCount + 1
    /\ answers' = answers + 1
    /\ UNCHANGED <<ad, loading, prompted, registered, actionPrompt, prompt,
                   playing, rewarded, refused, excused, rooted>>

\* The request has been made: the first one asks for notifications, whatever is
\* on the screen by now.
Requested ==
    /\ answers > 0
    /\ answers' = answers - 1
    /\ IF registered \/ prompted
       THEN UNCHANGED <<prompted, actionPrompt, prompt>>
       ELSE /\ Present("notifications")
            /\ actionPrompt' = "notifications"
            /\ prompted' = TRUE
    /\ UNCHANGED <<requestsCount, ad, loading, registered, playing, rewarded,
                   refused, excused, rooted>>

\* The screen is left, and another one opened.
Reopen ==
    /\ Idle
    /\ answers' = 0 /\ prompted' = FALSE /\ actionPrompt' = "nil"
    /\ UNCHANGED <<requestsCount, ad, loading, registered, prompt, playing,
                   rewarded, refused, excused, rooted>>

------------------------------------------------------------------------------
(* The prompt *)

\* handleDismiss by the user: while the prompt moves it takes no taps.
Dismiss ==
    \E p \in prompt :
        /\ ~p.leaving
        /\ prompt' = {[p EXCEPT !.leaving = TRUE]}
        /\ refused' = (p.kind = "ad" /\ p.left > 1)
        /\ UNCHANGED <<requestsCount, ad, loading, screen, registered, playing,
                       rewarded, excused, rooted>>

\* handleAccept: the button of an ad's prompt is disabled.
HandleAccept ==
    \E p \in prompt :
        /\ ~p.leaving /\ p.kind = "notifications"
        /\ prompt' = {[p EXCEPT !.leaving = TRUE]}
        /\ registered' \in IF actionPrompt = "notifications" THEN BOOLEAN
                           ELSE {registered}
        /\ UNCHANGED <<requestsCount, ad, loading, screen, playing, rewarded,
                       refused, excused, rooted>>

\* Mutant: the timer is not stopped at 0.
TickPastZero ==
    \E p \in prompt :
        /\ p.kind = "ad" /\ ~p.late
        /\ prompt' = {[p EXCEPT !.left = @ - 1, !.late = p.leaving]}
        /\ UNCHANGED <<requestsCount, ad, loading, screen, registered, playing,
                       rewarded, refused, excused, rooted>>

\* The timer of setTimer, once a second: past 0 it dismisses the prompt (and
\* that of a prompt that is leaving already has no further effect).
Tick ==
    \E p \in prompt :
        /\ p.kind = "ad" /\ ~p.late
        /\ \/ /\ p.left > 0
              /\ prompt' = {[p EXCEPT !.left = @ - 1, !.late = p.leaving]}
           \/ /\ p.left = 0
              /\ prompt' = {[p EXCEPT !.leaving = TRUE, !.late = p.leaving]}
        /\ UNCHANGED <<requestsCount, ad, loading, screen, registered, playing,
                       rewarded, refused, excused, rooted>>

\* Mutant: called however much time is left.
TimerEndedAlways(p) ==
    /\ playing' = (ad = "ready" /\ actionPrompt = "ad" /\ rooted)
    /\ ad' = IF playing' THEN "spent" ELSE ad
    /\ loading' = (loading \/ ad = "none")
    /\ actionPrompt' = "nil"

\* timerEnded, called if no time is left when the prompt is gone.  An ad that
\* was presented before is not presented again.
TimerEnded(p) ==
    IF p.kind # "ad" \/ p.left > 0
    THEN UNCHANGED <<playing, ad, actionPrompt, loading>>
    ELSE /\ playing' = (ad = "ready" /\ actionPrompt = "ad" /\ rooted)
         /\ ad' = IF playing' THEN "spent" ELSE ad
         /\ loading' = (loading \/ ad = "none")
         /\ actionPrompt' = "nil"

Dismissed ==
    \E p \in prompt :
        /\ p.leaving
        /\ prompt' = {}
        /\ TimerEnded(p)
        /\ UNCHANGED <<requestsCount, answers, prompted, registered, rewarded,
                       refused, excused, rooted>>

------------------------------------------------------------------------------
(* The ad *)

\* Mutant: the next ad is not asked for.
RewardOnly ==
    /\ playing /\ ~rewarded
    /\ rewarded' = TRUE
    /\ requestsCount' = 0
    /\ UNCHANGED <<ad, loading, screen, registered, prompt, playing, refused,
                   excused, rooted>>

\* The reward handler of showRequestsRewardAd.
Reward ==
    /\ playing /\ ~rewarded
    /\ rewarded' = TRUE
    /\ requestsCount' = 0
    /\ loading' = TRUE
    /\ UNCHANGED <<ad, screen, registered, prompt, playing, refused, excused,
                   rooted>>

\* The ad may be closed before the reward is given.
CloseAd ==
    /\ playing
    /\ playing' = FALSE
    /\ rewarded' = FALSE
    /\ excused' = (excused \/ ~rewarded)
    /\ UNCHANGED <<requestsCount, ad, loading, screen, registered, prompt,
                   refused, rooted>>

\* loadRewardedInterstitialAd ends; after an error the old ad stays.
AdLoaded ==
    /\ loading
    /\ loading' = FALSE
    /\ ad' = "ready"
    /\ excused' = FALSE
    /\ UNCHANGED <<requestsCount, screen, registered, prompt, playing, rewarded,
                   refused, rooted>>

LoadFailed ==
    /\ loading
    /\ loading' = FALSE
    /\ excused' = TRUE
    /\ UNCHANGED <<requestsCount, ad, screen, registered, prompt, playing,
                   rewarded, refused, rooted>>

Next ==
    \/ RequestGated \/ RequestPlayerToTeamUp \/ Requested \/ Reopen
    \/ Dismiss \/ HandleAccept \/ Tick \/ Dismissed
    \/ Reward \/ CloseAd \/ AdLoaded \/ LoadFailed

Spec == Init /\ [][Next]_vars

------------------------------------------------------------------------------
(* Properties *)

\* The screen knows which prompt it shows: a request that is answered while the
\* prompt of the ad is up does not make it forget (timerEnded would skip the
\* ad).
PromptMatches == \A p \in prompt : actionPrompt = p.kind

\* "No thanks" is respected with two seconds or more to go.  With less it may
\* not be: timerEnded is called whenever the time is 0 when the prompt is gone,
\* and the timer runs on while it goes.
NoAdAfterRefusal == playing => ~refused

\* Nobody is kept from sending requests by an ad that cannot be shown, unless
\* an ad was closed before its reward, or could not be loaded.
LockedOutExcused ==
    Idle /\ requestsCount >= Free /\ ad = "spent" /\ ~loading => excused

\* "View this ad to be able to send more teammate requests": there is an ad that
\* can be viewed, now or soon.
AdCanBeViewed ==
    Idle /\ requestsCount >= Free /\ ~loading =>
        ad = "none" \/ (ad = "ready" /\ rooted)
==============================================================================
