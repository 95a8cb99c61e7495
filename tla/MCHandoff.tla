----------------------------- MODULE MCHandoff -----------------------------
EXTENDS HandoffRobot

\* One ordinary bundle and variations of it, one or two parameters at a time.
Budgets == [s \in Steps |-> 6]

Ordinary ==
    [place |-> [start |-> 0, staging |-> 3, station |-> 6, charge |-> 2],
     budget |-> Budgets, obstacle |-> None, trigger |-> 3, stopping |-> 2, braking |-> 3,
     guideDepth |-> 1, alignment |-> 1, verifying |-> 1, recovering |-> 1, dwell |-> 1,
     guide |-> TRUE, fits |-> TRUE, inletHeight |-> 2, halfGap |-> 1, capture |-> 2,
     captureYaw |-> 2, maxLateral |-> 1, maxYaw |-> 1,
     liftTravel |-> 2, liftTarget |-> 2, maxAngle |-> 3, dumpAngle |-> 3, requiredAngle |-> 3,
     tips |-> FALSE,
     initialError |-> [lateral |-> 2, longitudinal |-> 1, yaw |-> -2],
     noise |-> {[lateral |-> 0, yaw |-> 0]},
     recovers |-> {TRUE},
     unloads |-> [meets \in BOOLEAN |-> {meets}],
     force |-> [dock |-> 0, verify |-> 0, unload |-> 0, recovery |-> 0],
     dockingRetries |-> 2, dumpRetries |-> 1]

Noise == [lateral : {-2, 0, 3}, yaw : {-2, 0, 3}]
Slow(s) == [Ordinary EXCEPT !.budget[s] = 0]

Varied ==
    {Ordinary} \cup {Slow(s) : s \in Steps \ {"retract_lower", "retract_undock"}}
    \cup {[Slow(s) EXCEPT !.tips = TRUE] : s \in {"lower", "undock"}}
    \cup {[Ordinary EXCEPT !.noise = Noise, !.recovers = BOOLEAN, !.guide = g,
                           !.dockingRetries = n] : g \in BOOLEAN, n \in 0 .. 2}
    \cup {[Ordinary EXCEPT !.initialError.longitudinal = 12]}
    \cup {[Ordinary EXCEPT !.unloads = [meets \in BOOLEAN |-> BOOLEAN], !.dumpAngle = a,
                           !.dumpRetries = n] : a \in {0, 2, 3, 4}, n \in 0 .. 2}
    \cup {[Ordinary EXCEPT !.liftTarget = h] : h \in {0, 3}}
    \cup {[Ordinary EXCEPT !.fits = FALSE], [Ordinary EXCEPT !.inletHeight = 3],
          [Ordinary EXCEPT !.tips = TRUE]}
    \cup {[Ordinary EXCEPT !.force = [dock |-> d, verify |-> v, unload |-> u, recovery |-> r]] :
             d \in 0 .. 1, v \in 0 .. 1, u \in 0 .. 2, r \in 0 .. 1}
    \cup {[Ordinary EXCEPT !.obstacle = o, !.stopping = s,
                           !.budget["approach_handoff_station"] = b,
                           !.budget["return_to_charge"] = c] :
             o \in {1, 3, 4, 6, 7, 9, 12}, s \in 2 .. 3, b \in {2, 3, 6}, c \in {2, 6}}
=============================================================================
