-------------------------- MODULE MCConfiguration ---------------------------
(***************************************************************************)
(* Constants of the run of Configuration: specifications that differ in    *)
(* what is set, what is wrong, and what the detectors look for.            *)
(***************************************************************************)
EXTENDS Configuration

CONSTANTS p1, p2, front, first, second, Bad_Name, kv, long_name,
          prom, unparsable, query, code, podname, v200, v500

NoActivator == [mode |-> Nil, period |-> Nil, maxRetryCount |-> Nil, maxPauseCount |-> Nil]
KillActivator == [mode |-> "retryAndKill", period |-> 2000, maxRetryCount |-> Nil,
                  maxPauseCount |-> Nil]
PauseActivator == [mode |-> "retryAndPause", period |-> 2000, maxRetryCount |-> 0,
                   maxPauseCount |-> 2]
\* A mode nobody knows.
OtherActivator == [PauseActivator EXCEPT !.mode = "other"]

\* Only what the validation asks for.
Codes == [prometheusService |-> prom, promQL |-> query, key |-> code,
          podNameKey |-> podname, goodValues |-> {v200}, badValues |-> {},
          tolerancePercent |-> Nil, minimumActivityCount |-> Nil]
Times == [prometheusService |-> prom, promQL |-> query, podNameKey |-> podname,
          maxDeviationPercent |-> Nil]

Breaker(discrete, continuous) ==
  [name |-> first, evaluationPeriod |-> Nil, minPodsAvailableCount |-> Nil,
   minPodsAvailableRatio |-> Nil, discrete |-> discrete, continuous |-> continuous,
   customService |-> Nil, activator |-> Nil]

OnCodes == Breaker(Codes, Nil)
OnTimes == Breaker(Nil, Times)

\* A ratio of pods and no count: the test for defaults is satisfied.
ByRatio == [OnCodes EXCEPT !.evaluationPeriod = 1000, !.minPodsAvailableRatio = 50,
              !.discrete.tolerancePercent = 20, !.discrete.minimumActivityCount = 1]

Breakers ==
  {OnCodes, OnTimes, ByRatio,
   [OnCodes EXCEPT !.discrete.goodValues = {}, !.discrete.badValues = {v500},
                   !.discrete.tolerancePercent = 0, !.discrete.minimumActivityCount = 0],
   [ByRatio EXCEPT !.discrete.minimumActivityCount = Nil],
   [OnTimes EXCEPT !.continuous.maxDeviationPercent = 0],
   \* An amount of 20 is on the bound of this one, 9 and 200 are beyond.
   [OnTimes EXCEPT !.continuous.maxDeviationPercent = 80, !.activator = KillActivator],
   [OnCodes EXCEPT !.activator = KillActivator],
   [OnCodes EXCEPT !.activator = PauseActivator],
   [Breaker(Nil, Nil) EXCEPT !.customService = prom, !.activator = OtherActivator],
   [OnCodes EXCEPT !.discrete.prometheusService = unparsable],
   \* Refused:
   Breaker(Nil, Nil), Breaker(Codes, Times),
   [OnCodes EXCEPT !.name = Bad_Name],
   [OnCodes EXCEPT !.evaluationPeriod = 10],
   [OnCodes EXCEPT !.discrete.badValues = {v500}],
   [OnTimes EXCEPT !.continuous.promQL = Nil]}

Service(name, breakers, activator) ==
  [service |-> name, breakers |-> breakers, defaultActivator |-> activator]

Other(b) == [b EXCEPT !.name = second]

MCUserSpecs ==
  {Service(front, <<b>>, NoActivator) : b \in Breakers}
  \cup {Service(front, <<OnCodes>>, KillActivator),
        Service(front, <<ByRatio>>, [DefaultActivatorStrategy(NoActivator) EXCEPT !.mode = Nil]),
        Service(front, <<OnCodes, Other(OnTimes)>>, NoActivator),
        Service(front, <<Other(OnTimes), OnCodes>>, NoActivator),
        Service(front, <<OnCodes, OnTimes>>, NoActivator),
        Service(Bad_Name, <<OnCodes>>, NoActivator),
        Service(front, <<>>, NoActivator)}

MCSamples == [pod : Pods, value : {v200, v500}, amount : {9, 20, 200}]
=============================================================================
