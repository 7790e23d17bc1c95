---------------------------- MODULE MCPrograms ----------------------------
(***************************************************************************)
(* One run for the three programs that have nothing to do with each other  *)
(* and whose state spaces are small: the first state chooses which of them *)
(* is looked at, the other two stay in their initial states.  Server and   *)
(* Sketch are extended, so that their properties are checked as they are   *)
(* proved; EasyServer, which shares names with Server, is instantiated.    *)
(***************************************************************************)
EXTENDS Server, Sketch

CONSTANT MaxLines

ASSUME MaxLinesAssumption == MaxLines \in Nat

VARIABLES
  program,  \* the one that is looked at
  easySerial, easyPort, easyMain, easySignalled, histogram, update, push, pushed

easyVars == <<easySerial, easyPort, easyMain, easySignalled, histogram, update, push, pushed>>

Easy == INSTANCE EasyServer WITH serial <- easySerial, port <- easyPort,
                                 main <- easyMain, signalled <- easySignalled

MCInit ==
  /\ program \in {"server", "easy_server", "sketch"}
  /\ Init /\ Easy!Init /\ SketchInit

RunServer == program = "server" /\ Next /\ UNCHANGED <<program, easyVars, sketchVars>>
RunEasyServer == program = "easy_server" /\ Easy!Next /\ UNCHANGED <<program, vars, sketchVars>>
RunSketch == program = "sketch" /\ SketchNext /\ UNCHANGED <<program, vars, easyVars>>

MCNext == RunServer \/ RunEasyServer \/ RunSketch

(* Each program's own fairness.  That of Server asks nothing of a server   *)
(* that is not started.                                                    *)
ServerFairness ==
  /\ WF_vars(MainStep) /\ WF_vars(NotifyExit) /\ WF_vars(Restart)
  /\ WF_vars(UdpStep) /\ WF_vars(SerialStep) /\ WF_vars(MqttStep)
  /\ WF_vars(StatsStep) /\ WF_vars(HttpStep)

EasyFairness ==
  LET Chosen(A) == program = "easy_server" /\ A
  IN  /\ WF_easyVars(Chosen(Easy!Setup)) /\ WF_easyVars(Chosen(Easy!SerialStep))
      /\ WF_easyVars(Chosen(Easy!Return))
      /\ \A f \in Easy!Fields : /\ WF_easyVars(Chosen(Easy!Observe(f)))
                                /\ WF_easyVars(Chosen(Easy!WriteHistogram(f)))

MCSpec ==
  /\ MCInit /\ [][MCNext]_<<program, vars, easyVars, sketchVars>>
  /\ ServerFairness /\ EasyFairness
  /\ WF_sketchVars(program = "sketch" /\ SketchNext)

(* The variables of all three keep their types.                            *)
TypesOK == TypeOK /\ Easy!TypeOK /\ SketchTypeOK

(* What easy_server pushes is at most one reading out of step.             *)
PushNearlyComplete == Easy!PushNearlyComplete

(* Both servers end once they are told to, or once a member of the group   *)
(* has failed; only a serial port that says nothing can hold them up       *)
(* (main.go:137-146, easy_server/main.go:123-154).                         *)
EndWhenTold == EndsWhenDone /\ Easy!EndsWhenSignalled
=============================================================================
