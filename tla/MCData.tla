------------------------------- MODULE MCData -------------------------------
(***************************************************************************)
(* One run for the parts whose subject is data and its representation: the *)
(* days that the server keeps, the files and tags of its pages, what the   *)
(* sender samples, the bytes of a packet, the text of a line.  They have   *)
(* nothing to do with each other: the first state chooses one of them, the *)
(* others stay in one of their initial states.                             *)
(***************************************************************************)
EXTENDS DataSets, Assets, Sampling, Frame, Lines

VARIABLE subject

(* An ordinary reading, and for each field the values at the ends of its   *)
(* range, of its sign and of its bytes.                                    *)
Ordinary == [temperature |-> 2345, humidity |-> 5678, pressure |-> 101325, voltage |-> 3300]

MCMeasurements ==
  {Ordinary} \cup {[Ordinary EXCEPT !.temperature = t] : t \in {-1, -5000, -5001, 9001}}
    \cup {[Ordinary EXCEPT !.humidity = h] : h \in {0, 10001}}
    \cup {[Ordinary EXCEPT !.pressure = p] : p \in {29999, 65536, 120000, 120001}}
    \cup {[Ordinary EXCEPT !.voltage = v] : v \in {255, 256, 5000, 5001}}

(* Signs, zeroes, and numbers of one to six digits.                        *)
MCPrinted ==
  {<<t, h, p, v>> : t \in {-1, 0, 2345, -4000}, h \in {0, 10000}, p \in {99819, 101325},
                    v \in {0, 7, 3300}}

MCInit ==
  /\ subject \in {"data sets", "assets", "sampling", "frame", "lines"}
  /\ Init /\ AssetsInit /\ SamplingInit /\ FrameInit /\ LineInit
  /\ subject # "data sets" => now = Min(Hours)
  /\ subject # "frame" => packed = Ordinary
  /\ subject # "lines" => logged = <<>>

KeepData == UNCHANGED vars
KeepAssets == UNCHANGED assetsVars
KeepSampling == UNCHANGED samplingVars
KeepFrame == UNCHANGED frameVars
KeepLines == UNCHANGED lineVars

RunData ==
  /\ subject = "data sets" /\ Next
  /\ KeepAssets /\ KeepSampling /\ KeepFrame /\ KeepLines /\ UNCHANGED subject
RunAssets ==
  /\ subject = "assets" /\ AssetsNext
  /\ KeepData /\ KeepSampling /\ KeepFrame /\ KeepLines /\ UNCHANGED subject
RunSampling ==
  /\ subject = "sampling" /\ SamplingNext
  /\ KeepData /\ KeepAssets /\ KeepFrame /\ KeepLines /\ UNCHANGED subject
RunFrame ==
  /\ subject = "frame" /\ FrameNext
  /\ KeepData /\ KeepAssets /\ KeepSampling /\ KeepLines /\ UNCHANGED subject
RunLines ==
  /\ subject = "lines" /\ LineNext
  /\ KeepData /\ KeepAssets /\ KeepSampling /\ KeepFrame /\ UNCHANGED subject

MCNext == RunData \/ RunAssets \/ RunSampling \/ RunFrame \/ RunLines

MCSpec ==
  MCInit /\ [][MCNext]_<<subject, vars, assetsVars, samplingVars, frameVars, lineVars>>

(* The variables of all five keep their types.                             *)
TypesOK == TypeOK /\ AssetsTypeOK /\ SamplingTypeOK /\ FrameTypeOK /\ LineTypeOK
=============================================================================
