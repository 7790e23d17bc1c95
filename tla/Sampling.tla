------------------------------ MODULE Sampling ------------------------------
(***************************************************************************)
(* What the sender's sensor task puts into its packets, and the battery    *)
(* ADC it holds meanwhile: the loop of wgBME280_task, and bat_adc.c.  Any  *)
(* call of a driver may fail.  Module Sender has the task among the others;*)
(* this one has it alone.                                                  *)
(*                                                                         *)
(* A field of the sensor is known by the round that wrote it, 0 for what   *)
(* was on the stack.  The voltage is computed as the code does.            *)
(***************************************************************************)
EXTENDS Integers, Sequences, FiniteSetsExt

CONSTANTS
  SEND_PACKET,  \* 3 in the code
  Raws,         \* what adc_oneshot_read may return, 0 .. 4095
  Calibrated,   \* the chip has calibration data: {TRUE}, {FALSE} or both
  Garbage       \* what the voltage is on the stack, 16 bits

UINT16_MAX == 65535

ASSUME SamplingAssumption ==
  /\ SEND_PACKET \in Nat /\ Raws \subseteq 0 .. 4095
  /\ Calibrated \subseteq BOOLEAN /\ Garbage \in 0 .. UINT16_MAX

VARIABLES
  pc,             \* where the task is
  heap,           \* bat_adc_t is allocated
  unit, cali,     \* the ADC unit, the calibration scheme are taken
  do_calibration,
  packetCounter, analogVolts,
  payload,        \* the fields of the packet: who wrote them, and the voltage
  sent,           \* the packets given to the queue
  raws,           \* what the ADC returned
  failures        \* calls that have failed

adc == <<heap, unit, cali, do_calibration>>
samplingVars == <<pc, adc, packetCounter, analogVolts, payload, sent, raws, failures>>

SensorFields == {"temperature", "humidity", "pressure"}
PayloadFields == SensorFields \cup {"voltage"}
Calls == {"calloc", "new_unit", "config_channel", "read", "delete_cali", "delete_unit"}

(* The driver's calibration, and the divider of 1 M and 1.5 M.             *)
RawToVoltage(raw) == (raw * 4) \div 5
Divided(v) == ((v * 1667) \div 1000) % (UINT16_MAX + 1)

SamplingTypeOK ==
  /\ pc \in {"init", "unit", "channel", "read", "deinit", "ended"}
  /\ heap \in BOOLEAN /\ unit \in BOOLEAN /\ cali \in BOOLEAN /\ do_calibration \in BOOLEAN
  /\ packetCounter \in 0 .. SEND_PACKET /\ analogVolts \in Nat
  /\ payload.voltage \in 0 .. UINT16_MAX
  /\ \A f \in SensorFields : payload[f] \in 0 .. SEND_PACKET
  /\ Len(sent) = packetCounter /\ raws \subseteq Raws /\ failures \subseteq Calls

SamplingInit ==
  /\ pc = "init" /\ heap = FALSE /\ unit = FALSE /\ cali = FALSE /\ do_calibration = FALSE
  /\ packetCounter = 0 /\ analogVolts = 0
  /\ payload = [f \in PayloadFields |-> IF f = "voltage" THEN Garbage ELSE 0]
  /\ sent = <<>> /\ raws = {} /\ failures = {}

-----------------------------------------------------------------------------
Fails(call, next) == pc' = next /\ failures' = failures \cup {call}
Goes(next) == pc' = next /\ UNCHANGED failures

(* bat_adc_init, which returns at the first error with what it has.        *)
Allocate ==
  /\ pc = "init"
  /\ \/ Fails("calloc", "ended") /\ UNCHANGED heap
     \/ Goes("unit") /\ heap' = TRUE
  /\ UNCHANGED <<unit, cali, do_calibration, packetCounter, analogVolts, payload, sent, raws>>

NewUnit ==
  /\ pc = "unit"
  /\ \/ Fails("new_unit", "ended") /\ UNCHANGED unit
     \/ Goes("channel") /\ unit' = TRUE
  /\ UNCHANGED <<heap, cali, do_calibration, packetCounter, analogVolts, payload, sent, raws>>

ConfigChannel ==
  /\ pc = "channel"
  /\ \/ Fails("config_channel", "ended") /\ UNCHANGED <<cali, do_calibration>>
     \/ Goes("read") /\ do_calibration' \in Calibrated /\ cali' = do_calibration'
  /\ UNCHANGED <<heap, unit, packetCounter, analogVolts, payload, sent, raws>>

(* A round of the loop: the readings that fail leave their field as it was.*)
BatAdcRead(raw) == IF do_calibration THEN RawToVoltage(raw) ELSE raw

FieldsRead_Cleared(ok) == [f \in SensorFields |-> IF f \in ok THEN packetCounter + 1 ELSE 0]
FieldsRead(ok) == [f \in SensorFields |-> IF f \in ok THEN packetCounter + 1 ELSE payload[f]]

Mean(sum) == sum \div (packetCounter + 1)

MoreRounds == packetCounter < SEND_PACKET

Round(fields, voltage) ==
  /\ payload' = [f \in PayloadFields |-> IF f = "voltage" THEN voltage ELSE fields[f]]
  /\ sent' = Append(sent, payload')
  /\ packetCounter' = packetCounter + 1

Sample ==
  /\ pc = "read" /\ MoreRounds
  /\ \E ok \in SUBSET SensorFields :
       \/ /\ Round(FieldsRead(ok), payload.voltage) /\ Fails("read", "read")
          /\ UNCHANGED <<analogVolts, raws>>
       \/ \E raw \in Raws :
            /\ analogVolts' = analogVolts + BatAdcRead(raw) /\ raws' = raws \cup {raw}
            /\ Round(FieldsRead(ok), Divided(Mean(analogVolts')))
            /\ Goes("read")
  /\ UNCHANGED adc

AllSampled ==
  /\ pc = "read" /\ ~MoreRounds
  /\ Goes("deinit")
  /\ UNCHANGED <<adc, packetCounter, analogVolts, payload, sent, raws>>

(* bat_adc_deinit, which goes on after an error and forgets the handle.    *)
Deinit_StopsAtError ==
  /\ pc = "deinit" /\ pc' = "ended" /\ heap' = FALSE
  /\ \E errors \in SUBSET {"delete_cali", "delete_unit"} :
       /\ "delete_cali" \in errors => cali
       /\ cali' = (cali /\ "delete_cali" \in errors)
       /\ unit' = (unit /\ errors # {})
       /\ failures' = failures \cup errors
  /\ UNCHANGED <<do_calibration, packetCounter, analogVolts, payload, sent, raws>>
Deinit ==
  /\ pc = "deinit" /\ pc' = "ended" /\ heap' = FALSE
  /\ \E errors \in SUBSET {"delete_cali", "delete_unit"} :
       /\ "delete_cali" \in errors => cali
       /\ cali' = (cali /\ "delete_cali" \in errors)
       /\ unit' = (unit /\ "delete_unit" \in errors)
       /\ failures' = failures \cup errors
  /\ UNCHANGED <<do_calibration, packetCounter, analogVolts, payload, sent, raws>>

SamplingNext == Allocate \/ NewUnit \/ ConfigChannel \/ Sample \/ AllSampled \/ Deinit

SamplingSpec == SamplingInit /\ [][SamplingNext]_samplingVars

-----------------------------------------------------------------------------
(* A field of a packet is never older than in the packet before, and what  *)
(* was on the stack is sent only until the first reading (main.c:180-202). *)
FieldsNeverGoBack ==
  \A i \in DOMAIN sent : \A f \in SensorFields :
    /\ sent[i][f] <= i
    /\ i > 1 => sent[i][f] >= sent[i - 1][f]

(* As long as no reading of the ADC fails, the voltage of every packet lies*)
(* between those that the extreme readings stand for.  After a failure it  *)
(* may lie below: the sum is divided by the packets, not the readings.     *)
VoltageInRange ==
  \A i \in DOMAIN sent :
    /\ "read" \notin failures => sent[i].voltage >= Divided(BatAdcRead(Min(raws)))
    /\ raws # {} /\ sent[i].voltage # Garbage =>
         sent[i].voltage <= Divided(BatAdcRead(Max(raws)))

(* What the sensor task sends is what it has last read, or near to it      *)
(* (main.c:180-202).                                                       *)
SamplesAreTrue == FieldsNeverGoBack /\ VoltageInRange

(* What the task still holds when it ends, it holds because of a call that *)
(* failed: an error in the middle of bat_adc_init, or of a release, and    *)
(* none of one release keeps back what another one holds                   *)
(* (bat_adc.c:100-145).                                                    *)
HeldOnlyAfterFailure ==
  pc = "ended" =>
    /\ heap => failures \cap {"new_unit", "config_channel"} # {}
    /\ unit => failures \cap {"config_channel", "delete_unit"} # {}
    /\ cali => "delete_cali" \in failures
=============================================================================
