------------------------------- MODULE Sketch -------------------------------
(***************************************************************************)
(* sketch_bme280, the older sender: setup() runs once after each wake-up,  *)
(* reads the sensor, broadcasts five packets by UDP and goes to deep sleep;*)
(* when the sensor or the network fails, it blinks an error first.         *)
(*                                                                         *)
(* Time is in units of the shortest blink.  Only waiting takes time.  A    *)
(* voltage is what the ADC reads: the factor of the divider is left out.   *)
(* loop() is empty, and a wake-up begins with nothing of the run before.   *)
(***************************************************************************)
EXTENDS Naturals, FiniteSetsExt

CONSTANTS
  Volts,          \* what the ADC may read
  PacketsCount,   \* PACKETS_COUNT, 5 in the code
  ShortBlink, LongBlink, ErrorPause,  \* ErrorIndicator's times: 1, 4 and 10 units
  ErrorTimeout,   \* timeoutLength, 150 units
  ConnectTimeout, \* WAIT_STATUS_TIMEOUT, 25 units
  MaxSum          \* bound: the sum of the readings stays there

ASSUME SketchAssumption ==
  /\ Volts \subseteq Nat /\ PacketsCount \in Nat \ {0}
  /\ ShortBlink \in Nat /\ LongBlink \in Nat /\ ErrorPause \in Nat
  /\ ErrorTimeout \in Nat /\ ConnectTimeout \in Nat /\ MaxSum \in Nat
  /\ \A v \in Volts : PacketsCount * v <= MaxSum

VARIABLES
  pc,             \* where setup() is
  clock,          \* millis()
  sensor,         \* the power pin of the BME280 is high
  wire,           \* the I2C bus is in use
  radio,          \* the Wi-Fi is on
  stuck,          \* history: what a failed call has left on, "wire" or "radio"
  led,            \* the LED shines
  packetCounter, analogVolts, voltage,  \* of sendDataTask
  readings,       \* what the ADC has returned
  failed,         \* the last send failed
  retried,        \* some send failed
  errorCode, blinkCount, ledState, lastBlinkTime, start,  \* of ErrorIndicator
  flashes         \* how often the LED has been lit in this series

power == <<sensor, wire, radio, stuck>>
sampling == <<packetCounter, analogVolts, voltage, readings, failed, retried>>
blinking == <<errorCode, blinkCount, ledState, lastBlinkTime, start, flashes>>
sketchVars == <<pc, clock, led, power, sampling, blinking>>

BME280_Init_Failed == 1
WiFi_Connection_Failed == 2

SketchTypeOK ==
  /\ pc \in {"begin", "wifi", "read", "send", "flush", "blink", "wifiEnd", "bmeEnd",
             "sleep", "asleep"}
  /\ clock \in Nat /\ lastBlinkTime \in 0 .. clock /\ start \in 0 .. clock
  /\ sensor \in BOOLEAN /\ wire \in BOOLEAN /\ radio \in BOOLEAN /\ led \in BOOLEAN
  /\ stuck \subseteq {"wire", "radio"}
  /\ packetCounter \in 0 .. PacketsCount /\ analogVolts \in Nat /\ voltage \in Nat
  /\ readings \subseteq Volts /\ failed \in BOOLEAN /\ retried \in BOOLEAN
  /\ errorCode \in 0 .. 2 /\ blinkCount \in 0 .. errorCode
  /\ ledState \in BOOLEAN /\ flashes \in Nat

SketchInit ==
  /\ pc = "begin" /\ clock = 0 /\ led = FALSE
  /\ sensor = FALSE /\ wire = FALSE /\ radio = FALSE /\ stuck = {}
  /\ packetCounter = 0 /\ analogVolts = 0 /\ voltage = 0 /\ readings = {}
  /\ failed = FALSE /\ retried = FALSE
  /\ errorCode = 0 /\ blinkCount = 0 /\ ledState = FALSE
  /\ lastBlinkTime = 0 /\ start = 0 /\ flashes = 0

-----------------------------------------------------------------------------
(* handleCriticalError, up to its loop: the LED is off, nothing counted.   *)
CriticalError(error, now) ==
  /\ pc' = "blink" /\ led' = FALSE
  /\ errorCode' = error /\ blinkCount' = 0 /\ ledState' = FALSE
  /\ lastBlinkTime' = 0 /\ start' = now /\ flashes' = 0

(* Whether Wire.end, or the two calls that switch the Wi-Fi off, failed is *)
(* not looked at.                                                          *)
Off(x, on, on_) ==
  \/ on_ = FALSE /\ UNCHANGED stuck
  \/ on_ = on /\ stuck' = IF on THEN stuck \cup {x} ELSE stuck

(* BME280Handler::begin, which switches the sensor off again if it fails:  *)
(* with the bus in use or not.                                             *)
BmeBegin_LeftOn ==
  /\ pc = "begin"
  /\ sensor' = TRUE /\ wire' = TRUE /\ UNCHANGED stuck
  /\ \/ pc' = "wifi" /\ UNCHANGED <<led, blinking>>
     \/ CriticalError(BME280_Init_Failed, clock)
  /\ UNCHANGED <<clock, radio, sampling>>
BmeBegin ==
  /\ pc = "begin"
  /\ \/ pc' = "wifi" /\ sensor' = TRUE /\ wire' = TRUE /\ UNCHANGED <<stuck, led, blinking>>
     \/ /\ CriticalError(BME280_Init_Failed, clock) /\ sensor' = FALSE
        /\ \E begun \in BOOLEAN : Off("wire", begun, wire')
  /\ UNCHANGED <<clock, radio, sampling>>

(* WiFiHandler::begin: a step of the set-up fails, or there is no          *)
(* connection in time, or there is one.                                    *)
WiFiBegin ==
  /\ pc = "wifi"
  /\ \/ /\ radio' \in BOOLEAN /\ clock' = clock
        /\ CriticalError(WiFi_Connection_Failed, clock)
     \/ /\ radio' = TRUE /\ clock' = clock + ConnectTimeout
        /\ CriticalError(WiFi_Connection_Failed, clock')
     \/ /\ radio' = TRUE /\ clock' \in {clock, clock + ConnectTimeout}
        /\ pc' = "read" /\ led' = TRUE /\ UNCHANGED blinking
  /\ UNCHANGED <<sensor, wire, stuck, sampling>>

(* sendDataTask: a reading that is not a number ends it ...                *)
Read_OfAllPackets ==
  /\ pc = "read"
  /\ \/ pc' = "flush" /\ UNCHANGED sampling
     \/ \E v \in Volts :
          /\ analogVolts' = Min({analogVolts + v, MaxSum})
          /\ voltage' = analogVolts' \div PacketsCount
          /\ readings' = readings \cup {v}
          /\ pc' = "send" /\ UNCHANGED <<packetCounter, failed, retried>>
  /\ UNCHANGED <<clock, led, power, blinking>>
Read ==
  /\ pc = "read"
  /\ \/ pc' = "flush" /\ UNCHANGED sampling
     \/ \E v \in Volts :
          /\ analogVolts' = Min({analogVolts + v, MaxSum})
          /\ voltage' = analogVolts' \div (packetCounter + 1)
          /\ readings' = readings \cup {v}
          /\ pc' = "send" /\ UNCHANGED <<packetCounter, failed, retried>>
  /\ UNCHANGED <<clock, led, power, blinking>>

(* ... and a packet that was not sent is read again, for as long as it     *)
(* takes, and not counted.                                                 *)
Send ==
  /\ pc = "send"
  /\ failed' \in BOOLEAN /\ retried' = (retried \/ failed')
  /\ packetCounter' = IF failed' THEN packetCounter ELSE packetCounter + 1
  /\ pc' = IF packetCounter' = PacketsCount THEN "flush" ELSE "read"
  /\ UNCHANGED <<clock, led, power, blinking, analogVolts, voltage, readings>>

Flush ==
  /\ pc = "flush" /\ pc' = "wifiEnd"
  /\ UNCHANGED <<clock, led, power, sampling, blinking>>

-----------------------------------------------------------------------------
(* ErrorIndicator::update, over and over: a series begins after a pause ...*)
Since(t) == clock - lastBlinkTime >= t

NewSeries ==
  /\ blinkCount = 0 /\ Since(ErrorPause)
  /\ blinkCount' = errorCode /\ ledState' = TRUE /\ flashes' = 1
  /\ lastBlinkTime' = clock

(* ... and has a flash, then a dark while, for each of its blinks.         *)
Toggle_CountsLit ==
  /\ blinkCount > 0 /\ Since(IF ledState THEN ShortBlink ELSE LongBlink)
  /\ ledState' = ~ledState /\ lastBlinkTime' = clock
  /\ blinkCount' = IF ledState' THEN blinkCount - 1 ELSE blinkCount
  /\ flashes' = IF ledState' THEN flashes + 1 ELSE flashes
Toggle ==
  /\ blinkCount > 0 /\ Since(IF ledState THEN ShortBlink ELSE LongBlink)
  /\ ledState' = ~ledState /\ lastBlinkTime' = clock
  /\ blinkCount' = IF ledState' THEN blinkCount ELSE blinkCount - 1
  /\ flashes' = IF ledState' THEN flashes + 1 ELSE flashes

Rest ==
  /\ ~Since(IF blinkCount = 0 THEN ErrorPause
            ELSE IF ledState THEN ShortBlink ELSE LongBlink)
  /\ UNCHANGED <<blinkCount, ledState, flashes, lastBlinkTime>>

Blink ==
  /\ pc = "blink" /\ clock - start < ErrorTimeout
  /\ NewSeries \/ Toggle \/ Rest
  /\ led' = ledState' /\ clock' = clock + 1
  /\ UNCHANGED <<pc, power, sampling, errorCode, start>>

BlinkEnd_Restarts ==
  /\ pc = "blink" /\ clock - start >= ErrorTimeout
  /\ pc' = "begin" /\ clock' = 0 /\ led' = FALSE
  /\ errorCode' = 0 /\ blinkCount' = 0 /\ ledState' = FALSE
  /\ lastBlinkTime' = 0 /\ start' = 0 /\ flashes' = 0
  /\ UNCHANGED <<power, sampling>>
BlinkEnd ==
  /\ pc = "blink" /\ clock - start >= ErrorTimeout
  /\ led' = FALSE
  /\ pc' = IF errorCode = BME280_Init_Failed THEN "sleep" ELSE "wifiEnd"
  /\ UNCHANGED <<clock, power, sampling, blinking>>

-----------------------------------------------------------------------------
(* setup() again: WiFiHandler::end, BME280Handler::end, enterDeepSleep.    *)
WiFiEnd ==
  /\ pc = "wifiEnd" /\ pc' = "bmeEnd"
  /\ Off("radio", radio, radio') /\ led' = FALSE
  /\ UNCHANGED <<clock, sensor, wire, sampling, blinking>>

BmeEnd ==
  /\ pc = "bmeEnd" /\ pc' = "sleep"
  /\ sensor' = FALSE /\ Off("wire", wire, wire')
  /\ UNCHANGED <<clock, led, radio, sampling, blinking>>

DeepSleep ==
  /\ pc = "sleep" /\ pc' = "asleep"
  /\ UNCHANGED <<clock, led, power, sampling, blinking>>

SketchNext ==
  \/ BmeBegin \/ WiFiBegin \/ Read \/ Send \/ Flush
  \/ Blink \/ BlinkEnd \/ WiFiEnd \/ BmeEnd \/ DeepSleep

(* One thread, and no call waits without a timeout.                        *)
SketchSpec == SketchInit /\ [][SketchNext]_sketchVars /\ WF_sketchVars(SketchNext)

-----------------------------------------------------------------------------
(* Asleep, nothing draws current, by whichever way setup() went, but for   *)
(* what could not be switched off (sketch_bme280.ino:68-123).              *)
AllOffInSleep ==
  pc = "asleep" => ~sensor /\ ~led /\ (wire => "wire" \in stuck) /\ (radio => "radio" \in stuck)

(* A complete series has as many flashes as the error's number, whatever   *)
(* the times of a blink (CriticalError.h:43-80).                           *)
SeriesTellsError == blinkCount = 0 => flashes \in {0, errorCode}

(* The voltage of a packet is not below the lowest reading, and as long as *)
(* no send has failed not above the highest one: the readings of failed    *)
(* sends are added but not counted (sketch_bme280.ino:43-60).              *)
VoltageInRange ==
  pc = "send" => /\ voltage >= Min(readings)
                 /\ ~retried => voltage <= Max(readings)

(* The battery is not drained: setup() comes to its end, unless the sends  *)
(* fail again and again (sketch_bme280.ino:43-74).                         *)
SleepsUnlessSendsFail == (pc # "begin" ~> pc = "asleep") \/ []<>failed
=============================================================================
