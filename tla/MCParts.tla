------------------------------- MODULE MCParts -------------------------------
(***************************************************************************)
(* The parts that work alone, side by side in one instance: a behaviour is *)
(* one of them at work, named by part, while the variables of the others   *)
(* stay Idle.  Timer and SoundEvents share chip and mirror, NetSession and *)
(* Popup share open_flag, as only one of them is there.                    *)
(***************************************************************************)
EXTENDS Naturals, Sequences, FiniteSets

VARIABLES part,
  cpu, steps,
  chip, mirror, exact, accesses, sample,
  rate, sound_clock, frame_start, events, next_sample_clock, cps_frac_acc, samples,
  lateness,
  file, options, printed,
  up, http, infra_ready, connected, catalog_ok, body, rom, rom_ready, failed, calls,
  open_flag,
  count, selected, top, preview_for, preview_w, preview_upload, preview_tex, in_memory,
  paint_seq, painted_seq, tex_upload, tex, shown, wpc, changes, dpc, seq, row, upload,
  sampling

cpuVars == <<cpu, steps>>
timerVars == <<exact, accesses, sample>>
soundVars == <<rate, sound_clock, frame_start, events, next_sample_clock, cps_frac_acc,
               samples, lateness>>
chipVars == <<chip, mirror>>
configVars == <<file, options, printed>>
netVars == <<up, http, infra_ready, connected, catalog_ok, body, rom, rom_ready, failed, calls>>
popupVars == <<count, selected, top, preview_for, preview_w, preview_upload, preview_tex,
               in_memory, paint_seq, painted_seq, tex_upload, tex, shown, wpc, changes,
               dpc, seq, row, upload, sampling>>
guiVars == <<netVars, popupVars, open_flag>>
vars == <<part, cpuVars, timerVars, soundVars, chipVars, configVars, guiVars>>

-----------------------------------------------------------------------------
(* Cpu: one instruction from every state given by the corners of A and of an  *)
(* operand, or of the paging and SP.                                          *)
Corners  == {0, 9, 15, 128, 153, 255}
Controls == {0, 22, 33, 243}
Stacks   == {0, 1, 40962, 65534}

C == INSTANCE Cpu WITH Values <- Corners, Controls <- Controls, BootSizes <- {0, 2048},
                       Stacks <- Stacks, Inputs <- {0, 165}, MaxSteps <- 1

ASSUME CpuFits == C!ValuesFit

(* Timer: bytes of two bits, so that counts wrap at 16, and samples of four    *)
(* and five clocks.                                                            *)
T == INSTANCE Timer WITH Base <- 4, Bytes <- {0, 1, 3}, SampleLengths <- {4, 5},
                         Clocked <- TRUE, MaxPortAccesses <- 4

ASSUME TimerFits == T!CountersFit

(* SoundEvents: frames of up to three OUTs, samples of 3.4 and of 2.75 clocks. *)
Rates == {<<17, 5>>, <<11, 4>>}

S == INSTANCE SoundEvents WITH Values <- {1, 2}, Rates <- Rates, FrameClocks <- 6,
                               OutClocks <- 2, CAPACITY <- 8, MaxClock <- 16

ASSUME SoundFits == S!QueueSuffices

(* ConfigFile: a plain file, one with a comment at its end, and one with a     *)
(* setting commented out, each with and without its last end of line.          *)
Line(key, n) == <<key, "=">> \o [i \in 1..n |-> "1"]
Files == {<<Line("a", 1), Line("b", 3)>>, <<Line("b", 2), <<"#">>>>,
          <<<<"#">> \o Line("b", 1), Line("b", 3)>>}

F == INSTANCE ConfigFile WITH Keys <- {"a", "b"}, Misprinted <- {"b"}, Values <- 1..3,
                              Files <- Files, MaxCells <- 16

ASSUME ConfigFits == F!SettingsFit

(* NetSession: four windows or downloads, with every failure. *)
N == INSTANCE NetSession WITH MaxCalls <- 4

(* Popup: two rows for three ROMs, one of them without a picture, or none; three *)
(* openings or steps of the selection.                                         *)
P == INSTANCE Popup WITH Counts <- {0, 3}, Pictures <- {0, 2}, VISIBLE_ROWS <- 2,
                         MaxChanges <- 3

-----------------------------------------------------------------------------
Idle == "idle"
IdleCpu    == cpu = Idle /\ steps = Idle
IdleTimer  == exact = Idle /\ accesses = Idle /\ sample = Idle
IdleSound  == /\ rate = Idle /\ sound_clock = Idle /\ frame_start = Idle /\ events = Idle
              /\ next_sample_clock = Idle /\ cps_frac_acc = Idle /\ samples = Idle
              /\ lateness = Idle
IdleChip   == chip = Idle /\ mirror = Idle
IdleConfig == file = Idle /\ options = Idle /\ printed = Idle
IdleNet    == /\ up = Idle /\ http = Idle /\ infra_ready = Idle /\ connected = Idle
              /\ catalog_ok = Idle /\ body = Idle /\ rom = Idle /\ rom_ready = Idle
              /\ failed = Idle /\ calls = Idle
IdlePopup  == /\ count = Idle /\ selected = Idle /\ top = Idle /\ preview_for = Idle
              /\ preview_w = Idle /\ preview_upload = Idle /\ preview_tex = Idle
              /\ in_memory = Idle /\ paint_seq = Idle /\ painted_seq = Idle
              /\ tex_upload = Idle /\ tex = Idle /\ shown = Idle /\ wpc = Idle
              /\ changes = Idle /\ dpc = Idle /\ seq = Idle /\ row = Idle
              /\ upload = Idle /\ sampling = Idle
IdleGui    == IdleNet /\ IdlePopup /\ open_flag = Idle

Init ==
  \/ part = "cpu" /\ C!Init /\ IdleTimer /\ IdleSound /\ IdleChip /\ IdleConfig /\ IdleGui
  \/ part = "timer" /\ T!Init /\ IdleCpu /\ IdleSound /\ IdleConfig /\ IdleGui
  \/ part = "sound" /\ S!Init /\ IdleCpu /\ IdleTimer /\ IdleConfig /\ IdleGui
  \/ part = "config" /\ F!Init /\ IdleCpu /\ IdleTimer /\ IdleSound /\ IdleChip /\ IdleGui
  \/ /\ part = "net" /\ N!Init
     /\ IdleCpu /\ IdleTimer /\ IdleSound /\ IdleChip /\ IdleConfig /\ IdlePopup
  \/ /\ part = "popup" /\ P!Init
     /\ IdleCpu /\ IdleTimer /\ IdleSound /\ IdleChip /\ IdleConfig /\ IdleNet

\* A step of the window and nothing else
InPopup(A) ==
  /\ part = "popup" /\ A
  /\ UNCHANGED <<part, cpuVars, timerVars, soundVars, chipVars, configVars, netVars>>

Next ==
  /\ UNCHANGED part
  /\ \/ /\ part = "cpu" /\ C!Next
        /\ UNCHANGED <<timerVars, soundVars, chipVars, configVars, guiVars>>
     \/ /\ part = "timer" /\ T!Next
        /\ UNCHANGED <<cpuVars, soundVars, configVars, guiVars>>
     \/ /\ part = "sound" /\ S!Next
        /\ UNCHANGED <<cpuVars, timerVars, configVars, guiVars>>
     \/ /\ part = "config" /\ F!Next
        /\ UNCHANGED <<cpuVars, timerVars, soundVars, chipVars, guiVars>>
     \/ /\ part = "net" /\ N!Next
        /\ UNCHANGED <<cpuVars, timerVars, soundVars, chipVars, configVars, popupVars>>
     \/ InPopup(P!Next)

Spec == Init /\ [][Next]_vars

\* Both threads of the window block regularly (Popup's FairSpec).
FairSpec == Spec /\ WF_vars(InPopup(P!Worker)) /\ WF_vars(InPopup(P!Display))

-----------------------------------------------------------------------------
(* tobank() is one to one: no two addresses share a byte of the planes. *)
ASSUME PlanesAreApart == Cardinality({C!ToBank(a) : a \in 0..65535}) = 65536

(* Every part keeps its types. *)
TypeOK ==
  CASE part = "cpu" -> C!TypeOK
    [] part = "timer" -> T!TypeOK
    [] part = "sound" -> S!TypeOK
    [] part = "config" -> F!TypeOK
    [] part = "net" -> N!TypeOK
    [] part = "popup" -> P!TypeOK

(* The properties of the parts, as their modules state them. *)

(* Cpu: the flags of an arithmetic instruction are those of the arithmetic. *)
FlagsAreArithmetic == [][part = "cpu" => C!ArithmeticFlags]_vars
(* Cpu: DAA after ADC adds decimally. *)
DecimalAddition == part = "cpu" => C!DecimalAddition
(* Cpu: what an instruction pushes another pops, under every paging. *)
StackRoundTrip == part = "cpu" => C!StackRoundTrip
(* Timer: integrate_timer() plays the tone of a counter clocked one by one. *)
MirrorInStep == part = "timer" => T!MirrorInStep
(* SoundEvents: what is queued brings the mirrors to the chips. *)
MirrorFollows == part = "sound" => S!MirrorFollows
(* SoundEvents: events are heard within a sample, and samples do not drift. *)
HeardOnTime == part = "sound" => S!HeardOnTime
(* ConfigFile: the file reads back as the options in use. *)
SettingsLast == part = "config" => F!SettingsLast
(* NetSession: the network session follows the window. *)
SessionNests == part = "net" => N!SessionNests
(* Popup: a panel that counts as painted shows the window's state. *)
PaintedIsCurrent == part = "popup" => P!PaintedIsCurrent
(* Popup: what the user did is on the screen in the end. *)
SettledIsShown == <>[](part = "popup" => P!Settled)

=============================================================================
