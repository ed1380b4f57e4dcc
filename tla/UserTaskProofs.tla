--------------------------- MODULE UserTaskProofs ---------------------------
(***************************************************************************)
(* What the user task does with the knob and with the strip.               *)
(*                                                                         *)
(* Panel: its invariants for every width of the count and every length of  *)
(* the menu and of the part of it that is shown.  Effects: those of the    *)
(* strip for every number of LEDs and every width of the counters.         *)
(***************************************************************************)
EXTENDS Panel, Effects, TLAPS

\* Between the load and the store of ReadEncoder the reader has what is owed.
ReadIsDue == pc = "uncount" /\ ~raced => encoder = Wrap(-EncoderCount)

IInv == TypeOK /\ StepsAreKept /\ ReadIsDue /\ MenuIsShown

-----------------------------------------------------------------------------
(***************************************************************************)
(* Steps and menu.                                                         *)
(***************************************************************************)
LEMMA InitIInv == Init => IInv
  <1> SUFFICES ASSUME Init PROVE IInv
    OBVIOUS
  <1> USE PanelAssumption DEF Init
  <1>1. TypeOK
    <2>1. /\ EncoderCount \in -Half..(Half - 1) /\ encoder \in -Half..(Half - 1)
          /\ cursor \in 0..(num - 1) /\ head \in 0..(num - 1) /\ owed \in -Half..(Half - 1)
      OBVIOUS
    <2>2. /\ oled \in BOOLEAN /\ menu \in BOOLEAN /\ key_state \in BOOLEAN
          /\ raced \in BOOLEAN /\ turned \in BOOLEAN /\ missed \in BOOLEAN
      BY Zenon
    <2> QED BY <2>1, <2>2 DEF TypeOK
  <1>2. StepsAreKept /\ ReadIsDue
    BY DEF StepsAreKept, ReadIsDue
  <1>3. MenuIsShown
    BY DEF MenuIsShown
  <1> QED BY <1>1, <1>2, <1>3 DEF IInv

\* The count keeps within the char it is.
LEMMA WrapRange ==
  ASSUME NEW x \in (-2 * Half)..(2 * Half - 1)
  PROVE  Wrap(x) \in -Half..(Half - 1)
  BY PanelAssumption DEF Wrap

\* What the reader has and what is owed to it cancel out.
LEMMA WrapCancels ==
  ASSUME NEW c \in -Half..(Half - 1)
  PROVE  Wrap(-c) \in -Half..(Half - 1) /\ Wrap(c + Wrap(-c)) = 0
  BY PanelAssumption DEF Wrap

\* The interrupt leaves what it does not own, and its own variables typed.
LEMMA KeyScanTyped ==
  ASSUME TypeOK, NEW down \in BOOLEAN, KeyScan(down)
  PROVE  /\ EncoderKeyState' \in {"release", "if_push", "push", "if_release"}
         /\ EncoderKeyRet' \in {"null", "press", "release"}
         /\ turned' \in BOOLEAN /\ missed' \in BOOLEAN
  <1>1. /\ EncoderKeyState' \in {"release", "if_push", "push", "if_release"}
        /\ EncoderKeyRet' \in {"null", "press", "release"}
    BY DEF TypeOK, KeyScan
  <1>2. turned' \in BOOLEAN
    BY DEF TypeOK, KeyScan
  <1>3. missed' \in BOOLEAN
    BY DEF TypeOK, KeyScan
  <1> QED BY <1>1, <1>2, <1>3

LEMMA ScanIInv ==
  ASSUME IInv, NEW down \in BOOLEAN, NEW step \in -1..1, Scan(down, step)
  PROVE  IInv'
  <1> USE PanelAssumption DEF IInv
  <1>1. TypeOK'
    <2>1. /\ EncoderKeyState' \in {"release", "if_push", "push", "if_release"}
          /\ EncoderKeyRet' \in {"null", "press", "release"}
          /\ turned' \in BOOLEAN /\ missed' \in BOOLEAN
      BY KeyScanTyped DEF Scan
    <2>2. EncoderCount' \in -Half..(Half - 1) /\ owed' \in -Half..(Half - 1)
      <3>1. EncoderCount + step \in (-Half - 1)..Half /\ owed + step \in (-Half - 1)..Half
        BY DEF TypeOK
      <3>2. 0 \in -Half..(Half - 1)
        OBVIOUS
      <3> QED BY <3>1, <3>2, WrapRange DEF Scan
    <2>3. raced' \in BOOLEAN
      BY DEF TypeOK, Scan
    <2>4. UNCHANGED <<oled, menu, cursor, head, key_state, pc, caller, locals>>
      BY DEF Scan
    <2> QED BY <2>1, <2>2, <2>3, <2>4 DEF TypeOK, locals
  <1>2. StepsAreKept' /\ ReadIsDue'
    <2> SUFFICES ASSUME ~raced' PROVE StepsAreKept' /\ ReadIsDue'
      BY DEF StepsAreKept, ReadIsDue
    <2>1. ~raced /\ (step = 0 \/ pc # "uncount")
      BY DEF Scan
    <2>2. /\ owed' = Wrap(owed + step) /\ EncoderCount' = Wrap(EncoderCount + step)
          /\ UNCHANGED <<pc, encoder>>
      BY DEF Scan, locals
    <2>3. step = 0 => EncoderCount' = EncoderCount
      BY <2>2 DEF TypeOK, Wrap
    <2>4. StepsAreKept'
      BY <2>1, <2>2 DEF StepsAreKept
    <2>5. ReadIsDue'
      BY <2>1, <2>2, <2>3 DEF ReadIsDue
    <2> QED BY <2>4, <2>5
  <1>3. MenuIsShown'
    BY DEF MenuIsShown, Scan
  <1> QED BY <1>1, <1>2, <1>3

LEMMA ReadIInv ==
  ASSUME IInv, LoadCount \/ ClearCount \/ LoadKey \/ ClearKey
  PROVE  IInv'
  <1> USE PanelAssumption DEF IInv, enc, screen, locals
  <1>1. CASE LoadCount
    <2>1. encoder' \in -Half..(Half - 1)
      BY <1>1, WrapCancels DEF LoadCount, TypeOK
    <2> QED BY <1>1, <2>1 DEF LoadCount, TypeOK, StepsAreKept, ReadIsDue, MenuIsShown
  <1>2. CASE ClearCount
    <2>1. owed' \in -Half..(Half - 1)
      <3>1. owed + encoder \in (-2 * Half)..(2 * Half - 1) /\ 0 \in -Half..(Half - 1)
        BY DEF TypeOK
      <3> QED BY <1>2, <3>1, WrapRange DEF ClearCount
    <2>2. ~raced => owed' = 0
      BY <1>2, WrapCancels DEF ClearCount, TypeOK, StepsAreKept, ReadIsDue
    <2>3. EncoderCount' = 0 /\ 0 \in -Half..(Half - 1)
      BY <1>2 DEF ClearCount
    <2>4. TypeOK'
      BY <1>2, <2>1, <2>3 DEF ClearCount, TypeOK
    <2> QED BY <1>2, <2>2, <2>3, <2>4 DEF ClearCount, StepsAreKept, ReadIsDue, MenuIsShown
  <1>3. CASE LoadKey
    BY <1>3 DEF LoadKey, TypeOK, StepsAreKept, ReadIsDue, MenuIsShown
  <1>4. CASE ClearKey
    <2>1. missed' \in BOOLEAN
      BY <1>4 DEF ClearKey, TypeOK
    <2>2. TypeOK'
      BY <2>1, <1>4 DEF ClearKey, TypeOK
    <2> QED BY <2>2, <1>4 DEF ClearKey, TypeOK, StepsAreKept, ReadIsDue, MenuIsShown
  <1> QED BY <1>1, <1>2, <1>3, <1>4

LEMMA MenuIInv == ASSUME IInv, Menu PROVE IInv'
  <1> USE PanelAssumption DEF IInv, enc, locals
  <1>1. /\ cursor' \in 0..(num - 1) /\ head' \in 0..(num - 1)
        /\ MenuIsShown'
    <2>1. CASE encoder < 0 /\ Up
      BY <2>1 DEF Up, TypeOK, MenuIsShown
    <2>2. CASE encoder > 0 /\ Down
      BY <2>2 DEF Down, TypeOK, MenuIsShown
    <2>3. CASE encoder = 0 /\ UNCHANGED <<cursor, head>>
      BY <2>3 DEF TypeOK, MenuIsShown
    <2> QED BY <2>1, <2>2, <2>3 DEF Menu
  <1>2. menu' \in BOOLEAN
    BY DEF Menu
  <1>3. /\ pc' \in {"loop", "count", "wifi", "images"}
        /\ caller' \in {caller, "colorful"}
    BY DEF Menu, Read
  <1>4. UNCHANGED <<enc, oled, key_state, locals, owed, raced, turned, missed>>
    BY DEF Menu
  <1>5. TypeOK'
    BY <1>1, <1>2, <1>3, <1>4 DEF TypeOK
  <1> QED BY <1>1, <1>3, <1>4, <1>5 DEF StepsAreKept, ReadIsDue

LEMMA TaskIInv ==
  ASSUME IInv, Round \/ Wake \/ Screen \/ MainScreen \/ Colorful \/ Wifi \/ Images
  PROVE  IInv'
  <1> USE PanelAssumption DEF IInv, enc, locals, Read
  <1>1. CASE Round
    BY <1>1 DEF Round, TypeOK, StepsAreKept, ReadIsDue, MenuIsShown
  <1>2. CASE Wake
    <2>1. oled' \in BOOLEAN
      BY <1>2 DEF Wake
    <2> QED BY <1>2, <2>1 DEF Wake, TypeOK, StepsAreKept, ReadIsDue, MenuIsShown
  <1>3. CASE Screen
    BY <1>3 DEF Screen, TypeOK, StepsAreKept, ReadIsDue, MenuIsShown
  <1>4. CASE MainScreen
    <2>1. turned' \in BOOLEAN /\ menu' \in BOOLEAN
      BY <1>4 DEF MainScreen
    <2>2. key_state' \in BOOLEAN
      BY <1>4 DEF MainScreen, TypeOK
    <2>3. missed' \in BOOLEAN
      BY <1>4 DEF MainScreen, TypeOK
    <2>4. /\ pc' = "loop"
          /\ UNCHANGED <<enc, oled, cursor, head, caller, locals, owed, raced>>
      BY <1>4 DEF MainScreen
    <2> QED BY <2>1, <2>2, <2>3, <2>4 DEF TypeOK, StepsAreKept, ReadIsDue, MenuIsShown
  <1>5. CASE Colorful
    BY <1>5 DEF Colorful, TypeOK, StepsAreKept, ReadIsDue, MenuIsShown
  <1>6. CASE Wifi
    BY <1>6 DEF Wifi, TypeOK, StepsAreKept, ReadIsDue, MenuIsShown
  <1>7. CASE Images
    BY <1>7 DEF Images, TypeOK, StepsAreKept, ReadIsDue, MenuIsShown
  <1> QED BY <1>1, <1>2, <1>3, <1>4, <1>5, <1>6, <1>7

LEMMA StutterIInv == ASSUME IInv, UNCHANGED vars PROVE IInv'
  BY DEF IInv, TypeOK, StepsAreKept, ReadIsDue, MenuIsShown, vars, enc, locals

\* IInv is an invariant: the base of the three theorems that follow.
THEOREM Inductive == Spec => []IInv
  <1>1. IInv /\ [Next]_vars => IInv'
    <2> SUFFICES ASSUME IInv, [Next]_vars PROVE IInv'
      OBVIOUS
    <2>1. CASE Task
      BY <2>1, ReadIInv, MenuIInv, TaskIInv DEF Task
    <2>2. CASE \E down \in BOOLEAN, step \in -1..1 : Scan(down, step)
      BY <2>2, ScanIInv
    <2>3. CASE UNCHANGED vars
      BY <2>3, StutterIInv
    <2> QED BY <2>1, <2>2, <2>3 DEF Next
  <1> QED BY InitIInv, <1>1, PTL DEF Spec

\* Every variable of the panel keeps its type: the cursor and the head of the
\* list stay entries of the menu.
THEOREM TypeCorrect == Spec => []TypeOK
  <1>1. IInv => TypeOK
    BY DEF IInv
  <1> QED BY <1>1, Inductive, PTL

\* A step of the knob is lost only between the load and the store of a read.
THEOREM StepsKept == Spec => []StepsAreKept
  <1>1. IInv => StepsAreKept
    BY DEF IInv
  <1> QED BY <1>1, Inductive, PTL

\* The list scrolls with the cursor and never beyond its end.
THEOREM MenuShown == Spec => []MenuIsShown
  <1>1. IInv => MenuIsShown
    BY DEF IInv
  <1> QED BY <1>1, Inductive, PTL

-----------------------------------------------------------------------------
(***************************************************************************)
(* Clicks.  InHand: main_screen has the end of a press, and has not judged *)
(* it yet.  A press that main_screen acts upon, or has acted upon, is not  *)
(* over for it unless its end is recorded, in hand or missed.              *)
(***************************************************************************)
Holds(k) == key = k /\ caller = "main" /\ pc \in {"unkey", "main"}
InHand == Holds("release")

PressIsDown == EncoderKeyRet = "press" => EncoderKeyState \in {"push", "if_release"}
EndIsUp == EncoderKeyState \in {"push", "if_release"} => EncoderKeyRet # "release"
EndIsDue ==
  (key_state \/ Holds("press")) /\ EncoderKeyState \in {"release", "if_push"}
     => EncoderKeyRet = "release" \/ missed \/ InHand

MainCalls == pc = "main" => caller = "main"

CInv == TypeOK /\ MainCalls /\ PressIsDown /\ EndIsUp /\ EndIsDue /\ ClickIsJudged

LEMMA InitCInv == Init => CInv
  BY InitIInv DEF IInv, Init, CInv, PressIsDown, EndIsUp, EndIsDue, ClickIsJudged, Holds, InHand, MainCalls

\* What one look at the key does to an end of a press that is not judged yet.
LEMMA KeyScanKeeps ==
  ASSUME TypeOK, NEW down \in BOOLEAN, KeyScan(down)
  PROVE  /\ missed => missed'
         /\ EncoderKeyState' \in {"release", "if_push"} =>
              \/ (EncoderKeyState \in {"release", "if_push"} /\ EncoderKeyRet' = EncoderKeyRet)
              \/ EncoderKeyRet' = "release"
         /\ turned =>
              turned' \/ (EncoderKeyState = "if_push" /\ (EncoderKeyRet = "release" => missed'))
  <1>1. missed => missed'
    BY Zenon DEF KeyScan
  <1>2. turned =>
          turned' \/ (EncoderKeyState = "if_push" /\ (EncoderKeyRet = "release" => missed'))
    BY Zenon DEF KeyScan
  <1>3. EncoderKeyState' \in {"release", "if_push"} =>
          \/ EncoderKeyState \in {"release", "if_push"} /\ EncoderKeyRet' = EncoderKeyRet
          \/ EncoderKeyRet' = "release"
    BY DEF KeyScan, TypeOK
  <1> QED BY <1>1, <1>2, <1>3

LEMMA ScanCInv ==
  ASSUME CInv, TypeOK', NEW down \in BOOLEAN, NEW step \in -1..1, Scan(down, step)
  PROVE  CInv'
  <1> USE DEF CInv, MainCalls, locals
  <1>1. PressIsDown' /\ EndIsUp'
    BY DEF PressIsDown, EndIsUp, TypeOK, Scan, KeyScan
  <1>2. UNCHANGED <<key_state, pc, caller, key>>
    BY DEF Scan
  <1>3. InHand => InHand'
    BY <1>2 DEF InHand, Holds
  <1>4. (key_state \/ Holds("press"))' => (key_state \/ Holds("press"))
    BY <1>2, Zenon DEF Holds
  <1>5. KeyScan(down)
    BY DEF Scan
  <1>6. EndIsDue'
    BY <1>3, <1>4, <1>5, KeyScanKeeps DEF EndIsDue
  <1>7. key_state => turned \/ missed \/ InHand
    BY Zenon DEF ClickIsJudged, InHand, Holds
  <1>8. key_state' => turned' \/ missed' \/ InHand'
    BY <1>2, <1>3, <1>5, <1>7, KeyScanKeeps DEF EndIsDue
  <1>9. ClickIsJudged'
    BY <1>8, Zenon DEF ClickIsJudged, InHand, Holds
  <1>10. MainCalls'
    BY <1>2
  <1> QED BY <1>1, <1>6, <1>9, <1>10

LEMMA TaskCInv == ASSUME CInv, TypeOK', Task PROVE CInv'
  <1> USE DEF CInv, PressIsDown, EndIsUp, EndIsDue, ClickIsJudged, Holds, InHand,
              MainCalls, enc, locals, screen, Read, TypeOK
  <1>1. CASE LoadCount
    BY <1>1 DEF LoadCount
  <1>2. CASE ClearCount
    BY <1>2 DEF ClearCount
  <1>3. CASE LoadKey
    BY <1>3 DEF LoadKey
  <1>4. CASE ClearKey
    BY <1>4 DEF ClearKey
  <1>5. CASE Round \/ Wake \/ Screen
    BY <1>5 DEF Round, Wake, Screen
  <1>6. CASE MainScreen
    <2>1. /\ pc = "main" /\ pc' = "loop" /\ UNCHANGED <<enc, caller, key>>
      BY <1>6 DEF MainScreen
    <2>2. key = "release" => ~key_state'
      BY <1>6 DEF MainScreen
    <2>3. key # "release" => /\ key_state' => key_state \/ (key = "press" /\ turned')
                             /\ turned => turned'
                             /\ missed => missed'
      BY <1>6, Zenon DEF MainScreen
    <2>4. key_state => turned \/ missed \/ key = "release"
      BY DEF ClickIsJudged
    <2>5. key_state' => turned' \/ missed'
      BY <2>2, <2>3, <2>4
    <2>6. key_state' => key # "release" /\ (key_state \/ Holds("press"))
      BY <2>1, <2>2, <2>3
    <2> QED BY <2>1, <2>3, <2>5, <2>6
  <1>7. CASE Menu
    BY <1>7 DEF Menu
  <1>8. CASE Colorful \/ Wifi \/ Images
    BY <1>8 DEF Colorful, Wifi, Images
  <1> QED BY <1>1, <1>2, <1>3, <1>4, <1>5, <1>6, <1>7, <1>8 DEF Task

\* What key_state remembers of a press is not held against a later click.
THEOREM ClickJudged == Spec => []ClickIsJudged
  <1>1. CInv /\ TypeOK' /\ [Next]_vars => CInv'
    <2> SUFFICES ASSUME CInv, TypeOK', [Next]_vars PROVE CInv'
      OBVIOUS
    <2>1. CASE Task
      BY <2>1, TaskCInv
    <2>2. CASE \E down \in BOOLEAN, step \in -1..1 : Scan(down, step)
      BY <2>2, ScanCInv
    <2>3. CASE UNCHANGED vars
      BY <2>3 DEF vars, enc, locals, CInv, PressIsDown, EndIsUp, EndIsDue,
                  ClickIsJudged, Holds, InHand, MainCalls
    <2> QED BY <2>1, <2>2, <2>3 DEF Next
  <1>2. CInv => ClickIsJudged
    BY DEF CInv
  <1> QED BY InitCInv, <1>1, <1>2, TypeCorrect, PTL DEF Spec
-----------------------------------------------------------------------------
(***************************************************************************)
(* The strip.                                                              *)
(***************************************************************************)
(***************************************************************************)
(* The runtimes a mode can find at its beginning: those it left itself, or *)
(* a fresh one.                                                            *)
(***************************************************************************)
Wipes == {"color_wipe", "color_wipe_rev", "color_wipe_random", "color_sweep_random"}
Scans == {"scan", "dual_scan"}

FitsMode(f, r) ==
  /\ f \in Wipes => r.step < 2 * LEDS
  /\ f \in Scans => IF r.aux THEN 0 < r.step /\ r.step < LEDS ELSE r.step < LEDS - 1
  /\ f \in {"chase_flash", "comet"} => r.step < LEDS
  /\ f = "larson_scanner" => r.step < 2 * LEDS - 2
Fits(m, r) == FitsMode(_modes[m + 1], r)

\* What is known of the strip, and what was sent to it, while the tasks do not overlap.
Serving == {"draw", "advance", "call", "show"}
DrawInv ==
  /\ \E a \in Tasks : at[a] = "idle"
  /\ at["user"] # "wild"
  /\ at["user"] \in Serving => running
  /\ at["user"] \in {"draw", "advance"} => doing = mode
  /\ at["user"] = "advance" => got = rt
  /\ at["user"] \in Serving => Fits(mode, rt)
  /\ running /\ (\A a \in Tasks : at[a] = "idle") => Fits(mode, rt)
  /\ \A a \in Tasks : /\ at[a] \in {"reset", "mode"} => running
                      /\ at[a] = "mode" => rt = Fresh
DarkInv ==
  /\ \A a \in Tasks : /\ at[a] = "clear" => ~running
                      /\ at[a] = "dark" => ~running /\ buf = "cleared"
  /\ ~running /\ (\A a \in Tasks : at[a] = "idle") => strip = "cleared"

\* Only the user task draws, and who starts a mode has one to start.
ArgInv ==
  /\ \A a \in Tasks :
        at[a] \in {"color", "zero", "start", "reset", "mode"} => arg[a].mode # 0
  /\ at["cloud"] \notin Serving \cup {"wild"}
StripInv == StripTypeOK /\ ArgInv /\ (~disturbed => DrawInv /\ DarkInv)

-----------------------------------------------------------------------------
(***************************************************************************)
(* Counters.                                                               *)
(***************************************************************************)
LEMMA ModRange ==
  ASSUME NEW x \in Nat, NEW y \in Nat \ {0}
  PROVE  x % y \in 0..(y - 1) /\ x % y <= x /\ (x < y => x % y = x)
  OBVIOUS

LEMMA PlusWraps ==
  ASSUME NEW s \in Word, NEW n \in Nat
  PROVE  Plus(s, n) \in Word /\ (s + n < WORD => Plus(s, n) = s + n)
  <1>1. s + n \in Nat /\ WORD \in Nat \ {0}
    BY EffectsAssumption DEF Word
  <1> QED BY <1>1, ModRange DEF Plus, Word

LEMMA MinusWraps ==
  ASSUME NEW s \in Word, NEW n \in 0..WORD
  PROVE  Minus(s, n) \in Word /\ (n <= s => Minus(s, n) = s - n)
  <1>1. s + WORD - n \in Nat /\ WORD \in Nat \ {0} /\ s \in 0..(WORD - 1)
    BY EffectsAssumption DEF Word
  <1>2. Minus(s, n) \in Word
    BY <1>1, ModRange DEF Minus, Word
  <1>3. ASSUME n <= s PROVE Minus(s, n) = s - n
    <2>1. s - n \in 0..(WORD - 1) /\ s + WORD - n = WORD + (s - n)
      BY <1>1, <1>3
    <2>2. (WORD + (s - n)) % WORD = s - n
      BY <1>1, <2>1
    <2> QED BY <2>1, <2>2 DEF Minus
  <1> QED BY <1>2, <1>3

(***************************************************************************)
(* What a mode stores.                                                     *)
(***************************************************************************)
LEMMA Fields ==
  ASSUME NEW r \in Runtime
  PROVE  /\ r.step \in Word /\ r.call \in 0..(2 * flash_count) /\ r.aux \in BOOLEAN
         /\ r.index \in Word
         /\ r = [step |-> r.step, call |-> r.call, aux |-> r.aux, index |-> r.index]
  BY DEF Runtime

LEMMA MergeNothing ==
  ASSUME NEW r \in Runtime, NEW w \in Nothing
  PROVE  Merge(r, w) = r
  BY DEF Runtime, Merge, Nothing

LEMMA MergeStep ==
  ASSUME NEW r \in Runtime, NEW n \in Word
  PROVE  /\ Merge(r, [step |-> n]) \in Runtime
         /\ Merge(r, [step |-> n]).step = n /\ Merge(r, [step |-> n]).aux = r.aux
  BY DEF Runtime, Merge

LEMMA MergeStepAux ==
  ASSUME NEW r \in Runtime, NEW n \in Word, NEW a \in BOOLEAN
  PROVE  /\ Merge(r, [step |-> n, aux |-> a]) \in Runtime
         /\ Merge(r, [step |-> n, aux |-> a]).step = n
         /\ Merge(r, [step |-> n, aux |-> a]).aux = a
  BY DEF Runtime, Merge

LEMMA MergeIndex ==
  ASSUME NEW r \in Runtime, NEW n \in Word
  PROVE  Merge(r, [index |-> n]) \in Runtime
  BY DEF Runtime, Merge

-----------------------------------------------------------------------------
(***************************************************************************)
(* Sound(f, r, s, e): the effect e of the mode function f that found r and *)
(* stores what follows from the step s.  What it leaves has the type of a  *)
(* runtime; if it found what fits it, it draws inside the strip and leaves *)
(* what fits it.                                                           *)
(***************************************************************************)
Sound(f, r, s, e) ==
  /\ e.early \subseteq Runtime
  /\ \A w \in e.late, q \in Runtime : Merge(q, w) \in Runtime
  /\ FitsMode(f, r) =>
       /\ e.lit \subseteq Pixels
       /\ \A q \in e.early : FitsMode(f, q)
       /\ s = r.step => \A w \in e.late : FitsMode(f, Merge(r, w))

\* What fits a mode that puts no condition on the runtime.
Free == {_modes[m + 1] : m \in 0..54}
          \ (Wipes \cup Scans \cup {"chase_flash", "comet", "larson_scanner"})

LEMMA FreeFits ==
  ASSUME NEW f \in Free, NEW r
  PROVE  FitsMode(f, r)
  BY DEF Free, FitsMode

LEMMA Constants ==
  /\ LEDS \in Nat /\ LEDS >= 4 /\ WORD \in Nat /\ WORD >= 16 /\ WORD >= 4 * LEDS
  /\ 0..(2 * LEDS - 1) \subseteq Word /\ 0..15 \subseteq Word /\ Pixels = 0..(LEDS - 1)
  BY EffectsAssumption DEF Word, Pixels

LEMMA WheelRuntime ==
  ASSUME NEW r \in Runtime, NEW when \in BOOLEAN
  PROVE  /\ Wheel(r, when) \subseteq Runtime
         /\ \A q \in Wheel(r, when) : q.step = r.step
  BY DEF Wheel, Runtime

(***************************************************************************)
(* The modes that keep no step.                                            *)
(***************************************************************************)
LEMMA RepaintSound ==
  ASSUME NEW f \in Free, NEW r \in Runtime, NEW s \in Word, NEW lit \in SUBSET Pixels
  PROVE  Sound(f, r, s, Repaint(r, lit))
  BY MergeNothing, FreeFits DEF Sound, Repaint

LEMMA FilledInStrip == \A first, count : Filled(first, count) \subseteq Pixels
  BY DEF Filled

LEMMA RepaintingSound ==
  ASSUME NEW f \in Free, NEW r \in Runtime, NEW s \in Word
  PROVE  /\ Sound(f, r, s, static(r)) /\ Sound(f, r, s, blink(r))
         /\ Sound(f, r, s, dynamic(r)) /\ Sound(f, r, s, twinkle_fade(r))
         /\ Sound(f, r, s, hyper_sparkle(r)) /\ Sound(f, r, s, fire_flicker(r))
         /\ Sound(f, r, s, fireworks(r)) /\ Sound(f, r, s, random_color(r))
  <1>1. /\ Pixels \in SUBSET Pixels /\ Filled(0, LEDS) \in SUBSET Pixels
        /\ Pixels \cup UNION {Filled(n, 1) : n \in Random16(LEDS - 1)} \in SUBSET Pixels
        /\ Pixels \cup UNION {Filled(n, 2) : n \in Random16(LEDS - 2)} \in SUBSET Pixels
    BY FilledInStrip
  <1>2. Sound(f, r, s, random_color(r))
    <2>1. /\ random_color(r).early = Wheel(r, TRUE)
          /\ random_color(r).lit = Pixels /\ random_color(r).late = Nothing
      BY DEF random_color, Repaint
    <2> QED BY <2>1, MergeNothing, FreeFits, WheelRuntime DEF Sound
  <1> QED BY <1>1, <1>2, RepaintSound
          DEF static, blink, dynamic, twinkle_fade, hyper_sparkle, fire_flicker, fireworks

\* sparkle chooses its next pixel for itself.
LEMMA SparkleSound ==
  ASSUME NEW f \in Free, NEW r \in Runtime, NEW s \in Word
  PROVE  Sound(f, r, s, sparkle(r))
  <1>1. Random16(LEDS - 1) \subseteq Word
    BY Constants DEF Random16
  <1>2. \A w \in sparkle(r).late, q \in Runtime : Merge(q, w) \in Runtime
    BY <1>1, MergeIndex DEF sparkle
  <1>3. sparkle(r).lit \subseteq Pixels /\ sparkle(r).early = {r}
    BY FilledInStrip DEF sparkle
  <1> QED BY <1>2, <1>3, FreeFits DEF Sound

(***************************************************************************)
(* The modes that keep a step which their drawing does not depend on.      *)
(***************************************************************************)
LEMMA SteppingSound ==
  ASSUME NEW f \in Free, NEW r \in Runtime, NEW s \in Word, NEW n \in Word,
         NEW e, e.early \subseteq Runtime, e.lit \subseteq Pixels, e.late = Steps({n})
  PROVE  Sound(f, r, s, e)
  <1>1. \A w \in Steps({n}), q \in Runtime : Merge(q, w) \in Runtime
    BY MergeStep DEF Steps
  <1> QED BY <1>1, FreeFits DEF Sound

LEMMA FreelySteppingSound ==
  ASSUME NEW f \in Free, NEW r \in Runtime, NEW s \in Word
  PROVE  /\ Sound(f, r, s, breath(r, s)) /\ Sound(f, r, s, fade(r, s))
         /\ Sound(f, r, s, rainbow(r, s)) /\ Sound(f, r, s, tricolor_chase(r, s))
         /\ Sound(f, r, s, theater_chase_rainbow(r, s)) /\ Sound(f, r, s, running_lights(r, s))
         /\ Sound(f, r, s, twinkle(r, s)) /\ Sound(f, r, s, multi_strobe(r, s))
         /\ Sound(f, r, s, chase(r, s)) /\ Sound(f, r, s, chase_rainbow(r, s))
         /\ Sound(f, r, s, chase_random(r, s)) /\ Sound(f, r, s, running_(r, s))
         /\ Sound(f, r, s, running_random(r, s))
  <1>1. Plus(s, 1) \in Word /\ Plus(s, 2) \in Word /\ Plus(s, 4) \in Word /\ Minus(s, 1) \in Word
    BY PlusWraps, MinusWraps, Constants
  <1>2. ASSUME NEW x \in Word, NEW y \in Nat \ {0} PROVE x % y \in Word
    <2>1. x \in Nat /\ x < WORD
      BY Constants DEF Word
    <2>2. x % y \in 0..(y - 1) /\ x % y <= x
      BY <2>1, ModRange, Zenon
    <2>3. x % y < WORD /\ x % y \in Nat
      BY <2>1, <2>2, Constants
    <2> QED BY <2>3, Constants DEF Word
  <1>3. r.step \in Word /\ LEDS \in Nat \ {0}
    BY Fields, Constants
  <1>4. {r} \subseteq Runtime /\ 0 \in Word /\ 15 \in Word
    BY Constants
  <1>5. Sound(f, r, s, breath(r, s))
    BY <1>1, <1>4, SteppingSound DEF breath
  <1>6. Sound(f, r, s, fade(r, s))
    BY <1>1, <1>4, SteppingSound DEF fade
  <1>7. Plus(s, 1) % 256 \in Word /\ Plus(s, 1) % 23 \in Word /\ Plus(s, 1) % LEDS \in Word
    BY <1>1, <1>2, <1>3
  <1>8. /\ Sound(f, r, s, rainbow(r, s)) /\ Sound(f, r, s, tricolor_chase(r, s))
        /\ Sound(f, r, s, running_lights(r, s)) /\ Sound(f, r, s, multi_strobe(r, s))
        /\ Sound(f, r, s, running_(r, s))
    BY <1>1, <1>4, <1>7, SteppingSound
    DEF rainbow, tricolor_chase, running_lights, multi_strobe, running_
  <1>9. Sound(f, r, s, theater_chase_rainbow(r, s))
    <2>1. Plus(r.step, 1) % 256 \in Word
      BY <1>2, <1>3, PlusWraps
    <2>2. {[r EXCEPT !.step = Plus(@, 1) % 256]} \subseteq Runtime
      BY <2>1 DEF Runtime
    <2> QED BY <1>1, <1>4, <2>2, SteppingSound DEF theater_chase_rainbow, tricolor_chase
  <1>10. Sound(f, r, s, twinkle(r, s))
    <2>1. LEDS \div 4 \in Nat /\ LEDS \div 4 <= LEDS
      BY Constants
    <2>2. ((LEDS \div 4) + 1)..(2 * ((LEDS \div 4) + 1) - 1) \subseteq Word
      BY <2>1, Constants DEF Word
    <2>3. twinkle(r, s).early \subseteq Runtime
      BY <2>2 DEF twinkle, Runtime
    <2> QED BY <1>1, <1>4, <2>3, SteppingSound DEF twinkle
  <1>11. /\ r.step % LEDS \in Pixels
         /\ ((r.step % LEDS) + 1) % LEDS \in Pixels /\ ((r.step % LEDS) + 2) % LEDS \in Pixels
    <2>1. r.step \in Nat
      BY <1>3, Constants DEF Word
    <2>2. r.step % LEDS \in 0..(LEDS - 1)
      BY <1>3, <2>1, ModRange
    <2>3. (r.step % LEDS) + 1 \in Nat /\ (r.step % LEDS) + 2 \in Nat
      BY <2>2
    <2> QED BY <1>3, <2>2, <2>3, ModRange DEF Pixels
  <1>12. Sound(f, r, s, chase(r, s)) /\ Sound(f, r, s, chase_rainbow(r, s))
    BY <1>4, <1>7, <1>11, SteppingSound DEF chase, chase_rainbow
  <1>13. Sound(f, r, s, chase_random(r, s))
    BY <1>4, <1>7, <1>11, SteppingSound, WheelRuntime DEF chase_random, chase
  <1>14. Sound(f, r, s, running_random(r, s))
    BY <1>4, <1>7, SteppingSound, WheelRuntime DEF running_random, running_
  <1> QED BY <1>5, <1>6, <1>8, <1>9, <1>10, <1>12, <1>13, <1>14

LEMMA OneStep ==
  ASSUME NEW s \in Word
  PROVE  /\ s \in Nat /\ s < WORD
         /\ Plus(s, 1) \in Word /\ Plus(s, 1) \in Nat /\ (s + 1 < WORD => Plus(s, 1) = s + 1)
         /\ Minus(s, 1) \in Word /\ (1 <= s => Minus(s, 1) = s - 1)
         /\ \A y \in {LEDS, 2 * LEDS} :
              s % y \in Word /\ s % y \in Nat /\ s % y < y
         /\ \A y \in {LEDS, 2 * LEDS} :
              Plus(s, 1) % y \in Word /\ Plus(s, 1) % y \in Nat /\ Plus(s, 1) % y < y
  <1>1. 1 \in Nat /\ 1 \in 0..WORD
    BY Constants
  <1>2. Plus(s, 1) \in Word /\ (s + 1 < WORD => Plus(s, 1) = s + 1)
    BY <1>1, PlusWraps
  <1>3. Minus(s, 1) \in Word /\ (1 <= s => Minus(s, 1) = s - 1)
    BY <1>1, MinusWraps
  <1>4. ASSUME NEW x \in Word, NEW y \in {LEDS, 2 * LEDS}
        PROVE  x % y \in Word /\ x % y \in Nat /\ x % y < y
    <2>1. x \in Nat /\ y \in Nat \ {0}
      BY Constants DEF Word
    <2>2. x % y \in 0..(y - 1)
      BY <2>1, ModRange, Zenon
    <2> QED BY <2>1, <2>2, Constants DEF Word
  <1>5. \A x \in Word : x \in Nat /\ x < WORD
    BY Constants DEF Word
  <1> QED BY <1>2, <1>3, <1>4, <1>5

(***************************************************************************)
(* The modes that draw where their step says.                              *)
(***************************************************************************)
LEMMA WipeSound ==
  ASSUME NEW f \in Wipes, NEW r \in Runtime, NEW s \in Word, NEW rev \in BOOLEAN
  PROVE  Sound(f, r, s, color_wipe(r, s, rev)) /\ Sound(f, r, s, wipe_random(r, s, rev))
  <1> DEFINE e == color_wipe(r, s, rev)
             n == Plus(s, 1) % (2 * LEDS)
             off == IF r.step < LEDS THEN r.step ELSE Minus(r.step, LEDS)
  <1>1. n \in Word /\ n < 2 * LEDS
    BY OneStep
  <1>3. FitsMode(f, r) <=> r.step < 2 * LEDS
    BY DEF FitsMode, Wipes, Scans
  <1>4. \A q : q.step < 2 * LEDS => FitsMode(f, q)
    BY DEF FitsMode, Wipes, Scans
  <1>5. \A w \in Steps({n}), q \in Runtime : Merge(q, w) \in Runtime /\ FitsMode(f, Merge(q, w))
    BY <1>1, <1>4, MergeStep DEF Steps
  <1>6. r.step < 2 * LEDS => off \in Pixels /\ Minus(LEDS - 1, off) \in Pixels
    <2>1. r.step \in Word /\ r.step \in Nat /\ LEDS \in 0..WORD
      BY Fields, Constants DEF Word
    <2>2. ASSUME r.step < 2 * LEDS PROVE off \in Pixels
      <3>1. LEDS <= r.step => Minus(r.step, LEDS) = r.step - LEDS
        BY <2>1, MinusWraps
      <3> QED BY <2>1, <2>2, <3>1, Constants
    <2>3. ASSUME off \in Pixels PROVE Minus(LEDS - 1, off) \in Pixels
      <3>1. LEDS - 1 \in Word /\ off \in 0..WORD /\ off <= LEDS - 1
        BY <2>3, Constants DEF Word
      <3>2. Minus(LEDS - 1, off) = LEDS - 1 - off
        BY <3>1, MinusWraps
      <3> QED BY <2>3, <3>2, Constants
    <2> QED BY <2>2, <2>3
  <1>7. r.step < 2 * LEDS => e.lit \subseteq Pixels
    BY <1>6 DEF color_wipe
  <1>8. e.early = {r} /\ e.late = Steps({n})
    BY DEF color_wipe
  <1>9. Sound(f, r, s, e)
    BY <1>3, <1>5, <1>7, <1>8 DEF Sound
  <1>10. \A q \in Wheel(r, r.step % LEDS = 0) : q \in Runtime /\ q.step = r.step
    BY WheelRuntime
  <1>11. /\ wipe_random(r, s, rev).early = Wheel(r, r.step % LEDS = 0)
         /\ wipe_random(r, s, rev).lit = e.lit /\ wipe_random(r, s, rev).late = e.late
    BY DEF wipe_random, color_wipe
  <1>12. Sound(f, r, s, wipe_random(r, s, rev))
    BY <1>3, <1>4, <1>5, <1>7, <1>8, <1>10, <1>11 DEF Sound
  <1> QED BY <1>9, <1>12

\* The scanner turns before it leaves the strip, at either end.
LEMMA ScanSound ==
  ASSUME NEW f \in Scans, NEW r \in Runtime, NEW s \in Word, NEW dual \in BOOLEAN
  PROVE  Sound(f, r, s, scan(r, s, dual))
  <1> DEFINE e == scan(r, s, dual)
             t == IF r.aux THEN Minus(s, 1) ELSE Plus(s, 1)
  <1>1. /\ t \in Word /\ t \in Nat /\ r.step \in Word /\ r.step \in Nat /\ r.aux \in BOOLEAN
        /\ 0 \in Word /\ LEDS - 1 \in Word
    <2>1. t \in Word /\ r.step \in Word
      BY Fields, OneStep
    <2>2. \A x \in Word : x \in Nat
      BY OneStep
    <2>3. r.aux \in BOOLEAN
      BY Fields
    <2>4. 0 \in Word /\ LEDS - 1 \in Word
      BY Constants DEF Word
    <2> QED BY <2>1, <2>2, <2>3, <2>4
  <1>2. \A q : FitsMode(f, q) <=> IF q.aux THEN 0 < q.step /\ q.step < LEDS ELSE q.step < LEDS - 1
    BY DEF FitsMode, Wipes, Scans
  <1>3. \A w \in e.late : w = [step |-> t] \/ w \in {[step |-> t, aux |-> d] : d \in BOOLEAN}
    BY DEF scan, Steps
  <1>4. \A w \in e.late, q \in Runtime : Merge(q, w) \in Runtime
    BY <1>1, <1>3, MergeStep, MergeStepAux
  <1>5. FitsMode(f, r) => e.lit \subseteq Pixels
    <2>1. FitsMode(f, r) => r.step \in Pixels
      BY <1>1, <1>2, Constants
    <2>2. ASSUME r.step \in Pixels PROVE Minus(LEDS - 1, r.step) \in Pixels
      <3>1. LEDS - 1 \in Word /\ r.step \in 0..WORD /\ r.step <= LEDS - 1
        BY <2>2, Constants DEF Word
      <3>2. Minus(LEDS - 1, r.step) = LEDS - 1 - r.step
        BY <3>1, MinusWraps
      <3> QED BY <2>2, <3>2, Constants
    <2> QED BY <2>1, <2>2 DEF scan
  <1>6. t >= LEDS - 1 => e.late = {[step |-> t, aux |-> TRUE]}
    BY DEF scan
  <1>7. ~(t >= LEDS - 1) /\ t = 0 => e.late = {[step |-> t, aux |-> FALSE]}
    BY DEF scan
  <1>8. ~(t >= LEDS - 1) /\ t # 0 => e.late = {[step |-> t]}
    BY DEF scan, Steps
  <1>9. ASSUME FitsMode(f, r), s = r.step, NEW w \in e.late
        PROVE  FitsMode(f, Merge(r, w))
    <2>1. CASE r.aux
      <3>1. 0 < s /\ s < LEDS
        BY <1>2, <1>9, <2>1
      <3>2. t = s - 1
        BY <1>1, <1>9, <2>1, <3>1, OneStep
      <3>3. t < LEDS - 1
        BY <1>1, <1>9, <3>1, <3>2, Constants
      <3>4. w = IF t = 0 THEN [step |-> t, aux |-> FALSE] ELSE [step |-> t]
        BY <1>1, <1>9, <1>6, <1>7, <1>8, <3>3, Constants
      <3>5. CASE t = 0
        <4>1. Merge(r, w).step = 0 /\ ~Merge(r, w).aux
          BY <1>1, <3>4, <3>5, MergeStepAux
        <4> QED BY <1>2, <4>1, Constants
      <3>6. CASE t # 0
        <4>1. Merge(r, w).step = t /\ Merge(r, w).aux
          BY <1>1, <2>1, <3>4, <3>6, MergeStep
        <4> QED BY <1>1, <1>2, <3>3, <3>6, <4>1, Constants
      <3> QED BY <3>5, <3>6
    <2>2. CASE ~r.aux
      <3>1. s < LEDS - 1
        BY <1>2, <1>9, <2>2
      <3>2. t = s + 1
        <4>1. s + 1 < WORD
          BY <1>1, <1>9, <3>1, Constants
        <4>2. Plus(s, 1) = s + 1
          BY <4>1, OneStep
        <4> QED BY <2>2, <4>2
      <3>3. 0 < t /\ t <= LEDS - 1
        BY <1>1, <1>9, <3>1, <3>2, Constants
      <3>4. w = IF t = LEDS - 1 THEN [step |-> t, aux |-> TRUE] ELSE [step |-> t]
        BY <1>1, <1>9, <1>6, <1>7, <1>8, <3>3, Constants
      <3>5. CASE t = LEDS - 1
        <4>1. Merge(r, w).step = LEDS - 1 /\ Merge(r, w).aux
          BY <1>1, <3>4, <3>5, MergeStepAux
        <4> QED BY <1>2, <4>1, Constants
      <3>6. CASE t # LEDS - 1
        <4>1. Merge(r, w).step = t /\ ~Merge(r, w).aux
          BY <1>1, <2>2, <3>4, <3>6, MergeStep
        <4> QED BY <1>1, <1>2, <3>3, <3>6, <4>1, Constants
      <3> QED BY <3>5, <3>6
    <2> QED BY <2>1, <2>2
  <1>10. e.early = {r}
    BY DEF scan
  <1> QED BY <1>4, <1>5, <1>9, <1>10 DEF Sound

LEMMA LarsonSound ==
  ASSUME NEW r \in Runtime, NEW s \in Word
  PROVE  Sound("larson_scanner", r, s, larson_scanner(r, s))
  <1> DEFINE e == larson_scanner(r, s)
             t == Plus(s, 1)
             u == IF t >= 2 * LEDS - 2 THEN 0 ELSE t
  <1>1. u \in Word /\ u \in Nat /\ u < 2 * LEDS - 2
    <2>1. t \in Word /\ t \in Nat /\ 0 \in Word
      BY OneStep, Constants
    <2> QED BY <2>1, Constants
  <1>2. \A q : FitsMode("larson_scanner", q) <=> q.step < 2 * LEDS - 2
    BY DEF FitsMode, Wipes, Scans
  <1>3. e.early = {r} /\ e.late = Steps({u})
    BY DEF larson_scanner
  <1>4. \A w \in Steps({u}), q \in Runtime :
           Merge(q, w) \in Runtime /\ FitsMode("larson_scanner", Merge(q, w))
    BY <1>1, <1>2, MergeStep DEF Steps
  <1>5. r.step \in Nat /\ r.step \in Word
    BY Fields, Constants DEF Word
  <1>6. ASSUME r.step < 2 * LEDS - 2 PROVE e.lit \subseteq Pixels
    <2>1. CASE r.step < LEDS
      <3>1. r.step \in Pixels
        BY <1>5, <2>1, Constants
      <3> QED BY <2>1, <3>1 DEF larson_scanner
    <2>2. CASE ~(r.step < LEDS)
      <3>1. 2 * LEDS \in Word /\ r.step + 2 \in 0..WORD /\ r.step + 2 <= 2 * LEDS
        BY <1>5, <1>6, Constants DEF Word
      <3>2. Minus(2 * LEDS, r.step + 2) = 2 * LEDS - (r.step + 2)
        BY <3>1, MinusWraps
      <3>3. Minus(2 * LEDS, r.step + 2) \in Pixels
        BY <1>5, <1>6, <2>2, <3>2, Constants
      <3> QED BY <2>2, <3>3 DEF larson_scanner
    <2> QED BY <2>1, <2>2
  <1> QED BY <1>2, <1>3, <1>4, <1>6 DEF Sound

LEMMA CometSound ==
  ASSUME NEW r \in Runtime, NEW s \in Word
  PROVE  Sound("comet", r, s, comet(r, s))
  <1> DEFINE n == Plus(s, 1) % LEDS
  <1>1. \A q : FitsMode("comet", q) <=> q.step < LEDS
    BY DEF FitsMode, Wipes, Scans
  <1>2. n \in Word /\ n < LEDS
    BY OneStep
  <1>3. \A w \in Steps({n}), q \in Runtime :
           Merge(q, w) \in Runtime /\ FitsMode("comet", Merge(q, w))
    BY <1>1, <1>2, MergeStep DEF Steps
  <1>4. r.step < LEDS => r.step \in Pixels
    BY Fields, Constants DEF Word
  <1> QED BY <1>1, <1>3, <1>4 DEF Sound, comet

LEMMA ChaseFlashSound ==
  ASSUME NEW r \in Runtime, NEW s \in Word
  PROVE  Sound("chase_flash", r, s, chase_flash(r, s))
  <1> DEFINE t == Plus(s, 1) % LEDS
             e == chase_flash(r, s)
  <1>1. \A q : FitsMode("chase_flash", q) <=> q.step < LEDS
    BY DEF FitsMode, Wipes, Scans
  <1>2. t \in Word /\ t < LEDS /\ Plus(r.step, 1) % LEDS \in Pixels /\ 0 \in Word /\ 0 < LEDS
    <2>1. r.step \in Word
      BY Fields
    <2>2. Plus(r.step, 1) % LEDS \in Nat /\ Plus(r.step, 1) % LEDS < LEDS
      BY <2>1, OneStep
    <2>3. t \in Word /\ t < LEDS
      BY OneStep
    <2> QED BY <2>2, <2>3, Constants
  <1>3. r.step < LEDS => r.step \in Pixels
    BY Fields, Constants DEF Word
  <1>4. CASE r.call < 2 * flash_count
    <2>1. e = [early |-> {r}, lit |-> {r.step, Plus(r.step, 1) % LEDS}, late |-> Nothing]
      BY <1>4 DEF chase_flash
    <2>2. \A w \in Nothing, q \in Runtime : Merge(q, w) = q
      BY MergeNothing
    <2> QED BY <1>1, <1>2, <1>3, <2>1, <2>2 DEF Sound
  <1>5. CASE ~(r.call < 2 * flash_count)
    <2>1. e.early = {r} /\ e.lit = {}
      BY <1>5 DEF chase_flash
    <2>2. \A w \in e.late : w = [step |-> t] \/ w \in {[step |-> 0, aux |-> a] : a \in BOOLEAN}
      BY <1>5 DEF chase_flash, Steps
    <2>3. \A w \in e.late, q \in Runtime : Merge(q, w) \in Runtime /\ Merge(q, w).step < LEDS
      BY <1>2, <2>2, MergeStep, MergeStepAux
    <2> QED BY <1>1, <2>1, <2>3 DEF Sound
  <1> QED BY <1>4, <1>5

\* Every one of the 55 modes.
LEMMA EffectSound ==
  ASSUME NEW m \in 0..54, NEW r \in Runtime, NEW s \in Word
  PROVE  Sound(_modes[m + 1], r, s, Effect(m, r, s))
  <1> DEFINE f == _modes[m + 1]
  <1>1. f \in {"static", "blink", "random_color", "dynamic", "twinkle_fade", "hyper_sparkle",
               "fire_flicker", "fireworks", "fireworks_random", "sparkle", "breath", "fade",
               "rainbow", "tricolor_chase", "theater_chase_rainbow", "running_lights", "twinkle",
               "multi_strobe", "chase", "chase_rainbow", "chase_random", "running",
               "running_random"}
        \cup Wipes \cup Scans \cup {"chase_flash", "comet", "larson_scanner"}
    BY DEF _modes, Wipes, Scans
  <1>2. f \notin Wipes \cup Scans \cup {"chase_flash", "comet", "larson_scanner"} => f \in Free
    BY DEF Free
  <1> HIDE DEF f
  <1>3. CASE f \in Wipes
    BY <1>3, WipeSound DEF Wipes, Effect, f
  <1>4. CASE f \in Scans
    BY <1>4, ScanSound DEF Scans, Effect, f
  <1>5. CASE f \in {"chase_flash", "comet", "larson_scanner"}
    BY <1>5, ChaseFlashSound, CometSound, LarsonSound DEF Effect, f
  <1>6. CASE f \in {"static", "blink", "random_color", "dynamic", "twinkle_fade", "hyper_sparkle",
                    "fire_flicker", "fireworks", "fireworks_random", "sparkle"}
    <2>1. f \in Free
      BY <1>2, <1>6 DEF Wipes, Scans
    <2> QED BY <1>6, <2>1, RepaintingSound, SparkleSound DEF Effect, f
  <1>7. CASE f \in {"breath", "fade", "rainbow", "tricolor_chase", "theater_chase_rainbow",
                    "running_lights", "twinkle", "multi_strobe", "chase", "chase_rainbow",
                    "chase_random", "running", "running_random"}
    <2>1. f \in Free
      BY <1>2, <1>7 DEF Wipes, Scans
    <2> QED BY <1>7, <2>1, FreelySteppingSound DEF Effect, f
  <1> QED BY <1>1, <1>3, <1>4, <1>5, <1>6, <1>7 DEF f

-----------------------------------------------------------------------------
(***************************************************************************)
(* The two tasks.                                                          *)
(***************************************************************************)
Labels == {"idle", "stop", "clear", "dark", "color", "zero", "start", "reset", "mode", "draw",
           "advance", "call", "show", "wild"}

LEMMA FreshFits ==
  /\ Fresh \in Runtime
  /\ \A f : FitsMode(f, Fresh)
  /\ \A q, r : q.step = r.step /\ q.aux = r.aux => \A f : FitsMode(f, r) => FitsMode(f, q)
  <1>1. Fresh \in Runtime
    BY EffectsAssumption, Constants DEF Fresh, Runtime
  <1>2. \A f : FitsMode(f, Fresh)
    BY Constants DEF Fresh, FitsMode
  <1> QED BY <1>1, <1>2 DEF FitsMode

LEMMA OtherTask ==
  /\ "user" \in Tasks /\ "cloud" \in Tasks
  /\ Other("user") = "cloud" /\ Other("cloud") = "user"
  /\ \A a \in Tasks : Other(a) \in Tasks /\ Other(a) # a /\ \A b \in Tasks : b = a \/ b = Other(a)
  BY DEF Tasks, Other

\* What is left of the invariant when one task makes a step.
LEMMA Going ==
  ASSUME StripInv, NEW a \in Tasks, NEW l, Go(a, l)
  PROVE  /\ at' = [at EXCEPT ![a] = l] /\ at'[a] = l /\ at'[Other(a)] = at[Other(a)]
         /\ disturbed' \in BOOLEAN
         /\ ~disturbed' => /\ ~disturbed /\ at[Other(a)] = "idle" /\ DrawInv /\ DarkInv
  <1>1. at \in [Tasks -> Labels]
    BY DEF StripInv, StripTypeOK, Labels
  <1>2. at'[a] = l /\ at'[Other(a)] = at[Other(a)]
    BY <1>1, OtherTask DEF Go
  <1>3. disturbed' \in BOOLEAN /\ (~disturbed' => ~disturbed /\ at[Other(a)] = "idle")
    BY Zenon DEF Go
  <1> QED BY <1>2, <1>3 DEF Go, StripInv

LEMMA InitStrip == StripInit => StripInv
  <1> SUFFICES ASSUME StripInit PROVE StripInv
    OBVIOUS
  <1>1. StripTypeOK
    <2>1. NoArg \in [mode : 0..55, black : BOOLEAN]
      BY DEF NoArg
    <2>2. running \in BOOLEAN /\ black \in BOOLEAN /\ disturbed \in BOOLEAN
      BY Zenon DEF StripInit
    <2> QED BY <2>1, <2>2, FreshFits DEF StripInit, StripTypeOK
  <1>2. ArgInv /\ DrawInv /\ DarkInv
    BY OtherTask DEF StripInit, ArgInv, DrawInv, DarkInv, Serving
  <1> QED BY <1>1, <1>2 DEF StripInv

-----------------------------------------------------------------------------
(***************************************************************************)
(* The service.                                                            *)
(***************************************************************************)
\* The count of calls is only told apart as far as chase_flash does.
LEMMA CallCounted ==
  ASSUME NEW c \in 0..(2 * flash_count)
  PROVE  (c + 1) % (2 * flash_count + 1) \in 0..(2 * flash_count)
  <1> DEFINE x == c + 1
             y == 2 * flash_count + 1
  <1>1. x \in Nat /\ y \in Nat \ {0} /\ y - 1 = 2 * flash_count
    BY EffectsAssumption
  <1> HIDE DEF x, y
  <1>2. x % y \in 0..(y - 1)
    BY <1>1, ModRange
  <1>3. x % y \in 0..(2 * flash_count)
    BY <1>1, <1>2
  <1> QED BY <1>3 DEF x, y

LEMMA ServeTyped == ASSUME StripInv, Serve PROVE StripTypeOK' /\ ArgInv'
  <1> USE DEF StripInv, StripTypeOK
  <1>1. /\ rt' \in Runtime /\ got' \in Runtime
    <2>1. CASE Service
      BY <2>1 DEF Service
    <2>2. CASE Draw
      <3>1. rt.step \in Word /\ 0 \in Word
        BY Fields, Constants
      <3>2. Effect(doing, rt, 0).early \subseteq Runtime
        BY <3>1, EffectSound DEF Sound
      <3> QED BY <2>2, <3>2 DEF Draw
    <2>3. CASE Advance
      <3>1. PICK s \in {got.step, rt.step} :
              \E w \in Effect(doing, got, s).late : rt' = Merge(rt, w)
        BY <2>3, Zenon DEF Advance
      <3>2. s \in Word
        BY <3>1, Fields
      <3>3. \A w \in Effect(doing, got, s).late : Merge(rt, w) \in Runtime
        BY <3>2, EffectSound DEF Sound
      <3> QED BY <2>3, <3>1, <3>3 DEF Advance
    <2>4. CASE CountCall
      <3>1. rt.call \in 0..(2 * flash_count)
        BY Fields
      <3>2. (rt.call + 1) % (2 * flash_count + 1) \in 0..(2 * flash_count)
        BY <3>1, CallCounted
      <3> QED BY <2>4, <3>2 DEF CountCall, Runtime
    <2>5. CASE Show
      BY <2>5, FreshFits DEF Show
    <2> QED BY <2>1, <2>2, <2>3, <2>4, <2>5 DEF Serve
  <1>2. PICK l \in Labels \ {"stop", "clear", "dark", "color", "zero", "start", "reset", "mode"} :
          Go("user", l)
    BY DEF Serve, Service, Draw, Advance, CountCall, Show, Labels
  <1>3. disturbed' \in BOOLEAN /\ at' \in [Tasks -> Labels]
    BY <1>2, Going, OtherTask DEF Labels
  <1>4. /\ doing' \in 0..54
        /\ buf' \in {"cleared", "drawn"} /\ strip' \in {"cleared", "drawn"}
        /\ UNCHANGED <<running, mode, black, arg>>
    BY DEF Serve, Service, Draw, Advance, CountCall, Show
  <1>5. ArgInv'
    <2>1. at' = [at EXCEPT !["user"] = l]
      BY <1>2, OtherTask, Going
    <2> QED BY <1>4, <2>1, OtherTask DEF ArgInv, Serving, Labels
  <1> QED BY <1>1, <1>3, <1>4, <1>5 DEF Labels

LEMMA ServeCalm == ASSUME StripInv, Serve, ~disturbed' PROVE DrawInv' /\ DarkInv'
  <1>1. PICK l \in Labels : Go("user", l)
    BY DEF Serve, Service, Draw, Advance, CountCall, Show, Labels
  <1>2. /\ ~disturbed /\ at["cloud"] = "idle" /\ DrawInv /\ DarkInv
        /\ at' = [at EXCEPT !["user"] = l] /\ at'["user"] = l /\ at'["cloud"] = "idle"
    BY <1>1, Going, OtherTask
  <1>3. rt \in Runtime /\ got \in Runtime /\ doing \in 0..54 /\ 0 \in Word /\ rt.step \in Word
        /\ \A a \in Tasks : a = "user" \/ a = "cloud"
    BY Fields, Constants, OtherTask DEF StripInv, StripTypeOK
  <1> USE OtherTask DEF DrawInv, DarkInv, Serving
  <1>4. CASE Service
    <2>1. at["user"] = "idle" /\ running /\ doing' = mode /\ at'["user"] = "draw"
          /\ UNCHANGED <<running, mode, rt, buf, strip>>
      <3>1. Go("user", "draw")
        BY <1>4 DEF Service
      <3> QED BY <1>2, <1>4, <3>1, Going DEF Service
    <2>2. Fits(mode, rt)
      BY <1>2, <1>3, <2>1
    <2> QED BY <1>2, <1>3, <2>1, <2>2 DEF Fits
  <1>5. CASE Draw
    <2> DEFINE f == _modes[doing + 1]
    <2>1. at["user"] = "draw" /\ running /\ doing = mode /\ Fits(mode, rt)
      BY <1>2, <1>5 DEF Draw
    <2>2. Sound(f, rt, 0, Effect(doing, rt, 0)) /\ FitsMode(f, rt)
      BY <1>3, <2>1, EffectSound DEF Fits
    <2>3. \A q \in Effect(doing, rt, 0).early : q \in Runtime /\ FitsMode(f, q)
      BY <2>2 DEF Sound
    <2>4. ASSUME NEW q \in Effect(doing, rt, 0).early PROVE Effect(doing, q, 0).lit \subseteq Pixels
      <3>1. Sound(f, q, 0, Effect(doing, q, 0))
        BY <1>3, <2>3, EffectSound
      <3> QED BY <2>3, <3>1 DEF Sound
    <2>5. Go("user", "advance") /\ rt' \in Effect(doing, rt, 0).early /\ got' = rt'
          /\ UNCHANGED <<running, mode, strip, doing>>
      BY <1>5, <2>4 DEF Draw
    <2>6. at'["user"] = "advance"
      BY <2>5, Going
    <2>7. Fits(mode, rt)'
      BY <2>1, <2>3, <2>5 DEF Fits
    <2> QED BY <1>2, <1>3, <2>1, <2>5, <2>6, <2>7
  <1>6. CASE Advance
    <2> DEFINE f == _modes[doing + 1]
    <2>1. at["user"] = "advance" /\ running /\ doing = mode /\ got = rt /\ Fits(mode, rt)
          /\ at'["user"] = "call" /\ UNCHANGED <<running, mode, buf, strip, doing, got>>
      <3>1. Go("user", "call")
        BY <1>6 DEF Advance
      <3> QED BY <1>2, <1>6, <3>1, Going DEF Advance
    <2>2. Sound(f, rt, rt.step, Effect(doing, rt, rt.step)) /\ FitsMode(f, rt)
      BY <1>3, <2>1, EffectSound DEF Fits
    <2>3. PICK w \in Effect(doing, rt, rt.step).late : rt' = Merge(rt, w)
      BY <1>6, <2>1 DEF Advance
    <2>4. Fits(mode, rt)'
      BY <2>1, <2>2, <2>3 DEF Sound, Fits
    <2> QED BY <1>2, <1>3, <2>1, <2>4
  <1>7. CASE CountCall
    <2>1. at["user"] = "call" /\ running /\ Fits(mode, rt) /\ at'["user"] = "show"
          /\ UNCHANGED <<running, mode, buf, strip>>
      <3>1. Go("user", "show")
        BY <1>7 DEF CountCall
      <3> QED BY <1>2, <1>7, <3>1, Going DEF CountCall
    <2>2. rt'.step = rt.step /\ rt'.aux = rt.aux
      BY <1>3, <1>7 DEF CountCall, Runtime
    <2>3. Fits(mode, rt)'
      BY <2>1, <2>2, FreshFits DEF Fits
    <2> QED BY <1>2, <1>3, <2>1, <2>3
  <1>8. CASE Show
    <2>1. at["user"] = "show" /\ running /\ Fits(mode, rt) /\ at'["user"] = "idle"
          /\ UNCHANGED <<running, mode, rt, buf>>
      <3>1. Go("user", "idle")
        BY <1>8 DEF Show
      <3> QED BY <1>2, <1>8, <3>1, Going DEF Show
    <2>2. Fits(mode, rt)'
      BY <2>1 DEF Fits
    <2> QED BY <1>2, <1>3, <2>1, <2>2
  <1> QED BY <1>4, <1>5, <1>6, <1>7, <1>8 DEF Serve

-----------------------------------------------------------------------------
(***************************************************************************)
(* The commands.                                                           *)
(***************************************************************************)
LEMMA CommandTyped ==
  ASSUME StripInv, NEW a \in Tasks, Begin(a) \/ Set(a)
  PROVE  StripTypeOK' /\ ArgInv'
  <1> USE DEF StripInv, StripTypeOK
  <1>1. PICK l \in {"idle", "stop", "clear", "dark", "color", "zero", "start", "reset", "mode"} :
          at' = [at EXCEPT ![a] = l]
    BY DEF Begin, Set, Stop, Clear, Dark, SetColor, ResetRuntimes, Start, ResetRuntime, SetMode, Go
  <1>2. at' \in [Tasks -> Labels]
    BY <1>1 DEF Labels
  <1>3. disturbed' \in BOOLEAN
    BY Zenon
    DEF Begin, Set, Stop, Clear, Dark, SetColor, ResetRuntimes, Start, ResetRuntime, SetMode, Go
  <1>4. CASE Begin(a)
    <2>1. PICK m \in Requests, b \in BOOLEAN :
            /\ arg' = [arg EXCEPT ![a] = [mode |-> m, black |-> b]]
            /\ at' = [at EXCEPT ![a] = IF m = 0 THEN "stop" ELSE "color"]
      BY <1>4, Zenon DEF Begin
    <2>2. [mode |-> m, black |-> b] \in [mode : 0..55, black : BOOLEAN]
      BY <2>1, EffectsAssumption
    <2>3. arg' \in [Tasks -> [mode : 0..55, black : BOOLEAN]]
      BY <2>1, <2>2
    <2>4. UNCHANGED <<running, mode, black, rt, buf, strip, doing, got>>
      BY <1>4 DEF Begin
    <2>5. ArgInv'
      BY <2>1, OtherTask DEF ArgInv, Serving
    <2> QED BY <1>2, <1>3, <2>3, <2>4, <2>5 DEF Labels
  <1>5. CASE Set(a)
    <2>1. NoArg \in [mode : 0..55, black : BOOLEAN]
      BY DEF NoArg
    <2>2. arg' = arg \/ arg' = [arg EXCEPT ![a] = NoArg]
      BY <1>5 DEF Set, Stop, Clear, Dark, SetColor, ResetRuntimes, Start, ResetRuntime, SetMode
    <2>3. arg' \in [Tasks -> [mode : 0..55, black : BOOLEAN]]
      BY <2>1, <2>2
    <2>4. arg[a].mode \in 0..55 /\ arg[a].black \in BOOLEAN
      OBVIOUS
    <2>5. mode' \in 0..54
      <3>1. at[a] = "mode" => arg[a].mode # 0
        BY DEF ArgInv
      <3> QED BY <1>5, <2>4, <3>1
              DEF Set, Stop, Clear, Dark, SetColor, ResetRuntimes, Start, ResetRuntime, SetMode
    <2>6. running' \in BOOLEAN /\ black' \in BOOLEAN
      BY <1>5, <2>4, Zenon
      DEF Set, Stop, Clear, Dark, SetColor, ResetRuntimes, Start, ResetRuntime, SetMode
    <2>7. /\ rt' \in Runtime /\ buf' \in {"cleared", "drawn"} /\ strip' \in {"cleared", "drawn"}
          /\ UNCHANGED <<doing, got>>
      BY <1>5, FreshFits
      DEF Set, Stop, Clear, Dark, SetColor, ResetRuntimes, Start, ResetRuntime, SetMode
    <2>8. ArgInv'
      <3>1. UNCHANGED arg \/ at'[a] = "idle"
        BY <1>5, Going
        DEF Set, Stop, Clear, Dark, SetColor, ResetRuntimes, Start, ResetRuntime, SetMode
      <3>2. l \in {"zero", "start", "reset", "mode"} =>
                at[a] \in {"color", "zero", "start", "reset"}
        BY <1>1, <1>5
        DEF Set, Stop, Clear, Dark, SetColor, ResetRuntimes, Start, ResetRuntime, SetMode, Go
      <3>3. l # "color"
        BY <1>1, <1>5
        DEF Set, Stop, Clear, Dark, SetColor, ResetRuntimes, Start, ResetRuntime, SetMode, Go
      <3> QED BY <1>1, <2>2, <3>1, <3>2, <3>3, OtherTask DEF ArgInv, Serving
    <2> QED BY <1>2, <1>3, <2>3, <2>5, <2>6, <2>7, <2>8 DEF Labels
  <1> QED BY <1>4, <1>5

\* A command that begins while the other task is idle: nothing else is
\* known, and nothing else is needed, since it stops the strip or restarts it.
LEMMA BeginCalm ==
  ASSUME StripInv, NEW a \in Tasks, Begin(a), ~disturbed'
  PROVE  DrawInv' /\ DarkInv'
  <1>1. at[Other(a)] = "idle"
    BY DEF Begin
  <1>2. at'[a] \in {"stop", "color"} /\ at'[Other(a)] = "idle"
    <2>1. at \in [Tasks -> Labels]
      BY DEF StripInv, StripTypeOK, Labels
    <2> QED BY <1>1, <2>1, OtherTask DEF Begin
  <1>3. \A b \in Tasks : at'[b] \in {"stop", "color", "idle"}
    BY <1>2, OtherTask
  <1>4. \E b \in Tasks : at'[b] = "idle"
    BY <1>2, OtherTask
  <1>5. \E b \in Tasks : at'[b] # "idle"
    BY <1>2
  <1> QED BY <1>3, <1>4, <1>5, OtherTask DEF DrawInv, DarkInv, Serving

LEMMA SetCalm ==
  ASSUME StripInv, NEW a \in Tasks, Set(a), ~disturbed'
  PROVE  DrawInv' /\ DarkInv'
  <1>1. PICK l \in Labels : Go(a, l)
    BY DEF Set, Stop, Clear, Dark, SetColor, ResetRuntimes, Start, ResetRuntime, SetMode, Labels
  <1>2. /\ ~disturbed /\ at[Other(a)] = "idle" /\ DrawInv /\ DarkInv
        /\ at'[a] = l /\ at'[Other(a)] = "idle"
    BY <1>1, Going
  <1>3. \A b \in Tasks : b = a \/ b = Other(a)
    BY OtherTask
  <1> USE OtherTask DEF DrawInv, DarkInv, Serving
  <1>4. CASE Stop(a)
    <2>1. at'[a] = "clear" /\ ~running'
      BY <1>4, Going DEF Stop
    <2> QED BY <1>2, <1>3, <2>1
  <1>5. CASE Clear(a)
    <2>1. at'[a] = "dark" /\ ~running' /\ buf' = "cleared"
      BY <1>2, <1>5, Going DEF Clear
    <2> QED BY <1>2, <1>3, <2>1
  <1>6. CASE Dark(a)
    <2>1. at'[a] = "idle" /\ ~running' /\ strip' = "cleared"
      BY <1>2, <1>6, Going DEF Dark
    <2> QED BY <1>2, <1>3, <2>1
  <1>7. CASE SetColor(a) \/ ResetRuntimes(a)
    <2>1. at'[a] \in {"zero", "start"}
      BY <1>7, Going DEF SetColor, ResetRuntimes
    <2> QED BY <1>2, <1>3, <2>1
  <1>8. CASE Start(a)
    <2>1. at'[a] = "reset" /\ running'
      BY <1>8, Going DEF Start
    <2> QED BY <1>2, <1>3, <2>1
  <1>9. CASE ResetRuntime(a)
    <2>1. at'[a] = "mode" /\ running' /\ rt' = Fresh
      BY <1>2, <1>9, Going DEF ResetRuntime
    <2> QED BY <1>2, <1>3, <2>1
  <1>10. CASE SetMode(a)
    <2>1. at'[a] = "idle" /\ running' /\ rt' = Fresh
      BY <1>2, <1>10, Going DEF SetMode
    <2>2. Fits(mode, rt)'
      BY <2>1, FreshFits DEF Fits
    <2> QED BY <1>2, <1>3, <2>1, <2>2
  <1> QED BY <1>4, <1>5, <1>6, <1>7, <1>8, <1>9, <1>10 DEF Set

-----------------------------------------------------------------------------
LEMMA NextStrip == ASSUME StripInv, [StripNext]_stripVars PROVE StripInv'
  <1>1. CASE Serve
    BY <1>1, ServeTyped, ServeCalm DEF StripInv
  <1>2. ASSUME NEW a \in Tasks, Begin(a) PROVE StripInv'
    BY <1>2, CommandTyped, BeginCalm DEF StripInv
  <1>3. ASSUME NEW a \in Tasks, Set(a) PROVE StripInv'
    BY <1>3, CommandTyped, SetCalm DEF StripInv
  <1>4. CASE UNCHANGED stripVars
    BY <1>4 DEF stripVars, StripInv, StripTypeOK, ArgInv, DrawInv, DarkInv, Fits, FitsMode
  <1> QED BY <1>1, <1>2, <1>3, <1>4 DEF StripNext

LEMMA StripInvariance == StripSpec => []StripInv
  BY InitStrip, NextStrip, PTL DEF StripSpec

\* None of the 55 modes draws outside the strip, for every number of LEDs and
\* every width of the counters, unless a command of the other task came in
\* between; the segment and its runtime keep their types even then.
THEOREM NothingOutsideStrip == StripSpec => []PixelsInStrip
  <1>1. StripInv => PixelsInStrip
    BY DEF StripInv, DrawInv, PixelsInStrip
  <1> QED BY <1>1, StripInvariance, PTL

\* Off is dark: when colorful mode 0 was set and the tasks did not overlap
\* since, the strip shows what the cleared buffer holds.
THEOREM DarkWhenOff == StripSpec => []OffIsDark
  <1>1. StripInv => OffIsDark
    BY DEF StripInv, DarkInv, OffIsDark
  <1> QED BY <1>1, StripInvariance, PTL
=============================================================================
