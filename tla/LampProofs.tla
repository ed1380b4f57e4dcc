----------------------------- MODULE LampProofs -----------------------------
(***************************************************************************)
(* The invariants of Lamp, for every range of the brightness and of the    *)
(* colour temperature, every speed of the knob and any number of control   *)
(* messages.                                                               *)
(***************************************************************************)
EXTENDS Lamp, TLAPS

\* The labels of the three functions, from a given statement to the end.
FromPower == {"p_y", "p_w"}
FromOut == {"p"} \cup FromPower
FromRatio == {"k_w", "k_wo"} \cup FromOut
FromTemp == {"k_y", "k_yo"} \cup FromRatio
FromBright == {"b_y", "b_w", "k"} \cup FromTemp
FromStart == {"b"} \cup FromBright

(***************************************************************************)
(* What a task that sets the light alone has already achieved.             *)
(***************************************************************************)
Alone(a) == ~torn /\ Idle(Other(a))

ValuesSet(a) ==
  /\ pc[a] \in FromBright => brightness_value = arg[a].b
  /\ pc[a] \in FromTemp => color_temp_value = arg[a].k
  /\ pc[a] \in FromPower => power_sw = arg[a].p

LightSet(a) ==
  /\ pc[a] \in {"k_yo"} \cup FromRatio => ratio[1] = Yellow(arg[a].k)
  /\ pc[a] \in {"k_wo"} \cup FromOut => ratio[2] = White(arg[a].k)
  /\ pc[a] \in FromRatio => out[1] = ratio[1] * brightness_value
  /\ pc[a] \in FromOut => out[2] = ratio[2] * brightness_value
  /\ pc[a] = "p_w" => ch[1] = IF arg[a].p THEN out[1] ELSE 0

LightInv ==
  /\ ~Idle("user") /\ ~Idle("cloud") => torn
  /\ \A a \in Actor : Alone(a) => ValuesSet(a) /\ LightSet(a)
  /\ AllIdle /\ ~torn => LightIsTrue

(***************************************************************************)
(* What was asked for: kept by the values that are shown, or by what       *)
(* main_screen has read of them.                                           *)
(***************************************************************************)
PowerKept(p) == (p => asked.p) /\ (asked.p /\ asked.b # 0 => p)

Kept ==
  /\ pc["cloud"] \in {"idle"} \cup FromBright => brightness_value = asked.b
  /\ pc["cloud"] \in {"idle"} \cup FromTemp => color_temp_value = asked.k
  /\ pc["cloud"] \in {"idle"} \cup FromPower => PowerKept(power_sw)
  /\ pc["user"] # "idle" => PowerKept(arg["user"].p)
  /\ pc["user"] \notin {"idle", "load_b"} => arg["user"].b = asked.b
  /\ pc["user"] \notin {"idle", "load_b", "load_k"} => arg["user"].k = asked.k

KeptInv ==
  /\ pc["cloud"] \in {"idle"} \cup FromStart
  /\ pc["cloud"] # "idle" => arg["cloud"] = asked
  /\ ~Idle("user") /\ ~Idle("cloud") => lost
  /\ ~lost /\ ~turned => Kept

IInv == TypeOK /\ LightInv /\ KeptInv

-----------------------------------------------------------------------------
(***************************************************************************)
(* Types.                                                                  *)
(***************************************************************************)
LEMMA ProductBound ==
  ASSUME NEW x \in 0..Full, NEW r \in 0..Span
  PROVE  r * x \in 0..(Full * Span)
  <1>1. /\ x \in Int /\ r \in Int /\ Full \in Int /\ Span \in Int
        /\ 0 <= x /\ x <= Full /\ 0 <= r /\ r <= Span
    BY LampAssumption
  <1>2. 0 <= r * x /\ r * x <= Span * x
    BY <1>1
  <1>3. Span * x <= Full * Span
    BY <1>1
  <1> QED BY <1>1, <1>2, <1>3

LEMMA ClampBound ==
  ASSUME NEW x \in Int, NEW top \in Nat
  PROVE  Clamp(x, top) \in 0..top
  BY DEF Clamp

LEMMA AdjustedSetting ==
  ASSUME NEW v \in Setting, NEW e \in -MaxSpeed..MaxSpeed, NEW moved \in BOOLEAN,
         NEW pressed \in BOOLEAN
  PROVE  Adjusted(v, e, moved, pressed) \in Setting
  <1>1. v.b \in 0..Full /\ v.k \in 0..Span /\ v.p \in BOOLEAN
    BY DEF Setting
  <1>2. v.b + e \in Int /\ v.k + e \in Int /\ Full \in Nat /\ Span \in Nat
    BY <1>1, LampAssumption
  <1>3. Clamp(v.b + e, Full) \in 0..Full /\ Clamp(v.k + e, Span) \in 0..Span
    BY <1>2, ClampBound
  <1>4. /\ Adjusted(v, e, moved, pressed).b \in 0..Full
        /\ Adjusted(v, e, moved, pressed).k \in 0..Span
    BY <1>1, <1>3 DEF Adjusted
  <1> QED BY <1>4 DEF Adjusted, Setting

LEMMA InitTyped == Init => TypeOK
  <1> SUFFICES ASSUME Init PROVE TypeOK
    OBVIOUS
  <1>1. Span \div 2 \in 0..Span /\ 0 \in 0..Full /\ 0 \in 0..Span
    BY LampAssumption
  <1>2. 0 \in 0..(Full * Span)
    BY ProductBound, <1>1
  <1>3. [b |-> 0, k |-> Span \div 2, p |-> FALSE] \in Setting
    BY <1>1 DEF Setting
  <1>4. [b |-> 0, k |-> 0, p |-> FALSE] \in Setting
    BY <1>1 DEF Setting
  <1>5. /\ power_sw \in BOOLEAN /\ menu \in BOOLEAN /\ turned \in BOOLEAN
        /\ lost \in BOOLEAN /\ torn \in BOOLEAN
    BY Zenon DEF Init
  <1>6. pc \in [Actor -> Label] /\ arg \in [Actor -> Setting] /\ asked \in Setting
    BY <1>3, <1>4 DEF Init, Label
  <1>7. /\ brightness_value \in 0..Full /\ color_temp_value \in 0..Span
        /\ ratio \in [1..2 -> 0..Span] /\ out \in [1..2 -> 0..(Full * Span)]
        /\ ch \in [1..2 -> 0..(Full * Span)] /\ orders \in 0..MaxOrders
    BY <1>1, <1>2, LampAssumption DEF Init
  <1> QED BY <1>5, <1>6, <1>7 DEF TypeOK

\* A statement of one of the three functions.
LEMMA GoTyped ==
  ASSUME TypeOK, NEW a \in Actor, NEW from \in Label, NEW to \in Label, Go(a, from, to)
  PROVE  /\ pc' \in [Actor -> Label] /\ arg' \in [Actor -> Setting]
         /\ menu' \in BOOLEAN /\ orders' \in 0..MaxOrders /\ asked' \in Setting
         /\ turned' \in BOOLEAN /\ lost' \in BOOLEAN
  BY DEF TypeOK, Go

LEMMA SetTyped ==
  ASSUME TypeOK, NEW a \in Actor, Set(a)
  PROVE  TypeOK'
  <1>1. /\ pc' \in [Actor -> Label] /\ arg' \in [Actor -> Setting]
        /\ menu' \in BOOLEAN /\ orders' \in 0..MaxOrders /\ asked' \in Setting
        /\ turned' \in BOOLEAN /\ lost' \in BOOLEAN
    <2>1. PICK from \in Label, to \in Label : Go(a, from, to)
      BY DEF Set, SetBrightness, SetColorTemp, PowerSwitch, Label
    <2> QED BY <2>1, GoTyped
  <1>2. arg[a].b \in 0..Full /\ arg[a].k \in 0..Span /\ arg[a].p \in BOOLEAN
    BY DEF TypeOK, Setting
  <1>3. \A i \in 1..2 : ratio[i] * brightness_value \in 0..(Full * Span)
    BY ProductBound DEF TypeOK
  <1>4. Yellow(arg[a].k) \in 0..Span /\ White(arg[a].k) \in 0..Span
    BY <1>2, LampAssumption DEF Yellow, White
  <1>5. 0 \in 0..(Full * Span)
    BY ProductBound, LampAssumption
  <1>6. CASE SetBrightness(a)
    <2>1. brightness_value' \in 0..Full /\ out' \in [1..2 -> 0..(Full * Span)]
      BY <1>2, <1>3, <1>6 DEF TypeOK, SetBrightness, Scale
    <2>2. UNCHANGED <<color_temp_value, power_sw, ratio, ch, torn>>
      BY <1>6 DEF SetBrightness
    <2> QED BY <1>1, <2>1, <2>2 DEF TypeOK
  <1>7. CASE SetColorTemp(a)
    <2>1. /\ color_temp_value' \in 0..Span /\ ratio' \in [1..2 -> 0..Span]
          /\ out' \in [1..2 -> 0..(Full * Span)]
      BY <1>2, <1>3, <1>4, <1>7 DEF TypeOK, SetColorTemp, Scale
    <2>2. UNCHANGED <<brightness_value, power_sw, ch, torn>>
      BY <1>7 DEF SetColorTemp
    <2> QED BY <1>1, <2>1, <2>2 DEF TypeOK
  <1>8. CASE PowerSwitch(a)
    <2>1. ch' \in [1..2 -> 0..(Full * Span)]
      BY <1>5, <1>8 DEF TypeOK, PowerSwitch, Compare
    <2>2. power_sw' \in BOOLEAN /\ torn' \in BOOLEAN
      BY <1>2, <1>8 DEF TypeOK, PowerSwitch
    <2>3. UNCHANGED <<brightness_value, color_temp_value, ratio, out>>
      BY <1>8 DEF PowerSwitch
    <2> QED BY <1>1, <2>1, <2>2, <2>3 DEF TypeOK
  <1> QED BY <1>6, <1>7, <1>8 DEF Set

LEMMA OtherTyped ==
  ASSUME TypeOK, LoadPower \/ LoadValues \/ Knob \/ Menu \/ Order \/ UNCHANGED vars
  PROVE  TypeOK'
  <1>1. CASE LoadPower
    <2>1. arg' \in [Actor -> Setting]
      BY <1>1 DEF TypeOK, LoadPower, Setting, Actor
    <2>2. torn' \in BOOLEAN /\ lost' \in BOOLEAN
      BY <1>1, Zenon DEF TypeOK, LoadPower, Enter, Idle
    <2>3. pc' \in [Actor -> Label]
      BY <1>1 DEF TypeOK, LoadPower, Label, Actor
    <2>4. UNCHANGED <<state, menu, orders, asked, turned>>
      BY <1>1 DEF LoadPower
    <2> QED BY <2>1, <2>2, <2>3, <2>4 DEF TypeOK, state
  <1>2. CASE LoadValues
    <2>1. arg' \in [Actor -> Setting]
      BY <1>2 DEF TypeOK, LoadValues, Setting, Actor
    <2>2. pc' \in [Actor -> Label]
      BY <1>2 DEF TypeOK, LoadValues, Label, Actor
    <2>3. UNCHANGED <<state, menu, ghost>>
      BY <1>2 DEF LoadValues
    <2> QED BY <2>1, <2>2, <2>3 DEF TypeOK, state, ghost
  <1>3. CASE Knob
    <2>1. PICK e \in -MaxSpeed..MaxSpeed, moved \in BOOLEAN, pressed \in BOOLEAN :
            /\ arg' = [arg EXCEPT !["user"] = Adjusted(arg["user"], e, moved, pressed)]
            /\ turned' = (turned \/ moved)
      BY <1>3, Zenon DEF Knob
    <2>2. Adjusted(arg["user"], e, moved, pressed) \in Setting
      BY AdjustedSetting DEF TypeOK, Actor
    <2>3. arg' \in [Actor -> Setting]
      BY <2>1, <2>2 DEF TypeOK
    <2>4. turned' \in BOOLEAN
      BY <2>1, Zenon
    <2>5. pc' \in [Actor -> Label]
      BY <1>3 DEF TypeOK, Knob, Label, Actor
    <2>6. UNCHANGED <<state, menu, orders, asked, lost, torn>>
      BY <1>3 DEF Knob
    <2> QED BY <2>3, <2>4, <2>5, <2>6 DEF TypeOK, state
  <1>4. CASE Menu
    <2>1. menu' \in BOOLEAN
      BY <1>4, Zenon DEF Menu
    <2>2. UNCHANGED <<state, pc, arg, ghost>>
      BY <1>4 DEF Menu
    <2> QED BY <2>1, <2>2 DEF TypeOK, state, ghost
  <1>5. CASE Order
    <2>1. PICK v \in Setting : arg' = [arg EXCEPT !["cloud"] = v] /\ asked' = v
      BY <1>5, Zenon DEF Order
    <2>2. arg' \in [Actor -> Setting] /\ asked' \in Setting
      BY <2>1 DEF TypeOK
    <2>3. turned' \in BOOLEAN /\ lost' \in BOOLEAN /\ torn' \in BOOLEAN
      BY <1>5, Zenon DEF Order, Enter, Idle
    <2>4. pc' \in [Actor -> Label] /\ orders' \in 0..MaxOrders
      BY <1>5, LampAssumption DEF TypeOK, Order, Label, Actor
    <2>5. UNCHANGED <<state, menu>>
      BY <1>5 DEF Order
    <2> QED BY <2>2, <2>3, <2>4, <2>5 DEF TypeOK, state
  <1>6. CASE UNCHANGED vars
    BY <1>6 DEF TypeOK, vars, state, ghost
  <1> QED BY <1>1, <1>2, <1>3, <1>4, <1>5, <1>6

-----------------------------------------------------------------------------
(***************************************************************************)
(* What was asked for.                                                     *)
(***************************************************************************)
LEMMA SetKept ==
  ASSUME TypeOK, KeptInv, NEW a \in Actor, Set(a)
  PROVE  KeptInv'
  <1> USE DEF KeptInv, Kept, PowerKept, Idle, FromStart, FromBright, FromTemp, FromRatio, FromOut,
              FromPower, Actor
  <1>1. arg \in [Actor -> Setting] /\ pc \in [Actor -> Label]
    BY DEF TypeOK
  <1>2. CASE SetBrightness(a)
    BY <1>1, <1>2 DEF SetBrightness, Go
  <1>3. CASE SetColorTemp(a)
    BY <1>1, <1>3 DEF SetColorTemp, Go
  <1>4. CASE PowerSwitch(a)
    BY <1>1, <1>4 DEF PowerSwitch, Go
  <1> QED BY <1>2, <1>3, <1>4 DEF Set

LEMMA LoadKept ==
  ASSUME TypeOK, KeptInv, LoadPower \/ LoadValues
  PROVE  KeptInv'
  <1> USE DEF KeptInv, Kept, PowerKept, Idle, FromStart, FromBright, FromTemp, FromRatio, FromOut,
              FromPower, Actor
  <1>1. arg \in [Actor -> Setting] /\ pc \in [Actor -> Label]
    BY DEF TypeOK
  <1>2. arg["user"] \in [b : 0..Full, k : 0..Span, p : BOOLEAN]
    BY <1>1 DEF Setting
  <1>3. CASE LoadPower
    BY <1>1, <1>2, <1>3 DEF LoadPower, Enter, Other, state
  <1>4. CASE LoadValues
    BY <1>1, <1>2, <1>4 DEF LoadValues, state, ghost
  <1> QED BY <1>3, <1>4

\* A knob at rest gives back what was read, or switches off a lamp at zero.
LEMMA KnobKept ==
  ASSUME TypeOK, KeptInv, Knob
  PROVE  KeptInv'
  <1> USE DEF KeptInv, Kept, PowerKept, Idle, FromStart, FromBright, FromTemp, FromRatio, FromOut,
              FromPower, Actor
  <1>1. arg \in [Actor -> Setting] /\ pc \in [Actor -> Label]
    BY DEF TypeOK
  <1>2. PICK e \in -MaxSpeed..MaxSpeed, moved \in BOOLEAN, pressed \in BOOLEAN :
          /\ e # 0 => moved
          /\ arg' = [arg EXCEPT !["user"] = Adjusted(arg["user"], e, moved, pressed)]
          /\ turned' = (turned \/ moved)
    BY Zenon DEF Knob
  <1>3. /\ pc["user"] = "knob" /\ pc' = [pc EXCEPT !["user"] = "b"]
        /\ UNCHANGED <<state, menu, orders, asked, lost, torn>>
    BY DEF Knob
  <1>4. CASE lost \/ turned \/ moved
    BY <1>1, <1>2, <1>3, <1>4 DEF state
  <1>5. CASE ~lost /\ ~turned /\ ~moved
    <2>1. arg["user"].b \in 0..Full /\ arg["user"].k \in 0..Span
      BY <1>1 DEF Setting
    <2>2. arg'["user"] = Adjusted(arg["user"], 0, FALSE, pressed)
      BY <1>1, <1>2, <1>5
    <2>3. /\ arg'["user"].b = arg["user"].b
          /\ arg'["user"].k = arg["user"].k
      BY <2>1, <2>2, LampAssumption DEF Adjusted, Clamp
    <2>4. arg'["user"].p = (arg["user"].b # 0 /\ arg["user"].p)
      BY <2>1, <2>2, LampAssumption DEF Adjusted, Clamp
    <2>5. arg'["cloud"] = arg["cloud"]
      BY <1>1, <1>2
    <2> QED BY <1>1, <1>3, <1>5, <2>3, <2>4, <2>5 DEF state
  <1> QED BY <1>4, <1>5

LEMMA OtherKept ==
  ASSUME TypeOK, KeptInv, Menu \/ Order \/ UNCHANGED vars
  PROVE  KeptInv'
  <1> USE DEF KeptInv, Kept, PowerKept, Idle, FromStart, FromBright, FromTemp, FromRatio, FromOut,
              FromPower, Actor
  <1>1. arg \in [Actor -> Setting] /\ pc \in [Actor -> Label]
    BY DEF TypeOK
  <1>2. CASE Menu
    BY <1>2 DEF Menu, state, ghost
  <1>3. CASE Order
    BY <1>1, <1>3 DEF Order, Enter, state
  <1>4. CASE UNCHANGED vars
    BY <1>4 DEF vars, state, ghost
  <1> QED BY <1>2, <1>3, <1>4

-----------------------------------------------------------------------------
(***************************************************************************)
(* The light.                                                              *)
(***************************************************************************)
\* The compare registers are known by their two values.
LEMMA TwoChannels ==
  ASSUME NEW c \in [1..2 -> 0..(Full * Span)], NEW y, NEW w
  PROVE  c = <<y, w>> <=> c[1] = y /\ c[2] = w
  OBVIOUS

LEMMA SetLight ==
  ASSUME TypeOK, TypeOK', LightInv, NEW a \in Actor, Set(a)
  PROVE  LightInv'
  <1> USE DEF Alone, Idle, Other, Actor
  <1>1. /\ arg \in [Actor -> Setting] /\ pc \in [Actor -> Label]
        /\ ratio \in [1..2 -> 0..Span] /\ out \in [1..2 -> 0..(Full * Span)]
        /\ ch \in [1..2 -> 0..(Full * Span)]
    BY DEF TypeOK
  <1>2. PICK from \in Label \ {"idle"}, to \in Label : Go(a, from, to)
    BY DEF Set, SetBrightness, SetColorTemp, PowerSwitch, Label
  <1>3. torn' = torn /\ arg' = arg /\ pc' = [pc EXCEPT ![a] = to] /\ pc[a] # "idle"
    BY <1>2 DEF Set, SetBrightness, SetColorTemp, PowerSwitch, Go
  <1>4. CASE torn
    BY <1>3, <1>4 DEF LightInv
  <1>5. CASE ~torn
    <2>1. Idle(Other(a)) /\ ValuesSet(a) /\ LightSet(a)
      BY <1>1, <1>3, <1>5 DEF LightInv
    <2>2. Idle(Other(a))'
      BY <1>1, <1>3, <2>1
    <2>3. ASSUME pc'[a] # "idle" PROVE ValuesSet(a)' /\ LightSet(a)'
      <3> USE DEF ValuesSet, LightSet, FromBright, FromTemp, FromRatio, FromOut, FromPower
      <3>1. CASE SetBrightness(a)
        BY <1>1, <2>1, <2>3, <3>1 DEF SetBrightness, Go, Scale
      <3>2. CASE SetColorTemp(a)
        BY <1>1, <2>1, <2>3, <3>2 DEF SetColorTemp, Go, Scale
      <3>3. CASE PowerSwitch(a)
        BY <1>1, <2>1, <2>3, <3>3 DEF PowerSwitch, Go, Compare
      <3> QED BY <3>1, <3>2, <3>3 DEF Set
    <2>4. ASSUME pc'[a] = "idle" PROVE LightIsTrue'
      <3>1. pc[a] = "p_w" /\ Compare(a, 2)
            /\ UNCHANGED <<power_sw, brightness_value, color_temp_value, ratio, out>>
        BY <1>1, <2>4 DEF Set, SetBrightness, SetColorTemp, PowerSwitch, Go
      <3>2. /\ ch'[1] = ch[1]
            /\ ch'[2] = IF arg[a].p THEN out[2] ELSE 0
        BY <1>1, <3>1 DEF Compare
      <3>3. /\ ratio[1] = Yellow(color_temp_value) /\ ratio[2] = White(color_temp_value)
            /\ out[1] = ratio[1] * brightness_value /\ out[2] = ratio[2] * brightness_value
            /\ ch[1] = IF arg[a].p THEN out[1] ELSE 0
            /\ power_sw = arg[a].p
        BY <2>1, <3>1
        DEF ValuesSet, LightSet, FromBright, FromTemp, FromRatio, FromOut, FromPower
      <3>4. /\ ch'[1] = IF power_sw THEN Yellow(color_temp_value) * brightness_value ELSE 0
            /\ ch'[2] = IF power_sw THEN White(color_temp_value) * brightness_value ELSE 0
        BY <3>2, <3>3
      <3>5. ch' \in [1..2 -> 0..(Full * Span)]
        BY DEF TypeOK
      <3>6. CASE power_sw
        <4>1. ch' = <<Yellow(color_temp_value) * brightness_value,
                      White(color_temp_value) * brightness_value>>
          BY <3>4, <3>5, <3>6, TwoChannels
        <4> QED BY <3>1, <3>6, <4>1 DEF LightIsTrue, Yellow, White
      <3>7. CASE ~power_sw
        <4>1. ch' = <<0, 0>>
          BY <3>4, <3>5, <3>7, TwoChannels
        <4> QED BY <3>1, <3>7, <4>1 DEF LightIsTrue
      <3> QED BY <3>6, <3>7
    <2>5. ASSUME NEW o \in Actor, Alone(o)' PROVE ValuesSet(o)' /\ LightSet(o)'
      <3>1. CASE o = a /\ pc'[a] # "idle"
        BY <3>1, <2>3
      <3>2. CASE pc'[o] = "idle"
        BY <3>2 DEF ValuesSet, LightSet, FromBright, FromTemp, FromRatio, FromOut, FromPower
      <3>3. CASE o # a
        BY <2>2, <3>2, <3>3
      <3> QED BY <3>1, <3>2, <3>3
    <2> QED BY <2>2, <2>4, <2>5 DEF LightInv, AllIdle
  <1> QED BY <1>4, <1>5

\* main_screen up to the three functions, the menu and a message: nothing is
\* set by them.
LEMMA OtherLight ==
  ASSUME TypeOK, LightInv, LoadPower \/ LoadValues \/ Knob \/ Menu \/ Order \/ UNCHANGED vars
  PROVE  LightInv'
  <1> USE DEF Alone, Idle, Other, Actor, LightInv, AllIdle
  <1>1. arg \in [Actor -> Setting] /\ pc \in [Actor -> Label]
    BY DEF TypeOK
  <1>2. UNCHANGED state
    BY DEF LoadPower, LoadValues, Knob, Menu, Order, vars
  <1>3. CASE UNCHANGED pc
    <2>1. Menu \/ UNCHANGED vars
      BY <1>1, <1>3 DEF LoadPower, LoadValues, Knob, Order, Enter
    <2>2. UNCHANGED <<arg, torn>>
      BY <2>1 DEF Menu, vars, ghost
    <2> QED BY <1>2, <1>3, <2>2 DEF ValuesSet, LightSet, LightIsTrue, state
  <1>4. ASSUME NEW a \in Actor, NEW to \in {"load_b", "load_k", "knob", "b"},
               pc' = [pc EXCEPT ![a] = to],
               (torn' = torn /\ pc[a] # "idle") \/ torn' = ~Idle(Other(a))
        PROVE  LightInv'
    <2>1. pc'[a] = to /\ pc'[Other(a)] = pc[Other(a)]
      BY <1>1, <1>4
    <2>2. ~AllIdle'
      BY <2>1
    <2>3. ~Idle(Other(a)) => torn'
      BY <1>4
    <2>4. \A o \in Actor : pc'[o] \in {"idle", "load_b", "load_k", "knob", "b"} =>
            ValuesSet(o)' /\ LightSet(o)'
      BY DEF ValuesSet, LightSet, FromBright, FromTemp, FromRatio, FromOut, FromPower
    <2> QED BY <2>1, <2>2, <2>3, <2>4
  <1>5. CASE LoadPower
    BY <1>4, <1>5 DEF LoadPower, Enter
  <1>6. CASE LoadValues
    BY <1>4, <1>6 DEF LoadValues, ghost
  <1>7. CASE Knob
    BY <1>4, <1>7 DEF Knob
  <1>8. CASE Order
    BY <1>4, <1>8 DEF Order, Enter
  <1> QED BY <1>3, <1>5, <1>6, <1>7, <1>8 DEF Menu, vars

-----------------------------------------------------------------------------
LEMMA InitIInv == Init => IInv
  <1> SUFFICES ASSUME Init PROVE IInv
    OBVIOUS
  <1>1. TypeOK
    BY InitTyped
  <1>2. KeptInv
    BY DEF Init, KeptInv, Kept, PowerKept, Idle, Actor, FromStart, FromBright, FromTemp,
           FromRatio, FromOut, FromPower
  <1>3. LightIsTrue
    <2>1. ch \in [1..2 -> 0..(Full * Span)]
      BY <1>1 DEF TypeOK
    <2>2. ch = <<0, 0>>
      BY <2>1, TwoChannels DEF Init
    <2> QED BY <2>2 DEF LightIsTrue, Init
  <1>4. \A a \in Actor : pc[a] = "idle"
    BY DEF Init
  <1>5. LightInv
    BY <1>3, <1>4 DEF LightInv, ValuesSet, LightSet, Idle, Actor, FromBright, FromTemp,
                      FromRatio, FromOut, FromPower
  <1> QED BY <1>1, <1>2, <1>5 DEF IInv

LEMMA NextIInv == IInv /\ [Next]_vars => IInv'
  <1> SUFFICES ASSUME IInv, [Next]_vars PROVE IInv'
    OBVIOUS
  <1>1. ASSUME NEW a \in Actor, Set(a) PROVE IInv'
    BY <1>1, SetTyped, SetKept, SetLight DEF IInv
  <1>2. CASE LoadPower \/ LoadValues \/ Knob \/ Menu \/ Order \/ UNCHANGED vars
    BY <1>2, OtherTyped, LoadKept, KnobKept, OtherKept, OtherLight DEF IInv
  <1> QED BY <1>1, <1>2 DEF Next, MainScreen, Actor

LEMMA Invariance == Spec => []IInv
  BY InitIInv, NextIInv, PTL DEF Spec

\* The variables of the lamp keep their types, as LightIsShown says too: the
\* outputs never leave the range of the timer, torn or not.
THEOREM TypeCorrect == Spec => []TypeOK
  <1>1. IInv => TypeOK
    BY DEF IInv
  <1> QED BY <1>1, Invariance, PTL

\* What the cloud asked for stays, although main_screen writes back all three
\* values in every round, as long as it did not run during the message.
THEOREM CommandStays == Spec => []CommandKept
  <1>1. IInv => CommandKept
    BY DEF IInv, KeptInv, Kept, PowerKept, CommandKept, AllIdle, Idle
  <1> QED BY <1>1, Invariance, PTL

\* The light is what the screen shows, except after both tasks set it at once.
THEOREM LightShown == Spec => []LightIsShown
  <1>1. IInv => LightIsShown
    BY DEF IInv, LightInv, LightIsShown
  <1> QED BY <1>1, Invariance, PTL
=============================================================================
