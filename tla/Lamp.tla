-------------------------------- MODULE Lamp --------------------------------
(***************************************************************************)
(* The light of the lamp: its brightness, colour temperature and power,    *)
(* which the main screen of the user task (src/user_code/user_task.c) and  *)
(* the control messages of the cloud                                       *)
(* (usr_logic/data_template_usr_logic.c, deal_down_stream_user_logic) set  *)
(* through the same three functions, without a lock.                       *)
(*                                                                         *)
(* The tasks have the same priority and are switched between any two       *)
(* statements, so every assignment to a shared variable is a step.  The    *)
(* main screen loads all three values, adjusts them by the knob and stores *)
(* all three, turned or not, in every round.  How it gets the knob and     *)
(* when the menu replaces it is in the module Panel.                       *)
(***************************************************************************)
EXTENDS Integers

CONSTANTS
  Full,      \* the highest brightness (100)
  Span,      \* the range of the colour temperature, in steps (76)
  MaxSpeed,  \* bound on what a turn changes in one round
  MaxOrders  \* bound on the control messages of the cloud

ASSUME LampAssumption ==
  /\ Full \in Nat \ {0} /\ Span \in Nat \ {0}
  /\ MaxSpeed \in Nat /\ MaxOrders \in Nat

Actor == {"user", "cloud"}
Setting == [b : 0..Full, k : 0..Span, p : BOOLEAN]

VARIABLES
  brightness_value, color_temp_value, power_sw,
  ratio,   \* brightness_yellow, brightness_white
  out,     \* brightness_yellow_out, brightness_white_out
  ch,      \* the compare registers of TIM3, channel 1 (yellow) and 2 (white)
  pc,      \* where each task is
  arg,     \* what each task is about to set
  menu,    \* TRUE iff the menu is open: main_screen is not called
  orders,  \* control messages dealt with
  asked,   \* what the last of them asked for
  turned,  \* TRUE iff the knob was turned since
  lost,    \* TRUE iff main_screen ran at the same time as the last of them
  torn     \* TRUE iff both tasks were setting the light, and neither has
           \* begun to do it alone since

state == <<brightness_value, color_temp_value, power_sw, ratio, out, ch>>
ghost == <<orders, asked, turned, lost, torn>>
vars == <<state, pc, arg, menu, ghost>>

Other(a) == IF a = "user" THEN "cloud" ELSE "user"
Idle(a) == pc[a] = "idle"
Label == {"idle", "load_b", "load_k", "knob", "b", "b_y", "b_w",
          "k", "k_y", "k_yo", "k_w", "k_wo", "p", "p_y", "p_w"}

TypeOK ==
  /\ brightness_value \in 0..Full /\ color_temp_value \in 0..Span
  /\ power_sw \in BOOLEAN
  /\ ratio \in [1..2 -> 0..Span]
  /\ out \in [1..2 -> 0..(Full * Span)] /\ ch \in [1..2 -> 0..(Full * Span)]
  /\ pc \in [Actor -> Label] /\ arg \in [Actor -> Setting]
  /\ menu \in BOOLEAN /\ orders \in 0..MaxOrders /\ asked \in Setting
  /\ turned \in BOOLEAN /\ lost \in BOOLEAN /\ torn \in BOOLEAN

\* The colour temperature mapped to the two lamps, from warm to cold.
Yellow(k) == Span - k
White(k) == k

-----------------------------------------------------------------------------
(***************************************************************************)
(* set_brightness, set_color_temp, power_switch, statement by statement.   *)
(***************************************************************************)
Go(a, from, to) ==
  /\ pc[a] = from
  /\ pc' = [pc EXCEPT ![a] = to]
  /\ UNCHANGED <<arg, menu, orders, asked, turned, lost>>

Scale(i) == out' = [out EXCEPT ![i] = ratio[i] * brightness_value]

SetBrightness(a) ==
  /\ \/ /\ Go(a, "b", "b_y")
        /\ brightness_value' = arg[a].b /\ UNCHANGED out
     \/ Go(a, "b_y", "b_w") /\ Scale(1) /\ UNCHANGED brightness_value
     \/ Go(a, "b_w", "k") /\ Scale(2) /\ UNCHANGED brightness_value
  /\ UNCHANGED <<color_temp_value, power_sw, ratio, ch, torn>>

\* Mutant of SetColorTemp: the second output is not computed again.
SetColorTempHalf(a) ==
  /\ \/ /\ Go(a, "k", "k_y")
        /\ color_temp_value' = arg[a].k /\ UNCHANGED <<ratio, out>>
     \/ /\ Go(a, "k_y", "k_yo")
        /\ ratio' = [ratio EXCEPT ![1] = Yellow(arg[a].k)]
        /\ UNCHANGED <<color_temp_value, out>>
     \/ /\ Go(a, "k_yo", "k_w")
        /\ Scale(1) /\ UNCHANGED <<color_temp_value, ratio>>
     \/ /\ Go(a, "k_w", "p")
        /\ ratio' = [ratio EXCEPT ![2] = White(arg[a].k)]
        /\ UNCHANGED <<color_temp_value, out>>
  /\ UNCHANGED <<brightness_value, power_sw, ch, torn>>

SetColorTemp(a) ==
  /\ \/ /\ Go(a, "k", "k_y")
        /\ color_temp_value' = arg[a].k /\ UNCHANGED <<ratio, out>>
     \/ /\ Go(a, "k_y", "k_yo")
        /\ ratio' = [ratio EXCEPT ![1] = Yellow(arg[a].k)]
        /\ UNCHANGED <<color_temp_value, out>>
     \/ /\ Go(a, "k_yo", "k_w")
        /\ Scale(1) /\ UNCHANGED <<color_temp_value, ratio>>
     \/ /\ Go(a, "k_w", "k_wo")
        /\ ratio' = [ratio EXCEPT ![2] = White(arg[a].k)]
        /\ UNCHANGED <<color_temp_value, out>>
     \/ /\ Go(a, "k_wo", "p")
        /\ Scale(2) /\ UNCHANGED <<color_temp_value, ratio>>
  /\ UNCHANGED <<brightness_value, power_sw, ch, torn>>

Compare(a, i) == ch' = [ch EXCEPT ![i] = IF arg[a].p THEN out[i] ELSE 0]

PowerSwitch(a) ==
  /\ \/ /\ Go(a, "p", "p_y")
        /\ power_sw' = arg[a].p /\ UNCHANGED <<ch, torn>>
     \/ Go(a, "p_y", "p_w") /\ Compare(a, 1) /\ UNCHANGED <<power_sw, torn>>
     \/ Go(a, "p_w", "idle") /\ Compare(a, 2) /\ UNCHANGED <<power_sw, torn>>
  /\ UNCHANGED <<brightness_value, color_temp_value, ratio, out>>

-----------------------------------------------------------------------------
(***************************************************************************)
(* main_screen: the three loads, the knob, then the three functions.  A    *)
(* turn moves the brightness or, with the key pressed, the temperature.    *)
(***************************************************************************)
\* The task starts to set the light; alone or not.
Enter(a) ==
  /\ pc[a] = "idle"
  /\ torn' = ~Idle(Other(a))

LoadPower ==
  /\ Enter("user") /\ ~menu
  /\ pc' = [pc EXCEPT !["user"] = "load_b"]
  /\ arg' = [arg EXCEPT !["user"].p = power_sw]
  /\ lost' = (lost \/ ~Idle("cloud"))
  /\ UNCHANGED <<state, menu, orders, asked, turned>>

LoadValues ==
  /\ \/ /\ pc["user"] = "load_b"
        /\ pc' = [pc EXCEPT !["user"] = "load_k"]
        /\ arg' = [arg EXCEPT !["user"].b = brightness_value]
     \/ /\ pc["user"] = "load_k"
        /\ pc' = [pc EXCEPT !["user"] = "knob"]
        /\ arg' = [arg EXCEPT !["user"].k = color_temp_value]
  /\ UNCHANGED <<state, menu, ghost>>

Clamp(x, top) == IF x < 0 THEN 0 ELSE IF x > top THEN top ELSE x

\* Mutant of Adjusted: any brightness above zero switches the lamp on.
AdjustedAlwaysOn(v, e, moved, pressed) ==
  LET b == IF pressed THEN v.b ELSE Clamp(v.b + e, Full)
      k == IF pressed THEN Clamp(v.k + e, Span) ELSE v.k
  IN  [b |-> b, k |-> k, p |-> b # 0]

\* Dimmed to zero the lamp is off; when the knob has moved and it is not at
\* zero, it is on.
Adjusted(v, e, moved, pressed) ==
  LET b == IF pressed THEN v.b ELSE Clamp(v.b + e, Full)
      k == IF pressed THEN Clamp(v.k + e, Span) ELSE v.k
  IN  [b |-> b, k |-> k, p |-> b # 0 /\ (v.p \/ (~pressed /\ moved))]

\* Mutant of Knob: nothing is set when the knob was not turned.
KnobAtRestSkips ==
  /\ pc["user"] = "knob"
  /\ \E e \in -MaxSpeed..MaxSpeed, moved \in BOOLEAN, pressed \in BOOLEAN :
       /\ e # 0 => moved
       /\ pc' = [pc EXCEPT !["user"] = IF moved THEN "b" ELSE "idle"]
       /\ arg' = [arg EXCEPT !["user"] = Adjusted(arg["user"], e, moved, pressed)]
       /\ turned' = (turned \/ moved)
  /\ UNCHANGED <<state, menu, orders, asked, lost, torn>>

\* e is the steps read times their number, in an int8_t: 0 also for 16 steps.
Knob ==
  /\ pc["user"] = "knob"
  /\ pc' = [pc EXCEPT !["user"] = "b"]
  /\ \E e \in -MaxSpeed..MaxSpeed, moved \in BOOLEAN, pressed \in BOOLEAN :
       /\ e # 0 => moved
       /\ arg' = [arg EXCEPT !["user"] = Adjusted(arg["user"], e, moved, pressed)]
       /\ turned' = (turned \/ moved)
  /\ UNCHANGED <<state, menu, orders, asked, lost, torn>>

\* The menu opens or closes: between two calls of main_screen.
Menu ==
  /\ Idle("user")
  /\ menu' = ~menu
  /\ UNCHANGED <<state, pc, arg, ghost>>

-----------------------------------------------------------------------------
(***************************************************************************)
(* deal_down_stream_user_logic with what the product data say.             *)
(***************************************************************************)
Order ==
  /\ Enter("cloud")
  /\ orders < MaxOrders
  /\ orders' = orders + 1
  /\ \E v \in Setting :
       /\ arg' = [arg EXCEPT !["cloud"] = v]
       /\ asked' = v
  /\ turned' = FALSE
  /\ lost' = ~Idle("user")
  /\ pc' = [pc EXCEPT !["cloud"] = "b"]
  /\ UNCHANGED <<state, menu>>

Set(a) == SetBrightness(a) \/ SetColorTemp(a) \/ PowerSwitch(a)

\* user_task starts with power_switch(0); nothing has been computed.
Init ==
  /\ brightness_value = 0 /\ color_temp_value = Span \div 2
  /\ power_sw = FALSE
  /\ ratio = [i \in 1..2 |-> 0] /\ out = [i \in 1..2 |-> 0]
  /\ ch = [i \in 1..2 |-> 0]
  /\ pc = [a \in Actor |-> "idle"]
  /\ arg = [a \in Actor |-> [b |-> 0, k |-> 0, p |-> FALSE]]
  /\ menu = FALSE /\ orders = 0
  /\ asked = [b |-> 0, k |-> Span \div 2, p |-> FALSE]
  /\ turned = FALSE /\ lost = FALSE /\ torn = FALSE

MainScreen == LoadPower \/ LoadValues \/ Knob \/ Set("user")

Next == MainScreen \/ Menu \/ Order \/ Set("cloud")

\* Round robin: neither task is starved.
Spec == Init /\ [][Next]_vars /\ WF_vars(MainScreen) /\ WF_vars(Set("cloud"))

-----------------------------------------------------------------------------
(***************************************************************************)
(* Properties                                                              *)
(***************************************************************************)
AllIdle == Idle("user") /\ Idle("cloud")

\* The main screen writes back in every round what it read: what the cloud
\* asked for stays until the knob is turned, unless main_screen ran at the
\* same time (user_task.c:282-348).  Only a lamp asked to shine at zero is
\* switched off.
CommandKept ==
  (AllIdle /\ ~turned /\ ~lost) =>
     /\ brightness_value = asked.b /\ color_temp_value = asked.k
     /\ power_sw => asked.p
     /\ asked.p /\ asked.b # 0 => power_sw

\* The two lamps shine as the values shown say, or not at all.
LightIsTrue ==
  ch = IF power_sw THEN <<Yellow(color_temp_value) * brightness_value,
                          White(color_temp_value) * brightness_value>>
       ELSE <<0, 0>>

\* The light is what the screen says it is; not so only after both tasks set
\* it at once (set_brightness, set_color_temp and power_switch share their
\* intermediate results), and then only until one of them does it alone; torn
\* or not, the values shown and the channels stay in their ranges.
LightIsShown == TypeOK /\ (AllIdle /\ ~torn => LightIsTrue)

\* When the cloud has sent its last message and the menu is left for good,
\* the light settles on the values shown, torn or not: main_screen computes
\* it anew in every round.
LightSettles == <>[](~menu) => <>[](AllIdle => LightIsTrue)
=============================================================================
