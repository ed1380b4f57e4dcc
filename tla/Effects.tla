------------------------------ MODULE Effects ------------------------------
(***************************************************************************)
(* The addressable LED strip (src/user_code/WS2812FX.c, ws2812_driver.c)    *)
(* and the two tasks that drive it.                                        *)
(*                                                                         *)
(* The user task calls WS2812FX_service once per round of its loop: when   *)
(* the segment is due the function of its mode draws into the pixel buffer *)
(* and moves the mode's counters, then the buffer is sent to the strip.    *)
(* set_colorful_mode turns the strip off or restarts it in another mode;   *)
(* the user task calls it from the menu, the data template task when the   *)
(* cloud asks.  Both tasks have the same priority and nothing is locked,   *)
(* so each runs between any two statements of the other.                   *)
(*                                                                         *)
(* One segment covers the whole strip and has no options, as               *)
(* WS2812FX_init leaves it: it is not reversed and a block is one pixel.   *)
(***************************************************************************)
EXTENDS Naturals, Sequences

CONSTANTS
  flash_count, \* flashes of chase_flash before it moves (4)
  LEDS,        \* WS2812_LED_NUMS: the pixels of the strip
  WORD,        \* counters and pixel indices wrap at WORD
  Requests     \* values of colorful_mode the tasks use; 0 turns the strip off

ASSUME EffectsAssumption ==
  /\ flash_count \in Nat \ {0}
  /\ LEDS \in Nat /\ LEDS >= 4
  /\ WORD \in Nat /\ WORD >= 16 /\ WORD >= 4 * LEDS
  /\ Requests \subseteq 0..55

Pixels == 0..(LEDS - 1)
Word == 0..(WORD - 1)

(***************************************************************************)
(* _modes: the mode functions in the order of the FX_MODE_ numbers.  A     *)
(* function that only chooses colours for another is given that name.      *)
(***************************************************************************)
_modes == <<
  "static", "blink", "breath", "color_wipe", "color_wipe",
  "color_wipe_rev", "color_wipe_rev", "color_wipe_random", "random_color",
  "dynamic", "dynamic", "rainbow", "rainbow", "scan", "dual_scan", "fade",
  "tricolor_chase", "theater_chase_rainbow", "running_lights",
  "twinkle", "twinkle", "twinkle_fade", "twinkle_fade", "sparkle", "sparkle",
  "hyper_sparkle", "blink", "blink", "multi_strobe", "blink", "chase",
  "chase", "chase_random", "chase_rainbow", "chase_flash", "chase_flash",
  "chase_rainbow", "chase", "chase_rainbow", "color_sweep_random", "running", "running",
  "running_random", "larson_scanner", "comet", "fireworks",
  "fireworks_random", "running", "fire_flicker", "fire_flicker",
  "fire_flicker", "tricolor_chase", "running", "chase", "tricolor_chase">>

VARIABLES
  running,     \* _running
  mode,        \* _segments[0].mode
  black,       \* TRUE iff _segments[0].colors[0] is BLACK, as the others are
  rt,          \* _segment_runtimes[0]
  buf,         \* ws2812_buf: "cleared", or "drawn" since
  strip,       \* what was last sent to the LEDs
  at,          \* what each task is about to do
  arg,         \* the arguments of the set_colorful_mode each task is in
  doing,       \* the mode whose function the user task is in
  got,         \* the runtime as that function read it
  disturbed    \* TRUE iff the tasks overlapped since the last command that
               \* found the other task idle

stripVars == <<running, mode, black, rt, buf, strip, at, arg, doing, got,
          disturbed>>

Tasks == {"user", "cloud"}
Other(a) == CHOOSE b \in Tasks : b # a

\* The fields of a segment_runtime the modes use: counter_mode_step,
\* counter_mode_call as far as chase_flash tells its values apart, aux_param
\* as far as scan does (zero or not), and aux_param3.
NoArg == [mode |-> 0, black |-> FALSE]
Fresh == [step |-> 0, call |-> 0, aux |-> FALSE, index |-> 0]
Runtime == [step : Word, call : 0..(2 * flash_count), aux : BOOLEAN, index : Word]

StripTypeOK ==
  /\ running \in BOOLEAN
  /\ mode \in 0..54
  /\ black \in BOOLEAN
  /\ rt \in Runtime
  /\ buf \in {"cleared", "drawn"}
  /\ strip \in {"cleared", "drawn"}
  /\ at \in [Tasks -> {"idle", "stop", "clear", "dark", "color", "zero",
                       "start", "reset", "mode", "draw", "advance", "call",
                       "show", "wild"}]
  /\ arg \in [Tasks -> [mode : 0..55, black : BOOLEAN]]
  /\ doing \in 0..54
  /\ got \in Runtime
  /\ disturbed \in BOOLEAN

-----------------------------------------------------------------------------
(***************************************************************************)
(* The mode functions.  Each is a record of three things: "early", the     *)
(* runtimes it can leave before it draws; "lit", the pixels it draws; and  *)
(* "late", the fields it may store at its end.  r is the runtime it reads  *)
(* at its beginning, s the counter_mode_step it loads at its end.          *)
(***************************************************************************)
Plus(s, n) == (s + n) % WORD
Minus(s, n) == (s + WORD - n) % WORD
Nothing == {[f \in {} |-> 0]}
Steps(S) == {[step |-> n] : n \in S}

\* A new wheel index in aux_param when the condition holds.
Wheel(r, when) ==
  IF when THEN {[r EXCEPT !.aux = a] : a \in BOOLEAN} ELSE {r}

\* ws2812_fill clips what it is given at the end of the strip.
Filled(first, count) == {n \in Pixels : first <= n /\ n < first + count}
\* WS2812FX_random16_u16(lim): a number below lim.
Random16(lim) == IF lim = 0 THEN {0} ELSE 0..(lim - 1)

\* Functions that fill or repaint the segment and keep no step.
Repaint(r, lit) == [early |-> {r}, lit |-> lit, late |-> Nothing]

static(r) == Repaint(r, Filled(0, LEDS))
blink(r) == Repaint(r, Filled(0, LEDS))
random_color(r) == [Repaint(r, Pixels) EXCEPT !.early = Wheel(r, TRUE)]
dynamic(r) == Repaint(r, Pixels)
twinkle_fade(r) == Repaint(r, Pixels \cup UNION {Filled(n, 1) : n \in Random16(LEDS - 1)})
hyper_sparkle(r) == Repaint(r, Pixels)
fire_flicker(r) == Repaint(r, Pixels)

color_wipe(r, s, rev) ==
  LET off == IF r.step < LEDS THEN r.step ELSE Minus(r.step, LEDS)
      n == IF r.step >= LEDS /\ rev THEN Minus(LEDS - 1, off) ELSE off
  IN  [early |-> {r}, lit |-> {n}, late |-> Steps({Plus(s, 1) % (2 * LEDS)})]

wipe_random(r, s, rev) ==
  [color_wipe(r, s, rev) EXCEPT !.early = Wheel(r, r.step % LEDS = 0)]

breath(r, s) ==
  LET t == Plus(s, 2)
  IN  [early |-> {r}, lit |-> Pixels,
       late |-> Steps({IF t > 512 - 15 THEN 15 ELSE t})]

fade(r, s) ==
  LET t == Plus(s, 4)
  IN  [early |-> {r}, lit |-> Pixels,
       late |-> Steps({IF t > 511 THEN 0 ELSE t})]

rainbow(r, s) ==
  [early |-> {r}, lit |-> Pixels, late |-> Steps({Plus(s, 1) % 256})]

\* Mutant of scan: the scanner turns one pixel late.
scan_past_end(r, s, dual) ==
  LET t == IF r.aux THEN Minus(s, 1) ELSE Plus(s, 1)
      turned == IF t >= LEDS THEN {TRUE} ELSE IF t = 0 THEN {FALSE} ELSE {}
  IN  [early |-> {r},
       lit |-> Pixels \cup {r.step}
                 \cup (IF dual THEN {Minus(LEDS - 1, r.step)} ELSE {}),
       late |-> IF turned = {} THEN Steps({t})
                ELSE {[step |-> t, aux |-> d] : d \in turned}]

\* The direction is read at the beginning, the step it is added to at the end.
scan(r, s, dual) ==
  LET t == IF r.aux THEN Minus(s, 1) ELSE Plus(s, 1)
      turned == IF t >= LEDS - 1 THEN {TRUE} ELSE IF t = 0 THEN {FALSE} ELSE {}
  IN  [early |-> {r},
       lit |-> Pixels \cup {r.step}
                 \cup (IF dual THEN {Minus(LEDS - 1, r.step)} ELSE {}),
       late |-> IF turned = {} THEN Steps({t})
                ELSE {[step |-> t, aux |-> d] : d \in turned}]

tricolor_chase(r, s) ==
  [early |-> {r}, lit |-> Pixels, late |-> Steps({Plus(s, 1)})]

theater_chase_rainbow(r, s) ==
  [tricolor_chase(r, s) EXCEPT
     !.early = {[r EXCEPT !.step = Plus(@, 1) % 256]}]

running_lights(r, s) ==
  [early |-> {r}, lit |-> Pixels, late |-> Steps({Plus(s, 1) % 256})]

\* One LED lit after the other; a new number of them when none is left.
twinkle(r, s) ==
  LET min_leds == (LEDS \div 4) + 1
  IN  [early |-> IF r.step = 0
                 THEN {[r EXCEPT !.step = n] :
                         n \in min_leds..(2 * min_leds - 1)}
                 ELSE {r},
       lit |-> Pixels,
       late |-> Steps({Minus(s, 1)})]

\* aux_param3 is the LED that sparkles.
sparkle(r) ==
  [early |-> {r},
   lit |-> (IF r.step = 0 THEN Pixels ELSE {}) \cup Filled(r.index, 1),
   late |-> {[index |-> n] : n \in Random16(LEDS - 1)}]

\* count is 22 at DEFAULT_SPEED.
multi_strobe(r, s) ==
  [early |-> {r}, lit |-> Pixels, late |-> Steps({Plus(s, 1) % 23})]

chase(r, s) ==
  LET a == r.step % LEDS
  IN  [early |-> {r},
       lit |-> {a, (a + 1) % LEDS, (a + 2) % LEDS},
       late |-> Steps({Plus(s, 1) % LEDS})]

\* The colours of the rainbow: the same pixels.
chase_rainbow(r, s) == chase(r, s)

chase_random(r, s) ==
  [chase(r, s) EXCEPT !.early = Wheel(r, r.step = 0)]

\* Flashes on two pixels, then one pixel on.
chase_flash(r, s) ==
  LET t == Plus(s, 1) % LEDS
  IN  IF r.call < 2 * flash_count
      THEN [early |-> {r}, lit |-> {r.step, Plus(r.step, 1) % LEDS},
            late |-> Nothing]
      ELSE [early |-> {r}, lit |-> {},
            late |-> IF t = 0 THEN {[step |-> 0, aux |-> a] : a \in BOOLEAN}
                     ELSE Steps({t})]

\* The pixels move one place, the last copied is the last of the segment.
running_(r, s) ==
  [early |-> {r}, lit |-> Pixels, late |-> Steps({Plus(s, 1) % LEDS})]

running_random(r, s) ==
  [running_(r, s) EXCEPT !.early = Wheel(r, r.step % 2 = 0)]

larson_scanner(r, s) ==
  LET n == IF r.step < LEDS THEN r.step ELSE Minus(2 * LEDS, r.step + 2)
      t == Plus(s, 1)
  IN  [early |-> {r}, lit |-> Pixels \cup {n},
       late |-> Steps({IF t >= 2 * LEDS - 2 THEN 0 ELSE t})]

comet(r, s) ==
  [early |-> {r}, lit |-> Pixels \cup {r.step},
   late |-> Steps({Plus(s, 1) % LEDS})]

\* Blocks of two pixels at random places, after a blur of the inner pixels.
fireworks(r) ==
  Repaint(r, Pixels \cup UNION {Filled(n, 2) : n \in Random16(LEDS - 2)})

Effect(m, r, s) ==
  LET f == _modes[m + 1]
  IN  CASE f = "static" -> static(r)
        [] f = "blink" -> blink(r)
        [] f = "random_color" -> random_color(r)
        [] f = "dynamic" -> dynamic(r)
        [] f = "twinkle_fade" -> twinkle_fade(r)
        [] f = "hyper_sparkle" -> hyper_sparkle(r)
        [] f = "fire_flicker" -> fire_flicker(r)
        [] f = "color_wipe" -> color_wipe(r, s, FALSE)
        [] f = "color_wipe_rev" -> color_wipe(r, s, TRUE)
        [] f = "color_wipe_random" -> wipe_random(r, s, FALSE)
        [] f = "color_sweep_random" -> wipe_random(r, s, TRUE)
        [] f = "breath" -> breath(r, s)
        [] f = "fade" -> fade(r, s)
        [] f = "rainbow" -> rainbow(r, s)
        [] f = "scan" -> scan(r, s, FALSE)
        [] f = "dual_scan" -> scan(r, s, TRUE)
        [] f = "tricolor_chase" -> tricolor_chase(r, s)
        [] f = "theater_chase_rainbow" -> theater_chase_rainbow(r, s)
        [] f = "running_lights" -> running_lights(r, s)
        [] f = "twinkle" -> twinkle(r, s)
        [] f = "sparkle" -> sparkle(r)
        [] f = "multi_strobe" -> multi_strobe(r, s)
        [] f = "chase" -> chase(r, s)
        [] f = "chase_rainbow" -> chase_rainbow(r, s)
        [] f = "chase_random" -> chase_random(r, s)
        [] f = "chase_flash" -> chase_flash(r, s)
        [] f = "running" -> running_(r, s)
        [] f = "running_random" -> running_random(r, s)
        [] f = "larson_scanner" -> larson_scanner(r, s)
        [] f = "comet" -> comet(r, s)
        [] f \in {"fireworks", "fireworks_random"} -> fireworks(r)

\* The fields a mode stores.
Merge(r, w) == [f \in DOMAIN r |-> IF f \in DOMAIN w THEN w[f] ELSE r[f]]

-----------------------------------------------------------------------------
\* The task a makes a step and goes on at l.
Go(a, l) ==
  /\ at' = [at EXCEPT ![a] = l]
  /\ disturbed' = (disturbed \/ at[Other(a)] # "idle")

(***************************************************************************)
(* WS2812FX_service, in the user task.  Whether the segment is due is not  *)
(* known: the time between two calls is arbitrary.                         *)
(***************************************************************************)
Service ==
  /\ at["user"] = "idle" /\ running
  /\ doing' = mode
  /\ Go("user", "draw")
  /\ UNCHANGED <<running, mode, black, rt, buf, strip, arg, got>>

\* Mutant of HasColor: no colour will do.
HasNoColor == _modes[doing + 1] # "fireworks"

\* mode_fireworks draws numbers until one names a colour that is not BLACK.
HasColor == _modes[doing + 1] # "fireworks" \/ ~black

Draw ==
  /\ at["user"] = "draw" /\ HasColor
  /\ LET e == Effect(doing, rt, 0)
     IN  /\ rt' \in e.early
         /\ Go("user", IF \A r \in e.early : Effect(doing, r, 0).lit \subseteq Pixels THEN "advance" ELSE "wild")
  /\ got' = rt'
  /\ buf' = "drawn"
  /\ UNCHANGED <<running, mode, black, strip, arg, doing>>

\* The step is loaded again or still in a register: nothing orders the two
\* tasks, so the build decides.
Advance ==
  /\ at["user"] = "advance"
  /\ \E s \in {got.step, rt.step} : \E w \in Effect(doing, got, s).late :
       rt' = Merge(rt, w)
  /\ Go("user", "call")
  /\ UNCHANGED <<running, mode, black, buf, strip, arg, doing, got>>

CountCall ==
  /\ at["user"] = "call"
  /\ rt' = [rt EXCEPT !.call = (@ + 1) % (2 * flash_count + 1)]
  /\ Go("user", "show")
  /\ UNCHANGED <<running, mode, black, buf, strip, arg, doing, got>>

Show ==
  /\ at["user"] = "show"
  /\ strip' = buf
  /\ Go("user", "idle")
  /\ doing' = 0 /\ got' = Fresh
  /\ UNCHANGED <<running, mode, black, rt, buf, arg>>

-----------------------------------------------------------------------------
(***************************************************************************)
(* set_colorful_mode, in either task.  The menu always takes a colour from *)
(* the wheel; the cloud may give one of its own.                           *)
(***************************************************************************)
Begin(a) ==
  /\ at[a] = "idle"
  /\ \E m \in Requests, b \in BOOLEAN :
       /\ a = "user" => ~b
       /\ arg' = [arg EXCEPT ![a] = [mode |-> m, black |-> b]]
       /\ at' = [at EXCEPT ![a] = IF m = 0 THEN "stop" ELSE "color"]
  /\ disturbed' = (at[Other(a)] # "idle")
  /\ UNCHANGED <<running, mode, black, rt, buf, strip, doing, got>>

Stop(a) ==
  /\ at[a] = "stop"
  /\ running' = FALSE
  /\ Go(a, "clear")
  /\ UNCHANGED <<mode, black, rt, buf, strip, arg, doing, got>>

\* Mutant of Clear: the buffer is sent to the strip as it is.
ClearNothing(a) ==
  /\ at[a] = "clear"
  /\ Go(a, "dark")
  /\ UNCHANGED <<running, mode, black, rt, buf, strip, arg, doing, got>>

Clear(a) ==
  /\ at[a] = "clear"
  /\ buf' = "cleared"
  /\ Go(a, "dark")
  /\ UNCHANGED <<running, mode, black, rt, strip, arg, doing, got>>

Dark(a) ==
  /\ at[a] = "dark"
  /\ strip' = buf
  /\ Go(a, "idle")
  /\ arg' = [arg EXCEPT ![a] = NoArg]
  /\ UNCHANGED <<running, mode, black, rt, buf, doing, got>>

SetColor(a) ==
  /\ at[a] = "color"
  /\ black' = arg[a].black
  /\ Go(a, "zero")
  /\ UNCHANGED <<running, mode, rt, buf, strip, arg, doing, got>>

ResetRuntimes(a) ==
  /\ at[a] = "zero"
  /\ rt' = Fresh
  /\ Go(a, "start")
  /\ UNCHANGED <<running, mode, black, buf, strip, arg, doing, got>>

Start(a) ==
  /\ at[a] = "start"
  /\ running' = TRUE
  /\ Go(a, "reset")
  /\ UNCHANGED <<mode, black, rt, buf, strip, arg, doing, got>>

ResetRuntime(a) ==
  /\ at[a] = "reset"
  /\ rt' = Fresh
  /\ Go(a, "mode")
  /\ UNCHANGED <<running, mode, black, buf, strip, arg, doing, got>>

SetMode(a) ==
  /\ at[a] = "mode"
  /\ mode' = arg[a].mode - 1
  /\ Go(a, "idle")
  /\ arg' = [arg EXCEPT ![a] = NoArg]
  /\ UNCHANGED <<running, black, rt, buf, strip, doing, got>>

-----------------------------------------------------------------------------
\* user_task: WS2812FX_init, then WS2812FX_stop.
StripInit ==
  /\ running = FALSE
  /\ mode = 0
  /\ black = FALSE
  /\ rt = Fresh
  /\ buf = "cleared"
  /\ strip = "cleared"
  /\ at = [a \in Tasks |-> "idle"]
  /\ arg = [a \in Tasks |-> NoArg]
  /\ doing = 0
  /\ got = Fresh
  /\ disturbed = FALSE

Serve == Service \/ Draw \/ Advance \/ CountCall \/ Show

Set(a) ==
  \/ Stop(a) \/ Clear(a) \/ Dark(a)
  \/ SetColor(a) \/ ResetRuntimes(a) \/ Start(a) \/ ResetRuntime(a)
  \/ SetMode(a)

StripNext ==
  \/ Serve
  \/ \E a \in Tasks : Begin(a) \/ Set(a)

\* Equal priorities and time slices: no task waits for ever.
Fairness ==
  /\ WF_stripVars(Draw \/ Advance \/ CountCall \/ Show)
  /\ \A a \in Tasks : WF_stripVars(Set(a))

StripSpec == StripInit /\ [][StripNext]_stripVars /\ Fairness

-----------------------------------------------------------------------------
(***************************************************************************)
(* Properties                                                              *)
(***************************************************************************)
\* ws2812_set_color_u32 does not check its index.  No mode function draws
\* outside the strip unless a command of the other task came in between:
\* the counters a mode finds are those it left or fresh ones, and what it
\* stores there fits them.
PixelsInStrip == StripTypeOK /\ (at["user"] = "wild" => disturbed)

\* When colorful mode 0 was set, and the tasks did not overlap since, nothing
\* is left on the strip and nothing is drawn any more.
OffIsDark ==
  (~disturbed /\ ~running /\ \A a \in Tasks : at[a] = "idle")
     => strip = "cleared"

\* A service call that has begun ends, and with it the round of the user
\* task, unless the colour it needs is BLACK.
ServiceReturns ==
  (at["user"] = "draw") ~> (at["user"] \in {"idle", "wild"} \/ black)

=============================================================================
