------------------------------- MODULE Panel -------------------------------
(***************************************************************************)
(* The knob and the display of the lamp: EncoderScan in the timer          *)
(* interrupt (src/user_code/encoder.c), and in the user task the reads of  *)
(* what it counted, the sleep of the display, the main screen's handling   *)
(* of the key and the menu (src/user_code/user_task.c).                    *)
(*                                                                         *)
(* The interrupt runs between any two statements of the task: a read of    *)
(* the count or of the key is a load and, later, a store of zero.  What    *)
(* the main screen does to the light is in the module Lamp.                *)
(***************************************************************************)
EXTENDS Integers

CONSTANTS
  Half,        \* half the values of a char (128)
  num,         \* entries of the menu (4)
  MENU_MAX_SHOW_NUM  \* entries shown at a time (2)

ASSUME PanelAssumption ==
  /\ Half \in Nat \ {0}
  /\ num \in Nat /\ MENU_MAX_SHOW_NUM \in Nat \ {0}
  /\ MENU_MAX_SHOW_NUM <= num

VARIABLES
  EncoderKeyState, \* the debounced key
  EncoderKeyRet,   \* the key event not read yet
  EncoderCount,    \* the steps not read yet
  oled,            \* oled_power_state
  menu,            \* TRUE iff menu_p is not NULL
  cursor, head,    \* of the menu
  key_state,       \* main_screen: the knob was turned while pressed
  pc,              \* where the user task is
  caller,          \* who reads the encoder: "wake", "main", "menu", "colorful"
  encoder, key,    \* what the reads returned
  owed,            \* steps counted by the interrupt and given to no reader
  raced,           \* TRUE iff a step was counted inside a read
  turned,          \* TRUE iff main_screen changed the colour temperature
                   \* during the last press
  missed           \* TRUE iff main_screen did not get the end of a press

enc == <<EncoderKeyState, EncoderKeyRet, EncoderCount>>
locals == <<encoder, key>>
vars == <<enc, oled, menu, cursor, head, key_state, pc, caller, locals, owed,
          raced, turned, missed>>

TypeOK ==
  /\ EncoderKeyState \in {"release", "if_push", "push", "if_release"}
  /\ EncoderKeyRet \in {"null", "press", "release"}
  /\ EncoderCount \in -Half..(Half - 1)
  /\ oled \in BOOLEAN /\ menu \in BOOLEAN
  /\ cursor \in 0..(num - 1) /\ head \in 0..(num - 1)
  /\ key_state \in BOOLEAN
  /\ pc \in {"loop", "screen", "count", "uncount", "key", "unkey", "wake",
             "main", "menu", "colorful", "wifi", "images"}
  /\ caller \in {"wake", "main", "menu", "colorful", "wifi"}
  /\ encoder \in -Half..(Half - 1)
  /\ key \in {"null", "press", "release"}
  /\ owed \in -Half..(Half - 1)
  /\ raced \in BOOLEAN /\ turned \in BOOLEAN /\ missed \in BOOLEAN

-----------------------------------------------------------------------------
(***************************************************************************)
(* EncoderScan, every 1.2 ms.  down: the key is pressed, as its pin says   *)
(* now; step: what the two phases say of the turn, if anything.            *)
(***************************************************************************)
KeyScan(down) ==
  LET to(state, ret) == EncoderKeyState' = state /\ EncoderKeyRet' = ret
  IN  \/ /\ EncoderKeyState = "release" /\ down
         /\ to("if_push", EncoderKeyRet)
         /\ UNCHANGED <<turned, missed>>
      \/ /\ EncoderKeyState = "if_push" /\ down
         /\ to("push", "press")
         /\ turned' = FALSE
         /\ missed' = (missed \/ EncoderKeyRet = "release")
      \/ /\ EncoderKeyState = "push" /\ down
         /\ to("push", "press")
         /\ UNCHANGED <<turned, missed>>
      \/ /\ EncoderKeyState = "push" /\ ~down
         /\ to("if_release", EncoderKeyRet)
         /\ UNCHANGED <<turned, missed>>
      \/ /\ EncoderKeyState = "if_release" /\ ~down
         /\ to("release", "release")
         /\ UNCHANGED <<turned, missed>>
      \/ /\ <<EncoderKeyState, down>> \in
              {<<"release", FALSE>>, <<"if_push", FALSE>>,
               <<"if_release", TRUE>>}
         /\ UNCHANGED <<EncoderKeyState, EncoderKeyRet, turned, missed>>

\* The count is a char, and its readers take it as a signed one: while nobody
\* reads it, as in the minute of wifi_config, it may wrap.
Wrap(x) == IF x >= Half THEN x - 2 * Half ELSE IF x < -Half THEN x + 2 * Half ELSE x

Scan(down, step) ==
  /\ KeyScan(down)
  /\ EncoderCount' = Wrap(EncoderCount + step)
  /\ raced' = (raced \/ (step # 0 /\ pc = "uncount"))
  /\ owed' = IF raced' THEN 0 ELSE Wrap(owed + step)
  /\ UNCHANGED <<oled, menu, cursor, head, key_state, pc, caller, locals>>

-----------------------------------------------------------------------------
(***************************************************************************)
(* ReadEncoder and ReadEncoderKey: a load, then a store.                   *)
(***************************************************************************)
screen == <<oled, menu, cursor, head, key_state, turned, caller>>

LoadCount ==
  /\ pc = "count"
  /\ encoder' = Wrap(-EncoderCount)
  /\ pc' = IF EncoderCount = 0 THEN "key" ELSE "uncount"
  /\ UNCHANGED <<enc, screen, key, owed, raced, missed>>

\* Mutant of ClearCount: the count is not cleared.
CountStays ==
  /\ pc = "uncount"
  /\ owed' = IF raced THEN 0 ELSE Wrap(owed + encoder)
  /\ pc' = "key"
  /\ UNCHANGED <<enc, screen, locals, raced, missed>>

ClearCount ==
  /\ pc = "uncount"
  /\ EncoderCount' = 0
  /\ owed' = IF raced THEN 0 ELSE Wrap(owed + encoder)
  /\ pc' = "key"
  /\ UNCHANGED <<EncoderKeyState, EncoderKeyRet, screen, locals, raced, missed>>

LoadKey ==
  /\ pc = "key"
  /\ key' = EncoderKeyRet
  /\ pc' = IF EncoderKeyRet = "null" THEN caller ELSE "unkey"
  /\ UNCHANGED <<enc, screen, encoder, owed, raced, missed>>

\* An end of a press that another reader takes, or that the store of zero
\* overwrites, does not reach main_screen.
ClearKey ==
  /\ pc = "unkey"
  /\ EncoderKeyRet' = "null"
  /\ missed' = (missed \/ (EncoderKeyRet = "release"
                             /\ (caller # "main" \/ key # "release")))
  /\ pc' = caller
  /\ UNCHANGED <<EncoderKeyState, EncoderCount, screen, locals, owed, raced>>

\* The task goes on to read the encoder for c.
Read(c) == pc' = "count" /\ caller' = c

-----------------------------------------------------------------------------
(***************************************************************************)
(* menu_task: the display sleeps some 900 rounds after it woke, used or    *)
(* not; what wakes it is consumed.                                         *)
(***************************************************************************)
Round ==
  /\ pc = "loop"
  /\ \/ /\ ~oled
        /\ Read("wake")
        /\ UNCHANGED oled
     \/ /\ oled
        /\ oled' \in BOOLEAN
        /\ pc' = "screen"
        /\ UNCHANGED caller
  /\ UNCHANGED <<enc, menu, cursor, head, key_state, locals, owed, raced,
                 turned, missed>>

Wake ==
  /\ pc = "wake"
  /\ oled' = (encoder # 0 \/ key # "null")
  /\ pc' = "screen"
  /\ UNCHANGED <<enc, menu, cursor, head, key_state, caller, locals, owed,
                 raced, turned, missed>>

Screen ==
  /\ pc = "screen"
  /\ Read(IF menu THEN "menu" ELSE "main")
  /\ UNCHANGED <<enc, oled, menu, cursor, head, key_state, locals, owed,
                 raced, turned, missed>>

\* The speed of the turn is squared in an int8_t: 16 steps make zero of it.
Fix(e) == ((e * (IF e < 0 THEN -e ELSE e) + 128) % 256) - 128

\* Mutant of MainScreen: key_state is not reset.
TurnIsRemembered ==
  /\ pc = "main"
  /\ LET adjust == key = "press" /\ Fix(encoder) # 0
     IN  /\ turned' = (key # "release" /\ (turned \/ adjust))
         /\ key_state' = (key_state \/ adjust)
         /\ menu' = (key = "release" /\ ~key_state)
  /\ pc' = "loop"
  /\ missed' = IF key = "release" THEN FALSE ELSE missed
  /\ UNCHANGED <<enc, oled, cursor, head, caller, locals, owed, raced>>

\* A release after a turn of the pressed knob does not open the menu.
MainScreen ==
  /\ pc = "main"
  /\ LET adjust == key = "press" /\ Fix(encoder) # 0
     IN  /\ turned' = (key # "release" /\ (turned \/ adjust))
         /\ key_state' = IF key = "release" THEN FALSE ELSE key_state \/ adjust
         /\ menu' = (key = "release" /\ ~key_state)
  /\ pc' = "loop"
  /\ missed' = IF key = "release" THEN FALSE ELSE missed
  /\ UNCHANGED <<enc, oled, cursor, head, caller, locals, owed, raced>>

(***************************************************************************)
(* The menu: "back", "colorful", "wifi" and "images", in this order.       *)
(***************************************************************************)
Up ==
  /\ cursor' = IF cursor > 0 THEN cursor - 1 ELSE cursor
  /\ head' = IF head > cursor' THEN cursor' ELSE head

\* Mutant of Down: the list scrolls one entry late.
DownScrollsLate ==
  /\ cursor' = IF cursor < num - 1 THEN cursor + 1 ELSE cursor
  /\ head' = IF head + MENU_MAX_SHOW_NUM < cursor'
             THEN cursor' - (MENU_MAX_SHOW_NUM - 1) ELSE head

Down ==
  /\ cursor' = IF cursor < num - 1 THEN cursor + 1 ELSE cursor
  /\ head' = IF head + MENU_MAX_SHOW_NUM - 1 < cursor'
             THEN cursor' - (MENU_MAX_SHOW_NUM - 1) ELSE head

Menu ==
  /\ pc = "menu"
  /\ \/ encoder < 0 /\ Up
     \/ encoder > 0 /\ Down
     \/ encoder = 0 /\ UNCHANGED <<cursor, head>>
  /\ menu' = (key # "release" \/ cursor' # 0)
  /\ \/ key # "release" /\ pc' = "loop" /\ UNCHANGED caller
     \/ key = "release" /\ cursor' = 0 /\ pc' = "loop" /\ UNCHANGED caller
     \/ key = "release" /\ cursor' = 1 /\ Read("colorful")
     \/ key = "release" /\ cursor' = 2 /\ pc' = "wifi" /\ UNCHANGED caller
     \/ key = "release" /\ cursor' = 3 /\ pc' = "images" /\ UNCHANGED caller
  /\ UNCHANGED <<enc, oled, key_state, locals, owed, raced, turned, missed>>

\* colorful_menu reads the knob until a click ends it.
Colorful ==
  /\ pc = "colorful"
  /\ \/ key = "release" /\ pc' = "loop" /\ UNCHANGED caller
     \/ key # "release" /\ Read("colorful")
  /\ UNCHANGED <<enc, oled, menu, cursor, head, key_state, locals, owed,
                 raced, turned, missed>>

\* wifi_config waits for a click, a minute at the most; it reads the key only.
Wifi ==
  /\ pc = "wifi"
  /\ \/ caller = "wifi" /\ pc' = "loop" /\ UNCHANGED caller
     \/ (caller = "wifi" => key # "release") /\ pc' = "key" /\ caller' = "wifi"
  /\ UNCHANGED <<enc, oled, menu, cursor, head, key_state, locals, owed,
                 raced, turned, missed>>

\* play_pixel_images reads nothing.
Images ==
  /\ pc = "images"
  /\ pc' = "loop"
  /\ UNCHANGED <<enc, oled, menu, cursor, head, key_state, caller, locals,
                 owed, raced, turned, missed>>

-----------------------------------------------------------------------------
Init ==
  /\ EncoderKeyState = "release" /\ EncoderKeyRet = "null"
  /\ EncoderCount = 0
  /\ oled = TRUE /\ menu = FALSE /\ cursor = 0 /\ head = 0
  /\ key_state = FALSE
  /\ pc = "loop" /\ caller = "main" /\ encoder = 0 /\ key = "null"
  /\ owed = 0 /\ raced = FALSE /\ turned = FALSE /\ missed = FALSE

Task ==
  \/ Round \/ Wake \/ Screen \/ MainScreen
  \/ Menu \/ Colorful \/ Wifi \/ Images
  \/ LoadCount \/ ClearCount \/ LoadKey \/ ClearKey

Next == Task \/ \E down \in BOOLEAN, step \in -1..1 : Scan(down, step)

\* The timer interrupt returns and the user task is never starved.
Spec == Init /\ [][Next]_vars /\ WF_vars(Task)

-----------------------------------------------------------------------------
(***************************************************************************)
(* Properties                                                              *)
(***************************************************************************)
\* Every step the interrupt counted is given to exactly one reader, except
\* when one was counted between the load and the store of a read: the store
\* throws that one away (encoder.c:180-184).  Steps are told apart as far as a
\* char does: a whole turn of the count, 2 * Half steps unread, is none.
StepsAreKept == ~raced => owed = EncoderCount

\* The entry at the cursor is one of those shown, and the entries shown are
\* entries of the menu: menu_show_select_item reads item[head] and the next.
MenuIsShown ==
  /\ head <= cursor /\ cursor < head + MENU_MAX_SHOW_NUM
  /\ head + MENU_MAX_SHOW_NUM <= num

\* "After the colour temperature was set by pressing and turning, the menu is
\* not entered" (user_task.c:275) is about the press in which it was set: what
\* key_state remembers is never left for the end of a later press, unless
\* main_screen did not get the end of this one.
ClickIsJudged ==
  key_state => \/ turned \/ missed
               \/ key = "release" /\ caller = "main" /\ pc \in {"unkey", "main"}
=============================================================================
