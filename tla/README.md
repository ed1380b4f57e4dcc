# TLA+ models of iot_led

iot_led is the firmware of a desk lamp: an STM32G070 under TencentOS-tiny, an
ESP8266 WiFi module behind a UART that speaks AT commands, a rotary encoder,
an OLED and WS2812 LEDs, controlled from the Tencent IoT cloud through a "data
template".  The models here cover the parts in which several tasks, the UART
interrupt, timers and the outside world share state.  Paths below are relative
to `src/`; `Q` stands for `qcloud-iot-sdk-tencent-at-based`.

## 1. Inventory

| component | state | operations | hard behaviour |
|---|---|---|---|
| UART interrupt and ring buffer (`Q/port/hal_at.c`, `Q/src/module_at/ringbuff.c`) | `g_ring_buff`: buffer, size, readpoint, writepoint, full | push (interrupt), pop, flush, init (tasks) | no lock; interrupt between any two statements; used before initialised |
| AT client (`Q/src/module_at/at_client.c`) | `sg_at_client`: lock, resp, resp_status, resp_notice, receive buffer, end_sign | at_create_resp, at_obj_exec_cmd, at_delete_resp, client_parser, at_recv_readline, at_client_obj_recv | caller and parser share the response without the lock; timeouts; late answers; URCs between answers |
| module interface (`Q/src/module_at/module_api_inf.c`) | `sg_flags` | WiFi and MQTT commands, waitFlag, URC handlers | flags changed by two tasks by read-modify-write; a flag cleared, then waited for |
| MQTT subscriptions (`Q/src/mqtt/mqtt.c`) | `sg_msg_handlers[5]`, `sg_mqtt_lock` | register_sub_topic, deliver_message | topics with wildcards, a line that was cut short; the lock is never found set, since one task does both |
| message list (`Q/src/utils/utils_list.c`, `Q/src/data_template/data_template_client.c`) | `pMsgList` | IOT_Template_Message_Arrived_CallBack (parser), _handle_message (application) | doubly linked list changed by two tasks, mutex commented out |
| data template (`data_template_client.c`, `data_template_client_manager.c`) | reply_list, sync_status, token_num, control token | Report, GetStatus, ClearControl, ControlReply, their synchronous forms, Yield, reply and expiry handlers | replies late, lost, malformed; expiry; callbacks that send again; list limit |
| application task (`Q/usr_logic`) | sg_control_msg_arrived, property states, sg_ProductData | boot, main loop, control callback | several control messages per turn, a failing step ends the task |
| documents (`data_template_client_json.c`, `json_parser.c`, `json_token.c`) | none | construction into a buffer, search by a dotted path | every step may not fit; lengths wrap |
| events and actions (`data_template_event.c`, `data_template_aciton.c`, `data_template_client_common.c`) | event_list, property_handle_list, action_handle_list | post, reply, expiry; register, unregister; control and action messages | replies late, twice or never; handlers found by a pointer of another kind; the application has the events commented out and actions are not compiled |
| timers (`at_timer.c`) | end_time | countdown, expired, remain | 32-bit tick that wraps |
| OS port (`Q/port/hal_os.c`) | slot tables for threads and mutexes | create, destroy, lock | four slots, no protection |
| encoder (`user_code/encoder.c`) | key state, step counter | EncoderScan (timer interrupt), ReadEncoder, ReadEncoderKey | read, then clear, against the interrupt |
| user interface (`user_code/user_task.c`) | menu position, brightness, colour temperature, power | main_screen, menu_task, setters | writes back values the cloud may have changed |
| effects (`user_code/WS2812FX.c`) | one segment and its runtime, pixel buffer | service, 55 mode functions, set_colorful_mode | two tasks start, stop and draw without a lock |
| display (`gui.c`, ...) | frame buffer | drawing | sequential |

How they interact.  The interrupt pushes bytes; the parser task
(`client_parser`) pops them, assembles lines and either calls a URC handler in
its own context (flags, message list) or completes the response the caller
waits for.  Callers are the application task (`data_template_demo_task`), which
also takes messages from the list in `IOT_Template_Yield` and hands them to the
data template, and the user interface task (WiFi configuration).  All tasks
have one priority and share time slices; only AT commands and the reply list
are under a mutex.

What makes each correct.

* Ring buffer: bytes come out in order, none twice, none overwritten while it
  is being read, none lost unless the ring is full or being reset.
* AT client: the response pointer never dangles, the result of a command is
  the module's answer to this command, a response holds this command's lines,
  every command returns.
* Flags: an update of one flag never undoes another; what is waited for is the
  event of this command.
* Message list: every message is delivered once, in order, and freed once.
* Data template: every request is answered by its callback exactly once or
  expires, a synchronous call returns, every control message is acknowledged.
* Line reader: the parser gets every line as it was sent, and one spoilt line
  does not spoil the next.
* Documents: what reports success is whole, stays in its buffer and is read
  back as what it was built of; an event is answered once; a message reaches
  the handlers it is meant for.
* Encoder, lamp: no step and no command from the cloud is lost, and the light is
  what the screen shows.
* Effects: nothing is drawn outside the strip, off means dark, the user task
  comes back.

The hazards with their source lines are listed in `PROJECT.json`.

## 2. Plan

1. `RingBuff` (with the abstract `ByteQueue`) and its proofs - done.
2. `AtClient`, its live and violation runs, proofs of its lock discipline -
   done.
3. `DataTemplate`: application task, reply list, synchronous calls, control
   messages, cloud - done.
4. `MsgList`: lpush against iterate-and-remove, word by word - done.
5. `Network`: joining WiFi and MQTT, sg_flags and waitFlag, registration before
   subscription, and its proofs - done.
6. `LineReader`: at_recv_readline, at_client_getchar, end_sign, flush - done.
7. `Panel`, with its proofs, `Lamp`, `Effects`: the knob, the screens, the light
   and the strip, with the cloud's commands in between - done.
8. `Json`, `Delivery` and `Template`, which composes them: documents, topics,
   events, actions, registration - done.
9. Proofs: refinement of `ByteQueue` by `RingBuff`, the invariants of `AtClient`,
   `Network`, `Panel`, `Lamp`, `DataTemplate` and `LineReader`, of `MsgList` without
   overlap, of `Effects`, and of `Template` the events and the room that any
   document needs - done.

Modules that are proved about use no RECURSIVE operator and declare their
constants with named assumptions.

## 3. Modules

### ByteQueue, RingBuff, RingBuffProofs

`RingBuff` has the fields of `sRingbuff` (`attached` stands for `buffer`
pointing at the array) and a program counter for the task that owns the read
side.  `ring_buff_push_data` is one action because the interrupt runs to
completion: `HAL_UART_RxCpltCallback` asks for the next byte and pushes the one
it received (the handler is in the board's project, not in `src/`; the one in
`hal_at.c` is commented out, and the README of the firmware, lines 247-270, shows
where it is put); every statement of `ring_buff_pop_data`, `ring_buff_flush` and
`ring_buff_init` that touches shared state is an action.  Boot is included:
`module_power_on` flushes the ring while its size is 0, then
`at_client_para_init` initialises it.  `pData` is the byte of the last pop;
`parity` is a history variable that makes a dropped byte a step.

`ByteQueue` is what the ring promises: a bounded FIFO whose bytes leave in
order, and are lost only when it is full or being reset.  `RingBuff!Queue` is
the refinement mapping: the queue is the slots after readpoint up to
writepoint, empty while the two pointers are being reset one after the other;
the byte of a pop is decided when readpoint advances.

### AtClient, MCAtClient, AtClientProofs

One action per statement of `at_obj_exec_cmd` and `client_parser` that reads or
writes shared state.  The parser loads `client->resp` anew for every access, and
each of these loads is an action of its own (`Load`), so a caller may run between
any two of them: whether a line fits (`FitLine`) and where it is copied
(`CopyLine`) may concern two responses, and so may the tests that judge a line
and the status and count that are stored (the `Judge` actions).  A response
object and its command share a number; `live` is the set of allocated ones.  An
access through NULL or a freed object sets `wild`; what it reads is anything
the vector table at address 0 or reused memory could give, and a store to
address 0 faults or is ignored (`Halt`).  The module (external) answers
commands in order with data lines and OK or ERROR, or stays silent, and sends
URCs at any time; a line that finds the ring full is lost.  Lines are atoms of
length 1; `buf_size` is in lines.  `verdict`, `used`, `upset`, `wild` are
history variables; `upset` records that a timer expired, a line was lost or
memory was short.

### DataTemplate, DataTemplateProofs

The application task from `IOT_Template_Construct` on, with the data template
it calls.  `pc` names the call the task is in: construction, registration, the
two synchronous calls, then the loop.  A request is first published, then added
to `reply_list`; `Yield`, `Fetch` and the `Deliver` actions are
`_handle_message`, one message at a time, so the parser task pushes (`Arrive`)
in between; `Expire` is `handle_template_expired_reply`.  Publishing stands for
the connection query and the AT command: it succeeds or fails, and the cloud
may answer or not, independently.  Tokens are `<<"dev", n>>` for the device's
own and `<<"ctl", n>>` for control messages; CLEAR and REPLY borrow the token
of a message, as in the code.  Values are abstracted to the set of tokens
applied (`product`, `lamp`).  `pMsgList` is a sequence here; what its missing
mutex does to the links is in `MsgList`.  `reply_list` is the set of its
requests: every request has a number of its own, and no traversal depends on
their order.  `MaxRequests` is a consequence of the other bounds, not one of its
own: nothing makes the task send more, so the guard of `Start` stops nothing.  `replied`, `calls`
and `upset` are history variables; `upset` records that the request of a
synchronous call expired or was answered without a code.  A callback after
expiry takes a pointer to the acknowledgement for the request: its stray write
either has no effect on the model's variables or ends the task.

### Network, NetworkProofs

data_template_demo_task up to its loop, as a row of calls of module_api_inf.c.
`call` is the AT command, `pc` its stage: register the topic, clear a flag
(`Load` and `Store` are the two halves of `sg_flags &= ~flag`), send, await the
answer, wait for the flag, clear it again, return.  `Cleared`, `Awaited` and
`Fails` say what distinguishes the calls, `Follows` and `GoesOn` what
net_prepare, module_register_network and IOT_Template_Construct make of their
results.  The parser task reads a line: an answer is handed to the call that
waits, whoever it was meant for, as `AtClient` shows it can happen; a URC goes
through its handler's load and store.  With no memory for a response nobody
waits for the answer; that the NULL pointer is also written through is in
`AtClient`.  The model starts after module_init.  The module (external) follows
the instruction set in docs/: OK or ERROR at once, the outcome of +TCMQTTCONN and
+TCMQTTSUB later; `lost` is a link it tries to get back.  `acked`, `wrong` and
`reported` are history variables: `wrong` holds the flags that a race or a
misread URC has left wrong until the next report on them.  WiFi is compared
with its flag only once CWJAP has succeeded, because wifi_set_cwmod clears the
flag of a module that has joined by itself.

### MsgList, MsgListProofs

The list in memory: `len`, `head`, `tail` and every node's `prev` and `next`,
one action per word that `list_lpush` (parser task) and the iterator and
`list_remove` (application task) read or write; loads that are used later
(`h`, `plen`, `r`, `alen`) are kept.  An access through NULL or to a freed node
ends the model (`wild`).  `overlap` is a history variable: `list_lpush` and
`list_remove` have been under way at once, each counted from its first decision
to its last store.  What the calm properties show is how little a lock would
have to cover: neither the delivery nor the iteration.

### LineReader, LineReaderProofs

The bytes of the module, each named by its line and place, go through the ring
(a queue here, as `RingBuff` shows) to `at_client_getchar` and
`at_recv_readline`: `ReadByte` and `ReadLine` take one off, `Overflow` is a line
longer than the buffer, which flushes the ring, `Timeout` and `LateByte` are the
two outcomes of a timer that has expired, the second when a byte was popped
first.  `SetEndSign`, `SendCommand` and `ClearEndSign` are `module_mqtt_publ` in
another task.  `calm` and `since` are history variables: whether anything was
ever lost or joined, and how many lines ago.

### Panel, UserTaskProofs

`Scan` is the timer interrupt: the debouncing of the key and the step of the
knob.  Everything else is the user task: `pc` says what it is about to do and
`caller` who reads the knob; a read is a load and a store (`LoadCount`,
`ClearCount`, `LoadKey`, `ClearKey`) with the interrupt in between.  `MainScreen`,
`Menu`, `Colorful`, `Wifi` and `Images` are the screens, as far as they depend on
the knob; `Wake` is the display coming back.  The count is a char that wraps when
nobody reads it for long, which a minute of `wifi_config` allows (`Wrap`).  `owed`, `raced`, `turned` and
`missed` are history variables.

### Lamp, LampProofs

The three values the screen shows, the intermediate results and the two compare
registers; every assignment of `set_brightness`, `set_color_temp` and
`power_switch` is a step of the task that called it.  `main_screen` loads the
values, adjusts them (`Knob`, `Adjusted`) and sets all three in every round; a
turn of 16 steps, whose square is 0 as an int8_t, moves nothing but switches the
lamp on like any other;
`Order` is a control message.  `Span` maps the colour temperature to steps.

### Effects, UserTaskProofs

One action per statement that touches the segment, its runtime or the pixel
buffer.  The 55 mode functions are records: the runtimes a function can leave
early, the pixels it draws, and the fields it stores at its end; between the
beginning of a function, its drawing and its last store the data template task
may run `set_colorful_mode`.  Colours are only told apart as BLACK or not.
`disturbed` is a history variable: the tasks overlapped.

### Json, Delivery, Template, DataTemplateProofs

`Json` is a library of functions on texts, which are sequences of tokens.  A
document under construction is a record: the text, the size of the buffer, the
last `remain_size`, the return code, and whether anything was written behind
the buffer.  `Report`, `SystemInfo`, `SingleEvent` and the others are the
constructing functions, each a list of statements (measure what remains, write at
the end or over the last bytes, put a node, insert the type, loop over a list);
`Step` is what one of them does to the document, and `Round` is one round of a
loop.  `LITE_json_value_of` and what it is made of is the parser.  `size_t` wraps at
`WORD`.

`Delivery` is a library of the same kind: `at_sscanf` for the three conversions
that are used, `at_strip`, `_is_topic_matched` and `deliver_message`.

`Template` is the state: the events that wait for a reply, the registered
properties and actions, the values of the properties.  The calls of the
application are actions; messages from the cloud go through `deliver_message`
as a whole line with blanks, then through the parser, and only what is read
there decides.  A document is built one statement at a time: `jsonBuffer` is the
buffer, `todo` what is left to do, `WriteStep` does the next statement and drops
the rest when it fails, as the early returns do, `NextRound` goes round a loop, and
no call begins before the one before has ended (`Returned`).  `built` keeps the last
document, or the last message, for the properties.  The lists of properties, labels
and events, the raw texts and what a buffer held before are constants; `MCTemplate`
gives them the values of the run.  Documents that wait for nothing, cut lines and topics are handled
while the lists are empty (`Idle`), since they do not depend on them, and
registrations while no event waits (`Apart`): the two halves of the state share
no variable but the token counter.  `event_list` is the set of its records: they
have different tokens, and a traversal treats each by itself.

The names `TemplateInit`, `EventToken`, `eventVars` and the like, and
`StripSpec` and the like in `Effects`, only keep these modules apart from the ones
whose proofs stand beside theirs.

## 4. Runs

| run | what it shows | bounds |
|---|---|---|
| `ring_buff` | the ring implements `ByteQueue`; a pop is never disturbed; the interrupt never stores through a missing array; bytes are consumed | 4 slots, 2 byte values: wraps, fills, resets and boot all occur; two values suffice to tell a reordered or duplicated byte |
| `at_client` | `RespBelongsToHolder`, and, as long as nothing times out, is lost or lacks memory, results and responses are the module's own answers, every command starts on a clean slate and no store goes through a bad pointer (`Calm...`) | 2 callers, 2 commands, buffer of 2 lines, answers of up to 2 lines, 2 lines under way: commands of two callers overlap, answers come late, responses overflow |
| `at_client_live` | every `at_obj_exec_cmd` returns or the system has faulted | 2 callers, 2 commands, one-line answers |
| `line_reader` | without a timeout, an overflow or an end sign at the wrong time every line is given to the parser as sent; after one, at most one more line is spoilt | 3 lines of 5 kinds, buffer of 4 bytes, so that one kind overflows |
| `data_template` | callbacks once and by the right reply, no request left behind by a call that has returned, a waiting call has its request in the list, every request ends, and what a control message changed reaches the lamp and is reported | 1 control message besides the control data of a status, list of 3 requests, 2 waiting messages: a full list, CLEAR, REPLY and REPORT pending together |
| `dt_sync` (violation) | a synchronous call does not return after its timeout | 1 control message |
| `msg_list` | without an overlap of `list_lpush` and `list_remove` the list is a queue: order, both chains, length, delivery | 4 messages: pushes to an empty list, to one node and to several, before, between and after deliveries; length modulo 8 |
| `network` | what a call waits for is not lost in a race on `sg_flags`; the display is true; a subscription that succeeds was confirmed; no topic without a handler; no data template without a reported connection | 2 lines under way, links lost or regained twice: answers and URCs of one command read during the next, both flags changed during a load and store |
| `panel` | a step of the knob is lost only between a load and its store; the cursor stays in the window and the window in the menu; a turn under pressure is held against the click it belongs to | 4 entries, 2 shown, as in the code; a count of 6 values instead of 256, so that it wraps in both directions |
| `lamp` | without an overlap what the cloud asked for is kept and the light is what the screen shows; after one it settles there | brightness 0..2, 2 colour temperatures, turns of 1, 2 control messages: both ends of both ranges, switching off at zero and on again, messages inside every statement of a round |
| `effects` | nothing is drawn outside the strip, and off means dark, unless the tasks overlapped; a service call returns unless its colour is BLACK | 4 pixels, counters modulo 16, modes scan (dual), twinkle, fireworks and off reached by commands; one that counts up and down, one that counts down from a random start, one that loops |
| `template` | a document that has properties and reports success is whole; one that fails or overruns its buffer has filled half of it by then, after any statement; it is read back as what it was built of; an event is answered once; messages reach the handlers they name | lists of no, one and two properties of 6 kinds of value, 5 buffer sizes from far too small to ample, 2 waiting events of 3, 2 registrations, all lines cut at any place, topics of up to 3 levels against all filters of up to 3 levels |

`DataTemplate`, `MsgList`, `Network`, `LineReader` and `Effects` may stop, and
their runs do not look for deadlock: the application task can end or a bound on
the messages is used up.

Things the models show that have no run of their own.

* Boot: module_init powers the module on, which flushes the ring, before the
  client is initialised, although the comment at module_api_inf.c:349 says the
  opposite: `RingBuff` starts with that flush.
* Commands: an OK that comes after a timeout completes the next command.  The
  NULL response that a comment allows (at_client.c:311) is written through at
  line 338, eight lines before it is tested.  A response that did not fit into
  its buffer is still a success, since the status of the last line overwrites
  AT_RESP_BUFF_FULL; after a timeout `line_counts` starts at the count of the
  response that was given up.
* Network: the handlers of +TCMQTTCONN and +TCMQTTSUB take FAIL for OK, so a
  refused subscription succeeds and a refused connection is displayed until the
  next report; IOT_Template_Construct reports only its last subscription.
* Data template: a failed first subscription is never repeated, since
  `sync_status < 0` cannot hold; only the last of several control messages is
  acknowledged; a registration that fails destroys the client and the task goes
  on with it; a message pushed while another is removed may be lost.
* Registration: `match` of a list is never set, so list_find compares a property
  with the handlers on the list.  Registering twice adds two handlers and
  unregistering always fails, although qcloud_iot_export_error.h:51 has a code
  for a property that exists already.
* Documents: template_put_json_node is given the rest of the buffer as its size
  and subtracts the text once more, so a buffer is refused when little more than
  half of it is used, and at less than that the length wraps; an empty status
  message leaves a backslash before the closing brace; the search along a dotted
  path goes on behind the object of its first part.
* Empty lists: the constructing functions write the closing bracket over the comma
  behind the last property, and do not ask whether there is one.  With a count, an
  `eventDataNum` or an `output_num` of 0, or a first key that is NULL, the bracket
  is written over `:{`, the document goes on with `"params"}}` or `"response"}}`,
  and the call reports success (data_template_client.c:277-301 and 412-429,
  data_template_event.c:400-417, data_template_aciton.c:293-315), although the
  header says of IOT_Post_Event that the SDK completes the JSON
  (qcloud_iot_export_data_template.h:359).  The run has such lists.  `SuccessIsWhole`
  says that what reports success is whole; it is false, and TLC finds the shortest
  such document within seconds when it is put into Template.cfg.  `BuiltIsWhole`, which the run
  checks, is the same with the premise that no list is empty (`Populated`).  The
  application reports only when a property has changed, so it never passes one.
* Messages: a payload loses all its blanks, inside strings too (%S); a line that
  was cut behind its topic is delivered and reported as success; the filter `a/#`
  also fits `ab`, and `a/+/` fits `a/`; the callback of an action runs when its
  input is missing or unreadable, and that of a property when its value could
  not be read, with the old value.

What the calm properties leave out.  Where tasks share data without a lock, or a
timeout leaves something behind, the code is not correct without a premise, and
the property says which one it needs: `Calm...` of `AtClient` and `LineReader`
(no timeout, nothing lost, memory suffices), `overlap` in `MsgList`, `wrong` in
`Network`, `raced` and `missed` in `Panel`, `lost` in `Lamp`, `disturbed` and
`black` in `Effects`.  They do not show that the hazard they name is harmless;
they show that it is the only way to the damage, and the models keep the steps
that lead there.  The notes of the hazards in `PROJECT.json` say so at each.

Fairness.  `RingBuff`: weak fairness of the task's statements; interrupt and
flush are never forced.  `AtClient`: weak fairness of every caller's statements
(tasks share one priority with time slices), of its timer (the tick advances
and is looked at before it has gone round: see section 6)
and strong fairness of taking the lock (the mutex is handed to its waiters in
turn); neither parser nor module is assumed fair: `ExecReturns` needs neither.
`DataTemplate`: weak fairness of the application task and of the timers; the
cloud owes nothing.  `MsgList`: weak fairness of both tasks, and strong fairness
of getting memory for an iterator (the heap is not exhausted for ever).
`Lamp` and `Effects`: weak fairness of the statements of each task; `Panel` the
same for the user task, which no property there needs.  `Network`, `LineReader`
and `Template` state no liveness property and assume no fairness.

## 5. Proofs

Every theorem holds for any values of the constants that satisfy the named
assumptions of the module: any ring size above 1 and any set of bytes
(`SizeAssumption`, `ByteAssumption`), any set of callers and any bounds
(`CallerAssumption`, `BoundAssumption`), any width of the knob's
count, any menu and window (`PanelAssumption`),
any range of brightness and colour temperature (`LampAssumption`), any number of
nodes of the message list (`NodesAssumption`), any strip of four LEDs or more and any
choice of modes (`EffectsAssumption`), any limit of the list of events and up to
four tokens, any lists of properties, labels and events (several events are two or more)
and any raw text, any text
left in a buffer and any buffer smaller than `WORD` (`TemplateAssumption`), which
may be any number (`WordAssumption`).

* `RingBuffProofs`: `TypeCorrect`, `RingHasArray`, `PoppedSlotStable`.  The
  inductive invariant `IInv` adds to the types only that ring_buff_init has set
  the array before it is about to set the size.  The interrupt (`PushIInv`)
  and the task (`TaskIInv`) are treated apart.  That a push never overwrites
  the slot a pop is about to copy then follows from the full test alone.
  `RingIsQueue`: the ring implements `ByteQueue`.
  `PointerInv` says where boot and resets leave the pointers: both at 0 while
  the size is 0, readpoint at 0 from its reset until the parser may pop again,
  and different from writepoint once a pop has seen a byte.  The lemmas about
  `ContentsOf` say what the modular indices do to the sequence of bytes: a
  stored byte is appended (`PushContents`), an advanced readpoint takes the
  head off (`PopContents`), a full ring holds Size - 1 (`FullContents`), a
  memset blanks at most one waiting byte (`BlankContents`).  `PushQueue` and
  `TaskQueue` map every step to a step of the queue or to a stutter.
* `AtClientProofs`: `TypeCorrect`, `RespNeverDangles`, `OneCommandAtATime`,
  `ResultsAreAnswers`, `ResponsesAreOwn`.
  `RespBelongsToHolder` is not inductive by itself: that the object the pointer
  names is still allocated when another caller deletes its own needs that the
  calls in progress have different commands (`CallInv`), that the holder of
  the lock is the task between lock and unlock (`LockInv`), and that a fault
  stops everyone (`HaltInv`); the types need that only lines of a command reach
  the part of the parser that stores them (`LineInv`).  One lemma per action.
  The last two theorems are about runs where no timer expires, no line is lost
  and memory suffices.  `CalmInv` divides such a run in three: the parser is at
  rest and no notice is up (`Clean`); it is at work on the answer to the command
  that waits and on nothing else, whose last line is to come, on the wire or in
  its hand (`Answering`); the answer is complete, the notice up and the parser at
  rest again (`Answered`).
* `NetworkProofs`: `TypeCorrect`, `AckNotLost`, `SubscribedHandled`,
  `ConstructedReported`, `SuccessConfirmed`, `DisplayTrue`.  None of the properties is
  inductive, because a task may store a copy of `sg_flags` it loaded long ago:
  `AckInv` says that the copy the parser holds is no older than a report the
  call waits for, `ReportInv` that no copy holds the state flag before it was
  reported, `TopicInv` follows a topic from its registration to the module and
  back, and `ConfirmInv` says that every line that reports a subscription is
  true and that a set flag is either this call's or marked wrong.
  `DisplayInv` speaks of the last line under way that reports a link: it is true
  of the link, or a refusal, and when there is none the flag is; while the lamp
  joins, only one direction of that holds for WiFi, and `wait` restores the other.
* `UserTaskProofs`, the screens: `TypeCorrect`, `StepsKept`, `MenuShown`,
  `ClickJudged`, for every length of the menu and of the window.  `StepsAreKept`
  is inductive with `ReadIsDue`: between the load and the store the reader holds what is owed.
  `ClickIsJudged` needs `CInv`: that a turn remembered by main_screen belongs to
  the press whose end is still to come (`EndIsDue`) or is in the reader's hand
  (`InHand`).
* `UserTaskProofs`, the strip: `NothingOutsideStrip` and `DarkWhenOff`, for every
  strip and all 55 modes.  That a mode draws on the strip depends
  on the counters it finds in the runtime of its segment, so `StripInv` says what
  they are: `Fits` holds for a mode when they are fresh, or were left by that same
  mode (a scanner has turned before the end, a comet is at most as far as its
  limit).  `EffectSound` shows, mode by mode, that from such counters nothing is
  drawn outside and such counters are left.  A mode never finds those of another
  because the reset comes before the new mode is stored; once a command of the
  cloud has overlapped the user task this may fail, and the invariant then says
  nothing until a command restarts or stops the strip.  `DarkInv` says at which
  statements of stop the strip may still be lit.
* `MsgListProofs`: `CalmDeliversInOrder`, `CalmListStaysSound`, for any number of
  nodes: as long as no push has overlapped a removal, messages are handled in
  the order they came, each once, and head, tail, length and links agree whenever
  nobody is changing them.  The invariant records how far the list is apart:
  `Gone*` follow a removal through list_remove and `Top*` a push through
  list_lpush, word by word, each for the reader who depends on that word
  (who follows prev from tail, who starts at head, who counts).  The iterator
  stands at the end or just ahead of the node in hand, although pushes go on while
  it is in hand.  That a removal never meets a node with a `next` (the one taken
  is always the tail, so `unlink_next` is not reached) is a consequence, not an
  assumption.
* `LampProofs`: `TypeCorrect`, `CommandStays`, `LightShown`.  That the light is
  what the screen shows holds only when no task is inside the three functions;
  `LightInv` adds what a task that sets the light alone has achieved so far, label
  by label: the values it has assigned, the ratios, the outputs, the first
  register.  `KeptInv` says that what the cloud asked for is still in the values
  shown or in what main_screen has read of them, and that a command which is not
  finished carries what was asked.
* `DataTemplateProofs`: `TypeCorrect`, `RepliesMatched`, `CalledBackOnce`,
  `ContextsValid`, `WaitingPending`, for any number of control messages and any
  length of the two lists.  `IdInv`: requests are told apart by their numbers and
  those with a callback by their tokens; `MsgInv`: every reply on its way carries
  the method of the request whose token it has, and only CLEAR borrows a token
  whose GET is gone; `FlowInv`: the message in hand while a CLEAR is sent is the
  one it answers; `SyncInv`: a request that refers to the stack of a call is the
  only one, and its call has not returned; `PendingInv`: it leaves the list only
  with the acknowledgement set, or after it expired or was answered without a
  code.
  `EventsCalledOnce` is about `Template`, in the same module because the two
  describe one client: `FreshInv`, a token that was not given out is nowhere, makes
  the records of the list tell apart by their tokens, and so a reply meets at most
  one.  What the parser reads of a reply is not derived: `ReplyAssumption` says
  that it is the token the cloud put there, of each of the 24 replies there are,
  and TLC evaluates it; the values of the other constants play no part in it.
  `RoomIsEnough` (`RoomSuffices`) is about every document that can be built, with
  lists of any length, so no run can stand for it.  `Building` follows a construction from
  statement to statement and needs no induction over the lists, since a loop is
  unrolled by steps.  Either the text is shorter than the buffer, nothing was
  written behind it, and the `remain_size` last measured is at least what is left
  of it (`Fits`), or the buffer is full (`Full`).  That is not quite inductive, for three
  reasons found in the code, and the invariant carries one term for each: the
  acknowledgement of a control message measures the text the buffer still held
  (`Len(old)`), which is the `Len(old)` of `HalfFull`; the brace that replaces the comma
  behind the last property is a byte shorter than it (`Slack`), which happens once in a
  document; and before the first write there is no text of the document at all
  (`Unbegun`).  The order of the statements is what makes these three rare enough:
  `Ordered` says that a document is begun first and shrinks once, and
  `StatementsOrdered` shows it of every document, `RoundUsual` of every round of a loop.
  One lemma for each kind of statement (`WriteSound`, `NodeSound`, `TypeSound`, ...) then
  keeps `Fits` or `Full`, and shows that a failure, at the `<= 1` of a measurement, at
  the second subtraction of the text in put_json_node, or at a truncated snprintf,
  finds half of the buffer filled.  The second subtraction may wrap below zero: then
  the node is written into a room of nearly `WORD` bytes, which overruns the buffer
  only when that was more than half full (`NodeSound`).
* `LineReaderProofs`: `TypeCorrect`, `LinesAreSent`, `DamageLocal`, for any
  length of the buffer and any number of lines (`ReaderAssumption`).
  `StreamInv`: the ring is always a piece of the stream, since bytes are lost at
  its front only; `BufInv` and `LineInv`: what the reader has of a line is the
  beginning of that line, as long as nothing was lost since the last one, and
  from the second line after a loss on every line is one the module sent.

The type invariants of `RingBuff`, `AtClient`, `Network` and `Panel` are proved
and no longer repeated in the runs.

Only model-checked: liveness, which is out of this prover's reach
(`BytesAreConsumed`, `CalmIsDelivered`, `ControlIsApplied`, `ExecReturns`,
`LightSettles`, `RequestsEnd`, `ServiceReturns`); and what `BuiltIsWhole`,
`BuiltIsRead` and `MessageIsRead` say of texts, which are compared and read with
folds and recursive functions (the document that is meant, the backslashes taken
out, the parser): induction over data is out of reach too.

## 6. Not modelled

* The display (`gui.c`, fonts) and the tables of pictures and glyphs: output
  only.  They are a good part of the source's lines.
* The OS port (`hal_os.c`) and the tick arithmetic of `at_timer.c`: the models
  take a mutex, a shortage of memory and a timer from how the code uses them.  A
  timer may run out at any time, so the safety properties hold whether a wrap of
  the tick makes it early or late.  The liveness properties of `AtClient` and
  `DataTemplate` do not go as far: weak fairness lets every
  timer run out in the end, but `now_ts > end_time` (at_timer.c:27) misses an
  `end_time` close to 2^32 for a whole turn of the tick, 49 days, when nobody
  looks in the milliseconds that are left, and 2^32 - 1 for ever.
* Colours, speeds and times of the effects; several segments, which nothing
  configures; the waveform `ws2812_driver.c` writes on the wire.
* Functions nobody calls: at_client_wait_connect, at_resp_parse_line_args and its
  kin, IOT_Template_Report_Sync, LITE_json_keys_of, `string_utils.c`, the test
  server calls of the module, and the code for other module types, which the
  configuration leaves out.
* Samples, tools, and the conversion of single numbers and floats (sscanf,
  snprintf of the C library).

`PROJECT.json` names the state of every component.
