------------------------------- MODULE AtClient -------------------------------
(***************************************************************************)
(* src/module_at/at_client.c: several tasks send AT commands to the WiFi   *)
(* module with at_obj_exec_cmd, one at a time under client->lock; the      *)
(* parser task (client_parser) reads the lines the module sends, stores    *)
(* those that are not URCs in the response object client->resp points to,  *)
(* and raises client->resp_notice when the last one has come.  The caller  *)
(* polls resp_notice and a timer.  Parser and caller share resp,           *)
(* resp_status and resp_notice without the lock.                           *)
(*                                                                         *)
(* A command and its response object (at_create_resp, at_delete_resp) have *)
(* the same number; 0 is the NULL pointer.  All callers ask for line_num   *)
(* 0: a response ends with OK, ERROR or FAIL.  A line has length 1.        *)
(***************************************************************************)
EXTENDS Naturals, Sequences, FiniteSets

CONSTANTS Caller,    \* the tasks that execute commands
          NoCaller,
          MaxCmds,   \* how many commands are ever executed (bounds a run)
          BufSize,   \* buf_size of a response, in lines
          MaxData,   \* data lines before the last line of an answer
          MaxWire    \* lines sent by the module and not yet parsed

ASSUME CallerAssumption == NoCaller \notin Caller
ASSUME BoundAssumption == /\ MaxCmds \in Nat
                          /\ BufSize \in Nat
                          /\ MaxData \in Nat
                          /\ MaxWire \in Nat

NULL == 0
Command == 1 .. MaxCmds
Pointer == Command \cup {NULL}
Status == {"OK", "ERROR", "TIMEOUT", "BUFF_FULL"}
Result == {"none", "success", "failure", "timeout"}
Verdict == {"none", "OK", "ERROR"}
Line == [cmd : Pointer, kind : {"DATA", "OK", "ERROR", "URC"}]

VARIABLES
  (* struct at_client *)
  lock, resp, resp_status, resp_notice,
  (* at_obj_exec_cmd, per task: next statement, the command, its resp      *)
  (* argument, the result and whether the timer has expired                *)
  pc, cmd, arg, result, expired,
  (* response objects: allocated ones, stored lines, line_counts           *)
  live, buf, line_counts,
  (* client_parser: next statement, current line, the value of             *)
  (* client->resp it loaded last, resp_buf_len and line_counts             *)
  ppc, line, held, resp_buf_len, counts,
  (* the module: commands not yet answered, data lines sent for the first  *)
  (* one, lines on their way to the parser                                 *)
  inbox, sent, wire,
  (* history: the answer given to each command, commands used, what        *)
  (* went wrong, accesses through NULL or a freed response               *)
  verdict, used, upset, wild

client == <<lock, resp, resp_status, resp_notice>>
caller == <<pc, cmd, arg, result, expired>>
heap == <<live, buf, line_counts>>
parser == <<ppc, line, held, resp_buf_len, counts>>
module == <<inbox, sent, wire>>
history == <<verdict, used, upset, wild>>
vars == <<client, caller, heap, parser, module, history>>

PC == {"idle", "lock", "prep", "set_resp", "send", "wait", "seen", "check", "clear_resp",
       "clear_notice", "unlock", "delete", "halted"}
(* The statements of at_obj_exec_cmd between lock and unlock.              *)
Locked == {"prep", "set_resp", "send", "wait", "seen", "check", "clear_resp",
           "clear_notice", "unlock"}
PPC == {"read", "check", "load_size", "size", "load_copy", "copy", "judge", "load_end",
        "end", "load_count", "count", "load_num", "num", "load_finish", "finish",
        "clear", "notify", "halted"}

Init == /\ lock = NoCaller
        /\ resp = NULL
        /\ resp_status = "OK"
        /\ resp_notice = FALSE
        /\ pc = [t \in Caller |-> "idle"]
        /\ cmd = [t \in Caller |-> NULL]
        /\ arg = [t \in Caller |-> NULL]
        /\ result = [t \in Caller |-> "none"]
        /\ expired = [t \in Caller |-> FALSE]
        /\ live = {}
        /\ buf = [c \in Command |-> <<>>]
        /\ line_counts = [c \in Command |-> 0]
        /\ ppc = "read"
        /\ line = [cmd |-> NULL, kind |-> "URC"]
        /\ held = NULL
        /\ resp_buf_len = 0
        /\ counts = 0
        /\ inbox = <<>>
        /\ sent = 0
        /\ wire = <<>>
        /\ verdict = [c \in Command |-> "none"]
        /\ used = 0
        /\ upset = {}
        /\ wild = FALSE
-----------------------------------------------------------------------------
(* at_create_resp and the call of at_obj_exec_cmd.  The callers pass the   *)
(* result on even when there was no memory for a response.                 *)
Call(t) ==
    /\ pc[t] = "idle"
    /\ used < MaxCmds
    /\ used' = used + 1
    /\ cmd' = [cmd EXCEPT ![t] = used + 1]
    /\ pc' = [pc EXCEPT ![t] = "lock"]
    /\ \/ /\ live' = live \cup {used + 1}
          /\ arg' = [arg EXCEPT ![t] = used + 1]
          /\ UNCHANGED upset
       \/ /\ arg' = [arg EXCEPT ![t] = NULL]
          /\ upset' = upset \cup {"no_memory"}
          /\ UNCHANGED live
    /\ UNCHANGED <<client, result, expired, buf, line_counts, parser, module, verdict,
                   wild>>

(* A hard fault ends in the fault handler's endless loop: no task runs.    *)
Halt == /\ pc' = [t \in Caller |-> "halted"]
        /\ ppc' = "halted"
halted == ppc = "halted"

(* Faulty variant: the lock is taken without waiting for its holder.       *)
LockUnheard(t) ==
    /\ pc[t] = "lock"
    /\ lock' = t
    /\ pc' = [pc EXCEPT ![t] = "prep"]
    /\ UNCHANGED <<resp, resp_status, resp_notice, cmd, arg, result, expired, heap,
                   parser, module, history>>

(* HAL_MutexLock(client->lock), for ever.                                  *)
Lock(t) ==
    /\ pc[t] = "lock"
    /\ lock = NoCaller
    /\ lock' = t
    /\ pc' = [pc EXCEPT ![t] = "prep"]
    /\ UNCHANGED <<resp, resp_status, resp_notice, cmd, arg, result, expired, heap,
                   parser, module, history>>

(* resp->line_counts = 0; client->resp_status = AT_RESP_OK.  With resp     *)
(* NULL the first store goes to the flash aliased at address 0: it faults  *)
(* or is ignored.                                                          *)
Prepare(t) ==
    /\ pc[t] = "prep"
    /\ resp_status' = "OK"
    /\ \/ /\ pc' = [pc EXCEPT ![t] = "set_resp"]
          /\ UNCHANGED ppc
       \/ arg[t] = NULL /\ Halt
    /\ wild' = (wild \/ arg[t] = NULL)
    /\ line_counts' = IF arg[t] = NULL THEN line_counts
                      ELSE [line_counts EXCEPT ![arg[t]] = 0]
    /\ UNCHANGED <<lock, resp, resp_notice, cmd, arg, result, expired, live, buf,
                   line, held, resp_buf_len, counts, module, verdict, used,
                   upset>>

SetResp(t) ==
    /\ pc[t] = "set_resp"
    /\ resp' = arg[t]
    /\ pc' = [pc EXCEPT ![t] = "send"]
    /\ UNCHANGED <<lock, resp_status, resp_notice, cmd, arg, result, expired, heap,
                   parser, module, history>>

(* at_vprintfln sends the command; HAL_Timer_countdown_ms starts the timer.*)
(* Without a response object there is nothing to wait for.                 *)
Send(t) ==
    /\ pc[t] = "send"
    /\ inbox' = Append(inbox, cmd[t])
    /\ IF arg[t] = NULL
       THEN /\ pc' = [pc EXCEPT ![t] = "clear_resp"]
            /\ result' = [result EXCEPT ![t] = "success"]
       ELSE /\ pc' = [pc EXCEPT ![t] = "wait"]
            /\ UNCHANGED result
    /\ UNCHANGED <<client, cmd, arg, expired, heap, parser, sent, wire, history>>

(* The timer of the waiting command runs out.                              *)
Expire(t) ==
    /\ pc[t] \in {"wait", "seen", "check"}
    /\ ~expired[t]
    /\ expired' = [expired EXCEPT ![t] = TRUE]
    /\ upset' = upset \cup {"timeout"}
    /\ UNCHANGED <<client, pc, cmd, arg, result, heap, parser, module, verdict,
                   used, wild>>

(* The polling loop sees resp_notice and then looks at resp_status.        *)
SeeNotice(t) ==
    /\ pc[t] = "wait"
    /\ resp_notice
    /\ pc' = [pc EXCEPT ![t] = "seen"]
    /\ UNCHANGED <<client, cmd, arg, result, expired, heap, parser, module, history>>

ReadStatus(t) ==
    /\ pc[t] = "seen"
    /\ IF resp_status # "OK"
       THEN /\ result' = [result EXCEPT ![t] = "failure"]
            /\ pc' = [pc EXCEPT ![t] = "clear_resp"]
       ELSE /\ pc' = [pc EXCEPT ![t] = "check"]
            /\ UNCHANGED result
    /\ UNCHANGED <<client, cmd, arg, expired, heap, parser, module, history>>

(* Faulty variant: only a notice ends the loop.                            *)
LeaveLoopNever(t) ==
    /\ pc[t] = "wait"
    /\ resp_notice
    /\ expired[t]
    /\ pc' = [pc EXCEPT ![t] = "check"]
    /\ UNCHANGED <<client, cmd, arg, result, expired, heap, parser, module, history>>

(* The polling loop ends because the timer has expired.                    *)
LeaveLoop(t) ==
    /\ pc[t] = "wait"
    /\ ~resp_notice
    /\ expired[t]
    /\ pc' = [pc EXCEPT ![t] = "check"]
    /\ UNCHANGED <<client, cmd, arg, result, expired, heap, parser, module, history>>

(* if(HAL_Timer_expired(&timer)): asked again after the loop, also when a  *)
(* response has come.                                                      *)
CheckTimer(t) ==
    /\ pc[t] = "check"
    /\ pc' = [pc EXCEPT ![t] = "clear_resp"]
    /\ IF expired[t]
       THEN /\ resp_status' = "TIMEOUT"
            /\ result' = [result EXCEPT ![t] = "timeout"]
       ELSE /\ result' = [result EXCEPT ![t] = "success"]
            /\ UNCHANGED resp_status
    /\ UNCHANGED <<lock, resp, resp_notice, cmd, arg, expired, heap, parser, module,
                   history>>

(* Faulty variant: the pointer is left behind.                             *)
ClearRespNot(t) ==
    /\ pc[t] = "clear_resp"
    /\ pc' = [pc EXCEPT ![t] = "clear_notice"]
    /\ UNCHANGED <<client, cmd, arg, result, expired, heap, parser, module, history>>

ClearResp(t) ==
    /\ pc[t] = "clear_resp"
    /\ resp' = NULL
    /\ pc' = [pc EXCEPT ![t] = "clear_notice"]
    /\ UNCHANGED <<lock, resp_status, resp_notice, cmd, arg, result, expired, heap,
                   parser, module, history>>

ClearNotice(t) ==
    /\ pc[t] = "clear_notice"
    /\ resp_notice' = FALSE
    /\ pc' = [pc EXCEPT ![t] = "unlock"]
    /\ UNCHANGED <<lock, resp, resp_status, cmd, arg, result, expired, heap, parser,
                   module, history>>

Unlock(t) ==
    /\ pc[t] = "unlock"
    /\ lock' = NoCaller
    /\ pc' = [pc EXCEPT ![t] = "delete"]
    /\ UNCHANGED <<resp, resp_status, resp_notice, cmd, arg, result, expired, heap,
                   parser, module, history>>

(* if(resp) at_delete_resp(resp), in the caller, when it is done with the  *)
(* response.                                                               *)
Delete(t) ==
    /\ pc[t] = "delete"
    /\ live' = live \ {arg[t]}
    /\ buf' = [buf EXCEPT ![cmd[t]] = <<>>]
    /\ line_counts' = [line_counts EXCEPT ![cmd[t]] = 0]
    /\ pc' = [pc EXCEPT ![t] = "idle"]
    /\ cmd' = [cmd EXCEPT ![t] = NULL]
    /\ arg' = [arg EXCEPT ![t] = NULL]
    /\ result' = [result EXCEPT ![t] = "none"]
    /\ expired' = [expired EXCEPT ![t] = FALSE]
    /\ UNCHANGED <<client, parser, module, history>>

Exec(t) == \/ Lock(t) \/ Prepare(t) \/ SetResp(t) \/ Send(t) \/ SeeNotice(t)
           \/ ReadStatus(t) \/ LeaveLoop(t) \/ CheckTimer(t) \/ ClearResp(t) \/ ClearNotice(t)
           \/ Unlock(t) \/ Delete(t)
-----------------------------------------------------------------------------
(* client_parser: one line per turn.  Each access to client->resp-> loads  *)
(* the pointer first; a caller can run between load and access.  Values of *)
(* locals that are not used again are forgotten.                           *)

NoLine == [cmd |-> NULL, kind |-> "URC"]
NextLine == ppc' = "read" /\ line' = NoLine /\ held' = NULL

(* at_recv_readline; a URC goes to its handler and not to the response.    *)
ReadLine ==
    /\ ppc = "read"
    /\ wire # <<>>
    /\ wire' = Tail(wire)
    /\ IF Head(wire).kind = "URC"
       THEN UNCHANGED <<ppc, line>>
       ELSE ppc' = "check" /\ line' = Head(wire)
    /\ UNCHANGED <<client, caller, heap, held, resp_buf_len, counts, inbox, sent,
                   history>>

(* else if (client->resp != NULL); other lines are not recognised.         *)
CheckResp ==
    /\ ppc = "check"
    /\ IF resp # NULL
       THEN ppc' = "load_size" /\ UNCHANGED <<line, held>>
       ELSE NextLine
    /\ UNCHANGED <<client, caller, heap, resp_buf_len, counts, module, history>>

Load(from, to) ==
    /\ ppc = from
    /\ held' = resp
    /\ ppc' = to
    /\ UNCHANGED <<client, caller, heap, line, resp_buf_len, counts, module, history>>

LoadResp == \/ Load("load_size", "size")
            \/ Load("load_copy", "copy")
            \/ Load("load_end", "end")
            \/ Load("load_count", "count")
            \/ Load("load_num", "num")
            \/ Load("load_finish", "finish")

(* What an access through the loaded pointer does beyond its purpose.      *)
Dereference == wild' = (wild \/ held \notin live)

(* Does the line fit behind the ones stored?  Through NULL, buf_size is a  *)
(* word of the vector table, a large number; in freed memory it is         *)
(* anything.                                                               *)
FitLine ==
    /\ ppc = "size"
    /\ Dereference
    /\ \/ /\ held \in live => resp_buf_len + 1 < BufSize
          /\ ppc' = "load_copy"
          /\ UNCHANGED resp_status
       \/ /\ IF held \in live THEN ~(resp_buf_len + 1 < BufSize) ELSE held # NULL
          /\ ppc' = "judge"
          /\ resp_status' = "BUFF_FULL"
    /\ UNCHANGED <<lock, resp, resp_notice, caller, heap, line, held, resp_buf_len,
                   counts, module, verdict, used, upset>>

CopyLine ==
    /\ ppc = "copy"
    /\ ppc' = "judge"
    /\ Dereference
    /\ resp_buf_len' = resp_buf_len + 1
    /\ counts' = counts + 1
    /\ buf' = IF held \in live THEN [buf EXCEPT ![held] = Append(@, line.cmd)] ELSE buf
    /\ UNCHANGED <<client, caller, live, line_counts, line, held, module, verdict, used,
                   upset>>

Continue == /\ NextLine
            /\ UNCHANGED resp_status

Complete(status) == /\ ppc' = "load_finish"
                    /\ resp_status' = status
                    /\ UNCHANGED <<line, held>>

Proceed(to) == /\ ppc' = to
               /\ UNCHANGED <<resp_status, line, held>>

(* Is it the last line?  What the text of the line decides.                *)
JudgeText ==
    /\ ppc = "judge"
    /\ CASE line.kind = "ERROR" -> Complete("ERROR")
         [] line.kind = "OK"    -> Proceed("load_end")
         [] line.kind = "DATA"  -> Proceed("load_count")
    /\ UNCHANGED wild

(* OK counts when line_num is 0; it is in a live response, not in the      *)
(* vector table, perhaps in freed memory.                                  *)
JudgeEnd ==
    /\ ppc = "end"
    /\ Dereference
    /\ \/ held # NULL /\ Complete("OK")
       \/ held \notin live /\ Proceed("load_count")

(* line_counts == client->resp->line_num && client->resp->line_num, with a *)
(* load for each.                                                          *)
JudgeCount ==
    /\ ppc = "count"
    /\ Dereference
    /\ \/ /\ IF held \in live THEN counts = 0 ELSE held # NULL
          /\ Proceed("load_num")
       \/ (held \in live => counts # 0) /\ Continue

JudgeNum ==
    /\ ppc = "num"
    /\ Dereference
    /\ \/ held \notin live /\ Complete("OK")
       \/ held # NULL /\ Continue

JudgeLine ==
    /\ JudgeText \/ JudgeEnd \/ JudgeCount \/ JudgeNum
    /\ UNCHANGED <<lock, resp, resp_notice, caller, heap, resp_buf_len, counts, module,
                   verdict, used, upset>>

(* client->resp->line_counts = line_counts                                 *)
PublishCounts ==
    /\ ppc = "finish"
    /\ \/ /\ ppc' = "clear"
          /\ UNCHANGED pc
       \/ held = NULL /\ Halt
    /\ Dereference
    /\ line_counts' = IF held \in live THEN [line_counts EXCEPT ![held] = counts]
                                       ELSE line_counts
    /\ UNCHANGED <<client, cmd, arg, result, expired, live, buf, line, held,
                   resp_buf_len, counts, module, verdict, used, upset>>

ParserClearResp ==
    /\ ppc = "clear"
    /\ resp' = NULL
    /\ ppc' = "notify"
    /\ UNCHANGED <<lock, resp_status, resp_notice, caller, heap, line, held,
                   resp_buf_len, counts, module, history>>

(* Faulty variant: the counters go on from one response to the next.       *)
NotifyKeepCounts ==
    /\ ppc = "notify"
    /\ resp_notice' = TRUE
    /\ ppc' = "read"
    /\ UNCHANGED <<lock, resp, resp_status, caller, heap, line, held, resp_buf_len,
                   counts, module, history>>

Notify ==
    /\ ppc = "notify"
    /\ resp_notice' = TRUE
    /\ resp_buf_len' = 0
    /\ counts' = 0
    /\ NextLine
    /\ UNCHANGED <<lock, resp, resp_status, caller, heap, module, history>>

Parse == \/ ReadLine \/ CheckResp \/ LoadResp \/ FitLine \/ CopyLine \/ JudgeLine
         \/ PublishCounts \/ ParserClearResp \/ Notify
-----------------------------------------------------------------------------
(* The WiFi module (not in src/): it answers commands in order, with some  *)
(* data lines and a last line, or not at all, and sends URCs at any time.  *)
(* Lines stay in order; one that finds the ring buffer full is lost.       *)

Emit(l) == /\ wire' = IF Len(wire) < MaxWire THEN Append(wire, l) ELSE wire
           /\ upset' = IF Len(wire) < MaxWire \/ l.kind = "URC"
                       THEN upset ELSE upset \cup {"lost_line"}

SendData ==
    /\ inbox # <<>>
    /\ sent < MaxData
    /\ Emit([cmd |-> Head(inbox), kind |-> "DATA"])
    /\ sent' = sent + 1
    /\ UNCHANGED <<client, caller, heap, parser, inbox, verdict, used, wild>>

SendFinal ==
    /\ inbox # <<>>
    /\ \E k \in {"OK", "ERROR"} :
          /\ Emit([cmd |-> Head(inbox), kind |-> k])
          /\ verdict' = [verdict EXCEPT ![Head(inbox)] = k]
    /\ inbox' = Tail(inbox)
    /\ sent' = 0
    /\ UNCHANGED <<client, caller, heap, parser, used, wild>>

Ignore ==
    /\ inbox # <<>>
    /\ inbox' = Tail(inbox)
    /\ sent' = 0
    /\ UNCHANGED <<client, caller, heap, parser, wire, history>>

SendURC ==
    /\ Emit([cmd |-> NULL, kind |-> "URC"])
    /\ UNCHANGED <<client, caller, heap, parser, inbox, sent, verdict, used,
                   wild>>

Module == SendData \/ SendFinal \/ Ignore \/ SendURC
-----------------------------------------------------------------------------
Next == \/ \E t \in Caller : \/ Call(t) \/ Lock(t) \/ Prepare(t) \/ SetResp(t)
                             \/ Send(t) \/ Expire(t) \/ SeeNotice(t) \/ ReadStatus(t)
                             \/ LeaveLoop(t) \/ CheckTimer(t) \/ ClearResp(t) \/ ClearNotice(t)
                             \/ Unlock(t) \/ Delete(t)
        \/ Parse
        \/ Module

(* Every task is scheduled (one priority, time slices), the tick advances  *)
(* every running timer, and the mutex is handed to its waiters in turn.    *)
Fairness == \A t \in Caller : /\ WF_vars(Exec(t))
                              /\ SF_vars(Lock(t))
                              /\ WF_vars(Expire(t))

Spec == Init /\ [][Next]_vars /\ Fairness
-----------------------------------------------------------------------------
TypeOK ==
    /\ lock \in Caller \cup {NoCaller}
    /\ resp \in Pointer
    /\ resp_status \in Status
    /\ resp_notice \in BOOLEAN
    /\ pc \in [Caller -> PC]
    /\ cmd \in [Caller -> Pointer]
    /\ arg \in [Caller -> Pointer]
    /\ result \in [Caller -> Result]
    /\ expired \in [Caller -> BOOLEAN]
    /\ live \subseteq Command
    /\ buf \in [Command -> Seq(Command)]
    /\ line_counts \in [Command -> Nat]
    /\ ppc \in PPC
    /\ line \in Line
    /\ held \in Pointer
    /\ resp_buf_len \in Nat
    /\ counts \in Nat
    /\ inbox \in Seq(Command)
    /\ sent \in Nat
    /\ wire \in Seq(Line)
    /\ verdict \in [Command -> Verdict]
    /\ used \in 0 .. MaxCmds
    /\ upset \subseteq {"timeout", "no_memory", "lost_line"}
    /\ wild \in BOOLEAN

(* Nothing has happened that the code answers with a timeout, and no       *)
(* response object was missing.                                            *)
Calm == upset = {}

(* client->resp never points to anything but the response of the command   *)
(* that holds the lock, while that command waits: whatever the parser, the *)
(* timers and the other callers do, the pointer itself never dangles.      *)
RespBelongsToHolder ==
    resp # NULL /\ ~halted =>
                   /\ lock # NoCaller
                   /\ arg[lock] = resp
                   /\ resp \in live
                   /\ pc[lock] \in {"send", "wait", "seen", "check", "clear_resp"}

(* The documented result (at_client.c:314): success and failure are what   *)
(* the module answered to this very command.                               *)
ResultIsAnswer(t) ==
    /\ result[t] = "success" => verdict[cmd[t]] = "OK"
    /\ result[t] = "failure" => verdict[cmd[t]] = "ERROR"

(* As long as no timer expires, no line is lost and memory suffices; and   *)
(* the parser, which tests client->resp and loads it again for every       *)
(* access, then never stores through a dead response.                      *)
CalmResultIsAnswer ==
    Calm => /\ ~wild
            /\ \A t \in Caller : pc[t] = "delete" => ResultIsAnswer(t)

(* A command starts on a clean slate: no notice is up, and the parser has  *)
(* no lines of an earlier response in its counters.                        *)
CleanStart ==
    \A t \in Caller : pc[t] = "send"
        => ~resp_notice /\ resp_buf_len = 0 /\ counts = 0 /\ ppc = "read"

(* The response read by the caller has its own lines only, and line_counts *)
(* says how many; no command finds anything an earlier one left behind.    *)
OwnLines(c) == /\ \A i \in DOMAIN buf[c] : buf[c][i] = c
               /\ line_counts[c] = Len(buf[c])

CalmResponseIsOwn ==
    Calm => /\ CleanStart
            /\ \A t \in Caller : pc[t] = "delete" /\ result[t] = "success"
                                 => OwnLines(cmd[t])

(* Every at_obj_exec_cmd returns, whatever the module and the parser do,   *)
(* unless the system has faulted.                                          *)
ExecReturns == \A t \in Caller : (pc[t] = "lock") ~> (pc[t] = "idle" \/ halted)
=============================================================================
