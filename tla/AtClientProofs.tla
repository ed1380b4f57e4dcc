---------------------------- MODULE AtClientProofs ----------------------------
(***************************************************************************)
(* For any number of calling tasks, commands and lines, and any buffer     *)
(* sizes: the AT client is well typed, one task at a time is between lock  *)
(* and unlock, and client->resp never points to anything but the live      *)
(* response of the task that holds the lock.  As long as nothing expires   *)
(* or is lost, results and responses are those of the command itself.      *)
(***************************************************************************)
EXTENDS AtClient, TLAPS

(* TypeOK by the owner of the variables.                                   *)
ClientOK == /\ lock \in Caller \cup {NoCaller}
            /\ resp \in Pointer
            /\ resp_status \in Status
            /\ resp_notice \in BOOLEAN
CallerOK == /\ pc \in [Caller -> PC]
            /\ cmd \in [Caller -> Pointer]
            /\ arg \in [Caller -> Pointer]
            /\ result \in [Caller -> Result]
            /\ expired \in [Caller -> BOOLEAN]
HeapOK == /\ live \subseteq Command
          /\ buf \in [Command -> Seq(Command)]
          /\ line_counts \in [Command -> Nat]
ParserOK == /\ ppc \in PPC
            /\ line \in Line
            /\ held \in Pointer
            /\ resp_buf_len \in Nat
            /\ counts \in Nat
ModuleOK == /\ inbox \in Seq(Command)
            /\ sent \in Nat
            /\ wire \in Seq(Line)
HistoryOK == /\ verdict \in [Command -> Verdict]
             /\ used \in 0 .. MaxCmds
             /\ upset \subseteq {"timeout", "no_memory", "lost_line"}
             /\ wild \in BOOLEAN

(* A hard fault stops the parser and every caller, or none of them.        *)
HaltInv == \A t \in Caller : pc[t] = "halted" <=> halted

(* The lock is held by the task that is between lock and unlock.           *)
LockInv == /\ \A t \in Caller : pc[t] \in Locked => lock = t
           /\ lock # NoCaller => pc[lock] \in Locked \cup {"halted"}

(* A call in progress has a command of its own, and its response, if there *)
(* was memory for one, has the command's number and is allocated.          *)
CallInv == \A t \in Caller :
             /\ cmd[t] <= used
             /\ pc[t] \notin {"idle", "halted"} => cmd[t] # NULL
             /\ arg[t] # NULL => arg[t] = cmd[t] /\ arg[t] \in live
             /\ \A s \in Caller : s # t /\ cmd[t] # NULL => cmd[s] # cmd[t]

(* Lines that are not URCs belong to a command, and only those reach the   *)
(* part of the parser that stores them.                                    *)
OfCommand(l) == l.kind # "URC" => l.cmd \in Command
LineInv == /\ \A i \in DOMAIN wire : OfCommand(wire[i])
           /\ OfCommand(line)
           /\ ppc \notin {"read", "halted"} => line.kind # "URC"

(* RespBelongsToHolder, which needs all of them.                           *)
IInv == /\ ClientOK
        /\ CallerOK
        /\ HeapOK
        /\ ParserOK
        /\ ModuleOK
        /\ HistoryOK
        /\ HaltInv
        /\ LockInv
        /\ CallInv
        /\ LineInv
        /\ RespBelongsToHolder
-----------------------------------------------------------------------------
USE CallerAssumption, BoundAssumption
USE DEF PC, PPC, Locked, Status, Result, Verdict, Pointer, Command, NULL, halted,
        client, caller, heap, parser, module, history

(* Queues of any kind of element.                                          *)
LEMMA QueueFacts ==
  ASSUME NEW S, NEW q \in Seq(S), NEW x \in S
  PROVE  /\ Append(q, x) \in Seq(S)
         /\ q # <<>> => Head(q) \in S /\ Tail(q) \in Seq(S)
OBVIOUS

(* A line the module sends arrives behind the others or is lost.           *)
LEMMA EmitFacts ==
  ASSUME ModuleOK, HistoryOK, LineInv, NEW l \in Line, OfCommand(l), Emit(l), line' = line,
         ppc' = ppc
  PROVE  /\ wire' \in Seq(Line)
         /\ upset' \subseteq {"timeout", "no_memory", "lost_line"}
         /\ LineInv'
<1>1. wire' = wire \/ wire' = Append(wire, l)
  BY DEF Emit
<1>2. wire' \in Seq(Line)
  BY <1>1, QueueFacts DEF ModuleOK
<1>3. upset' \subseteq {"timeout", "no_memory", "lost_line"}
  BY DEF Emit, HistoryOK
<1>4. LineInv'
  BY <1>1 DEF LineInv, OfCommand, ModuleOK
<1> QED BY <1>2, <1>3, <1>4

LEMMA InitIInv == Init => IInv
<1> SUFFICES ASSUME Init PROVE IInv
  OBVIOUS
<1> USE DEF Init
<1>1. ClientOK /\ CallerOK
  BY DEF ClientOK, CallerOK
<1>2. ParserOK /\ HistoryOK
  <2>1. line \in Line
    BY DEF Line
  <2>2. ppc \in PPC /\ held \in Pointer /\ resp_buf_len \in Nat /\ counts \in Nat
    OBVIOUS
  <2>3. verdict \in [Command -> Verdict] /\ used \in 0 .. MaxCmds
    OBVIOUS
  <2>4. upset \subseteq {"timeout", "no_memory", "lost_line"} /\ wild \in BOOLEAN
    OBVIOUS
  <2> QED BY <2>1, <2>2, <2>3, <2>4 DEF ParserOK, HistoryOK
<1>3. HeapOK /\ ModuleOK
  <2>1. <<>> \in Seq(Command) /\ <<>> \in Seq(Line)
    OBVIOUS
  <2> QED BY <2>1 DEF HeapOK, ModuleOK
<1>4. HaltInv /\ LockInv /\ CallInv /\ RespBelongsToHolder
  BY DEF HaltInv, LockInv, CallInv, RespBelongsToHolder
<1>5. LineInv
  BY DEF LineInv, OfCommand
<1> QED BY <1>1, <1>2, <1>3, <1>4, <1>5 DEF IInv

LEMMA CallStep == ASSUME IInv, NEW t \in Caller, Call(t) PROVE IInv'
<1> USE DEF Call
<1>1. CallerOK'
  <2>1. used + 1 \in Pointer
    BY DEF IInv, HistoryOK
  <2>2. cmd' \in [Caller -> Pointer] /\ arg' \in [Caller -> Pointer]
    BY <2>1 DEF IInv, CallerOK
  <2>3. pc' \in [Caller -> PC]
    BY DEF IInv, CallerOK
  <2> QED BY <2>2, <2>3 DEF IInv, CallerOK
<1>2. HeapOK'
  <2>1. used + 1 \in Command
    BY DEF IInv, HistoryOK
  <2> QED BY <2>1 DEF IInv, HeapOK
<1>3. HistoryOK'
  <2>1. used' \in 0 .. MaxCmds
    BY DEF IInv, HistoryOK
  <2>2. upset' \subseteq {"timeout", "no_memory", "lost_line"}
    BY DEF IInv, HistoryOK
  <2> QED BY <2>1, <2>2 DEF IInv, HistoryOK
<1>4. HaltInv'
  BY DEF IInv, HaltInv, CallerOK
<1>5. LockInv'
  BY DEF IInv, LockInv, ClientOK, CallerOK, HaltInv
<1>6. CallInv'
  BY DEF IInv, CallInv, CallerOK, HistoryOK, HaltInv
<1>7. RespBelongsToHolder'
  BY DEF IInv, RespBelongsToHolder, ClientOK, CallerOK, HeapOK, HaltInv, LockInv, CallInv
<1>8. ClientOK' /\ ParserOK' /\ ModuleOK' /\ LineInv'
  BY DEF IInv, ClientOK, ParserOK, ModuleOK, LineInv, OfCommand
<1> QED BY <1>1, <1>2, <1>3, <1>4, <1>5, <1>6, <1>7, <1>8 DEF IInv

LEMMA LockStep == ASSUME IInv, NEW t \in Caller, Lock(t) PROVE IInv'
<1> USE DEF Lock
<1>1. ClientOK'
  BY DEF IInv, ClientOK
<1>2. CallerOK'
  BY DEF IInv, CallerOK
<1>3. HaltInv'
  BY DEF IInv, HaltInv, CallerOK
<1>4. LockInv'
  BY DEF IInv, LockInv, ClientOK, CallerOK, HaltInv
<1>5. CallInv'
  BY DEF IInv, CallInv, CallerOK, HistoryOK, HaltInv
<1>6. RespBelongsToHolder'
  BY DEF IInv, RespBelongsToHolder, ClientOK, CallerOK, HeapOK, HaltInv, LockInv, CallInv
<1>7. HeapOK' /\ ParserOK' /\ ModuleOK' /\ HistoryOK' /\ LineInv'
  BY DEF IInv, HeapOK, ParserOK, ModuleOK, HistoryOK, LineInv, OfCommand
<1> QED BY <1>1, <1>2, <1>3, <1>4, <1>5, <1>6, <1>7 DEF IInv

LEMMA PrepareStep == ASSUME IInv, NEW t \in Caller, Prepare(t) PROVE IInv'
<1> USE DEF Prepare, Halt
<1>1. ClientOK'
  BY DEF IInv, ClientOK
<1>2. CallerOK'
  BY DEF IInv, CallerOK
<1>3. HeapOK'
  BY DEF IInv, HeapOK
<1>4. ParserOK'
  BY DEF IInv, ParserOK, ClientOK
<1>5. HistoryOK'
  BY DEF IInv, HistoryOK
<1>6. HaltInv'
  BY DEF IInv, HaltInv, CallerOK
<1>7. LockInv'
  BY DEF IInv, LockInv, ClientOK, CallerOK, HaltInv
<1>8. CallInv'
  BY DEF IInv, CallInv, CallerOK, HistoryOK, HaltInv
<1>9. LineInv'
  BY DEF IInv, LineInv, ModuleOK, ParserOK, OfCommand
<1>10. RespBelongsToHolder'
  BY DEF IInv, RespBelongsToHolder, ClientOK, CallerOK, HeapOK, HaltInv, LockInv, CallInv
<1>11. ModuleOK'
  BY DEF IInv, ModuleOK
<1> QED BY <1>1, <1>2, <1>3, <1>4, <1>5, <1>6, <1>7, <1>8, <1>9, <1>10, <1>11 DEF IInv

LEMMA SetRespStep == ASSUME IInv, NEW t \in Caller, SetResp(t) PROVE IInv'
<1> USE DEF SetResp
<1>1. ClientOK'
  <2>1. resp' \in Pointer
    BY DEF IInv, CallerOK
  <2> QED BY <2>1 DEF IInv, ClientOK
<1>2. CallerOK'
  BY DEF IInv, CallerOK
<1>3. HaltInv'
  BY DEF IInv, HaltInv, CallerOK
<1>4. LockInv'
  BY DEF IInv, LockInv, ClientOK, CallerOK, HaltInv
<1>5. CallInv'
  BY DEF IInv, CallInv, CallerOK, HistoryOK, HaltInv
<1>6. RespBelongsToHolder'
  BY DEF IInv, RespBelongsToHolder, ClientOK, CallerOK, HeapOK, HaltInv, LockInv, CallInv
<1>7. HeapOK' /\ ParserOK' /\ ModuleOK' /\ HistoryOK' /\ LineInv'
  BY DEF IInv, HeapOK, ParserOK, ModuleOK, HistoryOK, LineInv, OfCommand
<1> QED BY <1>1, <1>2, <1>3, <1>4, <1>5, <1>6, <1>7 DEF IInv

LEMMA SendStep == ASSUME IInv, NEW t \in Caller, Send(t) PROVE IInv'
<1> USE DEF Send
<1>1. CallerOK'
  BY DEF IInv, CallerOK
<1>2. ModuleOK'
  <2>1. cmd[t] \in Command
    BY DEF IInv, CallerOK, CallInv
  <2> QED BY <2>1 DEF IInv, ModuleOK
<1>3. HaltInv'
  BY DEF IInv, HaltInv, CallerOK
<1>4. LockInv'
  BY DEF IInv, LockInv, ClientOK, CallerOK, HaltInv
<1>5. CallInv'
  BY DEF IInv, CallInv, CallerOK, HistoryOK, HaltInv
<1>6. RespBelongsToHolder'
  BY DEF IInv, RespBelongsToHolder, ClientOK, CallerOK, HeapOK, HaltInv, LockInv, CallInv
<1>7. ClientOK' /\ HeapOK' /\ ParserOK' /\ HistoryOK' /\ LineInv'
  BY DEF IInv, ClientOK, HeapOK, ParserOK, HistoryOK, LineInv, OfCommand
<1> QED BY <1>1, <1>2, <1>3, <1>4, <1>5, <1>6, <1>7 DEF IInv

LEMMA ExpireStep == ASSUME IInv, NEW t \in Caller, Expire(t) PROVE IInv'
<1> USE DEF Expire
<1>1. CallerOK'
  BY DEF IInv, CallerOK
<1>2. HistoryOK'
  BY DEF IInv, HistoryOK
<1>3. ClientOK' /\ HeapOK' /\ ParserOK' /\ ModuleOK' /\ HaltInv' /\ LockInv' /\ CallInv'
     /\ LineInv' /\ RespBelongsToHolder'
  BY DEF IInv, ClientOK, HeapOK, ParserOK, ModuleOK, HaltInv, LockInv, CallInv, LineInv,
         RespBelongsToHolder, OfCommand
<1> QED BY <1>1, <1>2, <1>3 DEF IInv

(* The polling loop changes nothing but the caller's own locals.           *)
LEMMA PollStep ==
  ASSUME IInv, NEW t \in Caller, SeeNotice(t) \/ ReadStatus(t) \/ LeaveLoop(t) PROVE IInv'
<1>1. PICK next \in {"seen", "check", "clear_resp"} : pc' = [pc EXCEPT ![t] = next]
  BY DEF SeeNotice, ReadStatus, LeaveLoop
<1>2. /\ pc[t] \in {"wait", "seen"}
      /\ result' \in [Caller -> Result]
      /\ UNCHANGED <<client, cmd, arg, expired, heap, parser, module, history>>
  BY DEF SeeNotice, ReadStatus, LeaveLoop, IInv, CallerOK
<1>3. CallerOK' /\ HaltInv'
  BY <1>1, <1>2 DEF IInv, CallerOK, HaltInv
<1>4. LockInv' /\ CallInv'
  BY <1>1, <1>2 DEF IInv, CallerOK, LockInv, CallInv
<1>5. RespBelongsToHolder'
  BY <1>1, <1>2 DEF IInv, CallerOK, RespBelongsToHolder
<1>6. ClientOK' /\ HeapOK' /\ ParserOK' /\ ModuleOK' /\ HistoryOK' /\ LineInv'
  BY <1>2 DEF IInv, ClientOK, HeapOK, ParserOK, ModuleOK, HistoryOK, LineInv, OfCommand
<1> QED BY <1>3, <1>4, <1>5, <1>6 DEF IInv

LEMMA CheckTimerStep == ASSUME IInv, NEW t \in Caller, CheckTimer(t) PROVE IInv'
<1> USE DEF CheckTimer
<1>1. ClientOK'
  BY DEF IInv, ClientOK
<1>2. CallerOK'
  BY DEF IInv, CallerOK
<1>3. HaltInv'
  BY DEF IInv, HaltInv, CallerOK
<1>4. LockInv'
  BY DEF IInv, LockInv, ClientOK, CallerOK, HaltInv
<1>5. CallInv'
  BY DEF IInv, CallInv, CallerOK, HistoryOK, HaltInv
<1>6. RespBelongsToHolder'
  BY DEF IInv, RespBelongsToHolder, ClientOK, CallerOK, HeapOK, HaltInv, LockInv, CallInv
<1>7. HeapOK' /\ ParserOK' /\ ModuleOK' /\ HistoryOK' /\ LineInv'
  BY DEF IInv, HeapOK, ParserOK, ModuleOK, HistoryOK, LineInv, OfCommand
<1> QED BY <1>1, <1>2, <1>3, <1>4, <1>5, <1>6, <1>7 DEF IInv

LEMMA ClearRespStep == ASSUME IInv, NEW t \in Caller, ClearResp(t) PROVE IInv'
<1> USE DEF ClearResp
<1>1. ClientOK'
  BY DEF IInv, ClientOK
<1>2. CallerOK'
  BY DEF IInv, CallerOK
<1>3. HaltInv'
  BY DEF IInv, HaltInv, CallerOK
<1>4. LockInv'
  BY DEF IInv, LockInv, ClientOK, CallerOK, HaltInv
<1>5. CallInv'
  BY DEF IInv, CallInv, CallerOK, HistoryOK, HaltInv
<1>6. RespBelongsToHolder'
  BY DEF IInv, RespBelongsToHolder, ClientOK, CallerOK, HeapOK, HaltInv, LockInv, CallInv
<1>7. HeapOK' /\ ParserOK' /\ ModuleOK' /\ HistoryOK' /\ LineInv'
  BY DEF IInv, HeapOK, ParserOK, ModuleOK, HistoryOK, LineInv, OfCommand
<1> QED BY <1>1, <1>2, <1>3, <1>4, <1>5, <1>6, <1>7 DEF IInv

LEMMA ClearNoticeStep == ASSUME IInv, NEW t \in Caller, ClearNotice(t) PROVE IInv'
<1> USE DEF ClearNotice
<1>1. ClientOK'
  BY DEF IInv, ClientOK
<1>2. CallerOK'
  BY DEF IInv, CallerOK
<1>3. HaltInv'
  BY DEF IInv, HaltInv, CallerOK
<1>4. LockInv'
  BY DEF IInv, LockInv, ClientOK, CallerOK, HaltInv
<1>5. CallInv'
  BY DEF IInv, CallInv, CallerOK, HistoryOK, HaltInv
<1>6. RespBelongsToHolder'
  BY DEF IInv, RespBelongsToHolder, ClientOK, CallerOK, HeapOK, HaltInv, LockInv, CallInv
<1>7. HeapOK' /\ ParserOK' /\ ModuleOK' /\ HistoryOK' /\ LineInv'
  BY DEF IInv, HeapOK, ParserOK, ModuleOK, HistoryOK, LineInv, OfCommand
<1> QED BY <1>1, <1>2, <1>3, <1>4, <1>5, <1>6, <1>7 DEF IInv

LEMMA UnlockStep == ASSUME IInv, NEW t \in Caller, Unlock(t) PROVE IInv'
<1> USE DEF Unlock
<1>1. ClientOK'
  BY DEF IInv, ClientOK
<1>2. CallerOK'
  BY DEF IInv, CallerOK
<1>3. HaltInv'
  BY DEF IInv, HaltInv, CallerOK
<1>4. LockInv'
  BY DEF IInv, LockInv, ClientOK, CallerOK, HaltInv
<1>5. CallInv'
  BY DEF IInv, CallInv, CallerOK, HistoryOK, HaltInv
<1>6. RespBelongsToHolder'
  BY DEF IInv, RespBelongsToHolder, ClientOK, CallerOK, HeapOK, HaltInv, LockInv, CallInv
<1>7. HeapOK' /\ ParserOK' /\ ModuleOK' /\ HistoryOK' /\ LineInv'
  BY DEF IInv, HeapOK, ParserOK, ModuleOK, HistoryOK, LineInv, OfCommand
<1> QED BY <1>1, <1>2, <1>3, <1>4, <1>5, <1>6, <1>7 DEF IInv

LEMMA DeleteStep == ASSUME IInv, NEW t \in Caller, Delete(t) PROVE IInv'
<1> USE DEF Delete
<1>1. CallerOK'
  BY DEF IInv, CallerOK
<1>2. HeapOK'
  <2>1. live' \subseteq Command /\ line_counts' \in [Command -> Nat]
    BY DEF IInv, HeapOK
  <2>2. buf' \in [Command -> Seq(Command)]
    <3>1. <<>> \in Seq(Command)
      OBVIOUS
    <3> QED BY <3>1 DEF IInv, HeapOK
  <2> QED BY <2>1, <2>2 DEF HeapOK
<1>3. HaltInv'
  BY DEF IInv, HaltInv, CallerOK
<1>4. LockInv'
  BY DEF IInv, LockInv, ClientOK, CallerOK, HaltInv
<1>5. CallInv'
  BY DEF IInv, CallInv, CallerOK, HistoryOK, HaltInv
<1>6. RespBelongsToHolder'
  BY DEF IInv, RespBelongsToHolder, ClientOK, CallerOK, HeapOK, HaltInv, LockInv, CallInv
<1>7. ClientOK' /\ ParserOK' /\ ModuleOK' /\ HistoryOK' /\ LineInv'
  BY DEF IInv, ClientOK, ParserOK, ModuleOK, HistoryOK, LineInv, OfCommand
<1> QED BY <1>1, <1>2, <1>3, <1>4, <1>5, <1>6, <1>7 DEF IInv

LEMMA ReadLineStep == ASSUME IInv, ReadLine PROVE IInv'
<1> USE DEF ReadLine
<1>1. ParserOK'
  <2>1. Head(wire) \in Line
    BY QueueFacts DEF IInv, ModuleOK
  <2>2. line' \in Line
    BY <2>1 DEF IInv, ParserOK
  <2> QED BY <2>2 DEF IInv, ParserOK
<1>2. ModuleOK'
  BY DEF IInv, ModuleOK
<1>3. HaltInv'
  BY DEF IInv, HaltInv, CallerOK
<1>4. LineInv'
  BY DEF IInv, LineInv, ModuleOK, ParserOK, OfCommand
<1>5. RespBelongsToHolder'
  BY DEF IInv, RespBelongsToHolder, ClientOK, CallerOK, HeapOK, HaltInv, LockInv, CallInv
<1>6. ClientOK' /\ CallerOK' /\ HeapOK' /\ HistoryOK' /\ LockInv' /\ CallInv'
  BY DEF IInv, ClientOK, CallerOK, HeapOK, HistoryOK, LockInv, CallInv
<1> QED BY <1>1, <1>2, <1>3, <1>4, <1>5, <1>6 DEF IInv

LEMMA CheckRespStep == ASSUME IInv, CheckResp PROVE IInv'
<1> USE DEF CheckResp, NextLine, NoLine, Line
<1>1. ParserOK'
  BY DEF IInv, ParserOK, ClientOK
<1>2. HaltInv'
  BY DEF IInv, HaltInv, CallerOK
<1>3. LineInv'
  BY DEF IInv, LineInv, ModuleOK, ParserOK, OfCommand
<1>4. RespBelongsToHolder'
  BY DEF IInv, RespBelongsToHolder, ClientOK, CallerOK, HeapOK, HaltInv, LockInv, CallInv
<1>5. ClientOK' /\ CallerOK' /\ HeapOK' /\ ModuleOK' /\ HistoryOK' /\ LockInv' /\
     CallInv'
  BY DEF IInv, ClientOK, CallerOK, HeapOK, ModuleOK, HistoryOK, LockInv, CallInv
<1> QED BY <1>1, <1>2, <1>3, <1>4, <1>5 DEF IInv

LEMMA LoadRespStep == ASSUME IInv, LoadResp PROVE IInv'
<1>1. /\ held' = resp
      /\ ppc \notin {"read", "halted"} /\ ppc' \in PPC \ {"read", "halted"}
      /\ UNCHANGED <<client, caller, heap, line, resp_buf_len, counts, module, history>>
  BY DEF LoadResp, Load
<1>2. ClientOK' /\ CallerOK' /\ HeapOK' /\ ModuleOK' /\ HistoryOK' /\ LockInv' /\ CallInv'
  BY <1>1 DEF IInv, ClientOK, CallerOK, HeapOK, ModuleOK, HistoryOK, LockInv, CallInv
<1>3. ParserOK' /\ HaltInv' /\ LineInv'
  BY <1>1 DEF IInv, ClientOK, ParserOK, HaltInv, LineInv, OfCommand
<1>4. RespBelongsToHolder'
  BY <1>1 DEF IInv, RespBelongsToHolder
<1> QED BY <1>2, <1>3, <1>4 DEF IInv

LEMMA FitLineStep == ASSUME IInv, FitLine PROVE IInv'
<1> USE DEF FitLine, Dereference
<1>1. ClientOK' /\ HistoryOK'
  BY DEF IInv, ClientOK, HistoryOK
<1>2. ParserOK' /\ HaltInv' /\ LineInv'
  BY DEF IInv, ParserOK, HaltInv, LineInv, OfCommand
<1>3. CallerOK' /\ HeapOK' /\ ModuleOK' /\ LockInv' /\ CallInv'
  BY DEF IInv, CallerOK, HeapOK, ModuleOK, LockInv, CallInv
<1>4. RespBelongsToHolder'
  BY DEF IInv, RespBelongsToHolder
<1> QED BY <1>1, <1>2, <1>3, <1>4 DEF IInv

LEMMA CopyLineStep == ASSUME IInv, CopyLine PROVE IInv'
<1> USE DEF CopyLine, Dereference
<1>1. HeapOK'
  <2>1. CASE buf' = buf
    BY <2>1 DEF IInv, HeapOK
  <2>2. CASE buf' = [buf EXCEPT ![held] = Append(@, line.cmd)] /\ held \in live
    <3>1. line.cmd \in Command /\ held \in Command
      BY <2>2 DEF IInv, LineInv, OfCommand, HeapOK
    <3>2. Append(buf[held], line.cmd) \in Seq(Command)
      BY <3>1 DEF IInv, HeapOK
    <3> QED BY <2>2, <3>2 DEF IInv, HeapOK
  <2> QED BY <2>1, <2>2
<1>2. ParserOK' /\ HaltInv' /\ LineInv'
  BY DEF IInv, ParserOK, HaltInv, LineInv, OfCommand
<1>3. ClientOK' /\ CallerOK' /\ ModuleOK' /\ HistoryOK' /\ LockInv' /\ CallInv'
  BY DEF IInv, ClientOK, CallerOK, ModuleOK, HistoryOK, LockInv, CallInv
<1>4. RespBelongsToHolder'
  BY DEF IInv, RespBelongsToHolder
<1> QED BY <1>1, <1>2, <1>3, <1>4 DEF IInv

(* The end of the line's text and the parser's next statement.             *)
LEMMA Judgement ==
  ASSUME IInv, JudgeLine
  PROVE  /\ UNCHANGED <<lock, resp, resp_notice, caller, heap, resp_buf_len, counts, module,
                        verdict, used, upset>>
         /\ wild' \in BOOLEAN
         /\ ppc \in {"judge", "end", "count", "num"}
         /\ line.kind \in {"DATA", "OK", "ERROR"}
         /\ \/ \E status \in {"ERROR", "OK"} : Complete(status)
            \/ \E to \in {"load_end", "load_count", "load_num"} : Proceed(to)
            \/ Continue
<1>1. /\ UNCHANGED <<lock, resp, resp_notice, caller, heap, resp_buf_len, counts, module,
                     verdict, used, upset>>
      /\ wild' \in BOOLEAN
      /\ ppc \in {"judge", "end", "count", "num"}
  BY DEF JudgeLine, JudgeText, JudgeEnd, JudgeCount, JudgeNum, Dereference, IInv, HistoryOK
<1>2. line.kind \in {"DATA", "OK", "ERROR"}
  BY <1>1 DEF IInv, LineInv, ParserOK, Line
<1>3. ASSUME JudgeText PROVE \/ Complete("ERROR")
                             \/ Proceed("load_end")
                             \/ Proceed("load_count")
  BY <1>2, <1>3 DEF JudgeText
<1>4. ASSUME JudgeEnd PROVE Complete("OK") \/ Proceed("load_count")
  BY <1>4 DEF JudgeEnd
<1>5. ASSUME JudgeCount PROVE Proceed("load_num") \/ Continue
  BY <1>5 DEF JudgeCount
<1>6. ASSUME JudgeNum PROVE Complete("OK") \/ Continue
  BY <1>6 DEF JudgeNum
<1>7. \/ \E status \in {"ERROR", "OK"} : Complete(status)
      \/ \E to \in {"load_end", "load_count", "load_num"} : Proceed(to)
      \/ Continue
  BY <1>3, <1>4, <1>5, <1>6 DEF JudgeLine
<1> QED BY <1>1, <1>2, <1>7

LEMMA JudgeLineStep == ASSUME IInv, JudgeLine PROVE IInv'
<1> USE DEF NextLine, NoLine, Line
<1>1. /\ UNCHANGED <<lock, resp, resp_notice, caller, heap, resp_buf_len, counts, module,
                     verdict, used, upset>>
      /\ wild' \in BOOLEAN
      /\ ppc \in {"judge", "end", "count", "num"}
  BY Judgement
<1>2. /\ ClientOK' /\ ParserOK' /\ HaltInv' /\ LineInv'
      /\ (ppc' # "halted")
  <2>1. CASE \E status \in {"ERROR", "OK"} : Complete(status)
    BY <1>1, <2>1 DEF Complete, IInv, ClientOK, ParserOK, HaltInv, LineInv, OfCommand
  <2>2. CASE \E to \in {"load_end", "load_count", "load_num"} : Proceed(to)
    BY <1>1, <2>2 DEF Proceed, IInv, ClientOK, ParserOK, HaltInv, LineInv, OfCommand
  <2>3. CASE Continue
    BY <1>1, <2>3 DEF Continue, IInv, ClientOK, ParserOK, HaltInv, LineInv, OfCommand
  <2> QED BY <2>1, <2>2, <2>3, Judgement
<1>3. CallerOK' /\ HeapOK' /\ ModuleOK' /\ HistoryOK' /\ LockInv' /\ CallInv'
  BY <1>1 DEF IInv, CallerOK, HeapOK, ModuleOK, HistoryOK, LockInv, CallInv
<1>4. RespBelongsToHolder'
  BY <1>1 DEF IInv, RespBelongsToHolder
<1> QED BY <1>2, <1>3, <1>4 DEF IInv

LEMMA PublishCountsStep == ASSUME IInv, PublishCounts PROVE IInv'
<1> USE DEF PublishCounts, Dereference, Halt
<1>1. CallerOK'
  BY DEF IInv, CallerOK
<1>2. HeapOK'
  <2>1. line_counts' \in [Command -> Nat]
    BY DEF IInv, HeapOK, ParserOK
  <2> QED BY <2>1 DEF IInv, HeapOK
<1>3. ParserOK'
  BY DEF IInv, ParserOK, ClientOK
<1>4. HistoryOK'
  BY DEF IInv, HistoryOK
<1>5. HaltInv'
  BY DEF IInv, HaltInv, CallerOK
<1>6. LockInv'
  BY DEF IInv, LockInv, ClientOK, CallerOK, HaltInv
<1>7. CallInv'
  BY DEF IInv, CallInv, CallerOK, HistoryOK, HaltInv
<1>8. LineInv'
  BY DEF IInv, LineInv, ModuleOK, ParserOK, OfCommand
<1>9. RespBelongsToHolder'
  BY DEF IInv, RespBelongsToHolder, ClientOK, CallerOK, HeapOK, HaltInv, LockInv, CallInv
<1>10. ClientOK' /\ ModuleOK'
  BY DEF IInv, ClientOK, ModuleOK
<1> QED BY <1>1, <1>2, <1>3, <1>4, <1>5, <1>6, <1>7, <1>8, <1>9, <1>10 DEF IInv

LEMMA ParserClearRespStep == ASSUME IInv, ParserClearResp PROVE IInv'
<1> USE DEF ParserClearResp
<1>1. ClientOK'
  BY DEF IInv, ClientOK
<1>2. ParserOK'
  BY DEF IInv, ParserOK, ClientOK
<1>3. HaltInv'
  BY DEF IInv, HaltInv, CallerOK
<1>4. LineInv'
  BY DEF IInv, LineInv, ModuleOK, ParserOK, OfCommand
<1>5. RespBelongsToHolder'
  BY DEF IInv, RespBelongsToHolder, ClientOK, CallerOK, HeapOK, HaltInv, LockInv, CallInv
<1>6. CallerOK' /\ HeapOK' /\ ModuleOK' /\ HistoryOK' /\ LockInv' /\ CallInv'
  BY DEF IInv, CallerOK, HeapOK, ModuleOK, HistoryOK, LockInv, CallInv
<1> QED BY <1>1, <1>2, <1>3, <1>4, <1>5, <1>6 DEF IInv

LEMMA NotifyStep == ASSUME IInv, Notify PROVE IInv'
<1> USE DEF Notify, NextLine, NoLine, Line
<1>1. ClientOK'
  BY DEF IInv, ClientOK
<1>2. ParserOK'
  BY DEF IInv, ParserOK, ClientOK
<1>3. HaltInv'
  BY DEF IInv, HaltInv, CallerOK
<1>4. LineInv'
  BY DEF IInv, LineInv, ModuleOK, ParserOK, OfCommand
<1>5. RespBelongsToHolder'
  BY DEF IInv, RespBelongsToHolder, ClientOK, CallerOK, HeapOK, HaltInv, LockInv, CallInv
<1>6. CallerOK' /\ HeapOK' /\ ModuleOK' /\ HistoryOK' /\ LockInv' /\ CallInv'
  BY DEF IInv, CallerOK, HeapOK, ModuleOK, HistoryOK, LockInv, CallInv
<1> QED BY <1>1, <1>2, <1>3, <1>4, <1>5, <1>6 DEF IInv

LEMMA SendDataStep == ASSUME IInv, SendData PROVE IInv'
<1> DEFINE l == [cmd |-> Head(inbox), kind |-> "DATA"]
<1> USE DEF SendData
<1>1. l \in Line /\ OfCommand(l) /\ Emit(l)
  BY QueueFacts DEF IInv, ModuleOK, OfCommand, Line
<1> HIDE DEF l
<1>2. wire' \in Seq(Line) /\ upset' \subseteq {"timeout", "no_memory", "lost_line"} /\ LineInv'
  BY <1>1, EmitFacts DEF IInv
<1>3. ModuleOK'
  BY <1>2, QueueFacts DEF IInv, ModuleOK
<1>4. HistoryOK'
  BY <1>2, QueueFacts DEF IInv, ModuleOK, HistoryOK
<1>5. ClientOK' /\ CallerOK' /\ HeapOK' /\ ParserOK'
  BY DEF IInv, ClientOK, CallerOK, HeapOK, ParserOK
<1>6. HaltInv' /\ LockInv' /\ CallInv' /\ RespBelongsToHolder'
  BY DEF IInv, HaltInv, LockInv, CallInv, RespBelongsToHolder
<1> QED BY <1>2, <1>3, <1>4, <1>5, <1>6 DEF IInv

LEMMA SendFinalStep == ASSUME IInv, SendFinal PROVE IInv'
<1> USE DEF SendFinal
<1>1. PICK k \in {"OK", "ERROR"} :
         /\ Emit([cmd |-> Head(inbox), kind |-> k])
         /\ verdict' = [verdict EXCEPT ![Head(inbox)] = k]
  OBVIOUS
<1> DEFINE l == [cmd |-> Head(inbox), kind |-> k]
<1>0. l \in Line /\ OfCommand(l) /\ Emit(l)
  BY <1>1, QueueFacts DEF IInv, ModuleOK, OfCommand, Line
<1> HIDE DEF l
<1>2. wire' \in Seq(Line) /\ upset' \subseteq {"timeout", "no_memory", "lost_line"} /\ LineInv'
  BY <1>0, EmitFacts DEF IInv
<1>3. ModuleOK'
  BY <1>2, QueueFacts DEF IInv, ModuleOK
<1>4. HistoryOK'
  BY <1>1, <1>2, QueueFacts DEF IInv, ModuleOK, HistoryOK
<1>5. ClientOK' /\ CallerOK' /\ HeapOK' /\ ParserOK'
  BY DEF IInv, ClientOK, CallerOK, HeapOK, ParserOK
<1>6. HaltInv' /\ LockInv' /\ CallInv' /\ RespBelongsToHolder'
  BY DEF IInv, HaltInv, LockInv, CallInv, RespBelongsToHolder
<1> QED BY <1>2, <1>3, <1>4, <1>5, <1>6 DEF IInv

LEMMA IgnoreStep == ASSUME IInv, Ignore PROVE IInv'
<1> USE DEF Ignore
<1>1. ModuleOK'
  BY QueueFacts DEF IInv, ModuleOK
<1>2. ClientOK' /\ CallerOK' /\ HeapOK' /\ ParserOK' /\ HistoryOK'
  BY DEF IInv, ClientOK, CallerOK, HeapOK, ParserOK, HistoryOK
<1>3. HaltInv' /\ LockInv' /\ CallInv' /\ LineInv' /\ RespBelongsToHolder'
  BY DEF IInv, HaltInv, LockInv, CallInv, LineInv, OfCommand, RespBelongsToHolder
<1> QED BY <1>1, <1>2, <1>3 DEF IInv

LEMMA SendURCStep == ASSUME IInv, SendURC PROVE IInv'
<1> DEFINE l == [cmd |-> NULL, kind |-> "URC"]
<1> USE DEF SendURC
<1>1. l \in Line /\ OfCommand(l) /\ Emit(l)
  BY DEF OfCommand, Line
<1> HIDE DEF l
<1>2. wire' \in Seq(Line) /\ upset' \subseteq {"timeout", "no_memory", "lost_line"} /\ LineInv'
  BY <1>1, EmitFacts DEF IInv
<1>3. ModuleOK' /\ HistoryOK'
  BY <1>2 DEF IInv, ModuleOK, HistoryOK
<1>4. ClientOK' /\ CallerOK' /\ HeapOK' /\ ParserOK'
  BY DEF IInv, ClientOK, CallerOK, HeapOK, ParserOK
<1>5. HaltInv' /\ LockInv' /\ CallInv' /\ RespBelongsToHolder'
  BY DEF IInv, HaltInv, LockInv, CallInv, RespBelongsToHolder
<1> QED BY <1>2, <1>3, <1>4, <1>5 DEF IInv
-----------------------------------------------------------------------------
LEMMA StepIInv == IInv /\ [Next]_vars => IInv'
<1> SUFFICES ASSUME IInv, [Next]_vars PROVE IInv'
  OBVIOUS
<1>1. CASE UNCHANGED vars
  <2>1. ClientOK' /\ CallerOK' /\ HeapOK' /\ ParserOK' /\ ModuleOK' /\ HistoryOK'
    BY <1>1 DEF vars, IInv, ClientOK, CallerOK, HeapOK, ParserOK, ModuleOK, HistoryOK
  <2>2. HaltInv' /\ LockInv' /\ CallInv'
    BY <1>1 DEF vars, IInv, HaltInv, LockInv, CallInv
  <2>3. LineInv' /\ RespBelongsToHolder'
    BY <1>1 DEF vars, IInv, LineInv, OfCommand, RespBelongsToHolder
  <2> QED BY <2>1, <2>2, <2>3 DEF IInv
<1>2. CASE \E t \in Caller : Call(t) \/ Expire(t) \/ Exec(t)
  BY <1>2, CallStep, LockStep, PrepareStep, SetRespStep, SendStep, ExpireStep,
     PollStep, CheckTimerStep, ClearRespStep,
     ClearNoticeStep, UnlockStep, DeleteStep DEF Exec
<1>3. CASE Parse
  BY <1>3, ReadLineStep, CheckRespStep, LoadRespStep, FitLineStep, CopyLineStep,
     JudgeLineStep, PublishCountsStep, ParserClearRespStep, NotifyStep DEF Parse
<1>4. CASE Module
  BY <1>4, SendDataStep, SendFinalStep, IgnoreStep, SendURCStep DEF Module
<1> QED BY <1>1, <1>2, <1>3, <1>4 DEF Next, Exec

(* The inductive invariant holds in every reachable state.                 *)
THEOREM Invariance == Spec => []IInv
BY InitIInv, StepIInv, PTL DEF Spec

(* Type correctness of struct at_client, of the callers' locals and of the *)
(* parser's.                                                               *)
THEOREM TypeCorrect == Spec => []TypeOK
<1>1. IInv => TypeOK
  BY DEF IInv, ClientOK, CallerOK, HeapOK, ParserOK, ModuleOK, HistoryOK, TypeOK
<1> QED BY <1>1, Invariance, PTL

(* Whatever the parser, the timers, the module and the other tasks do,     *)
(* client->resp points to nothing but the live response of the holder of   *)
(* the lock, while that command waits for its answer.                      *)
THEOREM RespNeverDangles == Spec => []RespBelongsToHolder
<1>1. IInv => RespBelongsToHolder
  BY DEF IInv
<1> QED BY <1>1, Invariance, PTL

(* No two tasks are between HAL_MutexLock and HAL_MutexUnlock of           *)
(* at_obj_exec_cmd: one command at a time is on its way to the module.     *)
Exclusion == \A s, t \in Caller : pc[s] \in Locked /\ pc[t] \in Locked => s = t

(* The lock does what at_obj_exec_cmd takes it for.                        *)
THEOREM OneCommandAtATime == Spec => []Exclusion
<1>1. IInv => Exclusion
  BY DEF IInv, LockInv, Exclusion
<1> QED BY <1>1, Invariance, PTL
-----------------------------------------------------------------------------
(* Lines under way: no last line yet; URCs only; the last line k and then  *)
(* only URCs; no lines but those of one command.                           *)
NoFinal(w) == \A i \in DOMAIN w : w[i].kind \in {"DATA", "URC"}
Quiet(w) == \A i \in DOMAIN w : w[i].kind = "URC"
Ends(w, k) == \E i \in DOMAIN w :
                /\ w[i].kind = k
                /\ \A j \in DOMAIN w : /\ j < i => w[j].kind \in {"DATA", "URC"}
                                       /\ j > i => w[j].kind = "URC"

LinesOf(w, c) == \A i \in DOMAIN w : w[i].kind # "URC" => w[i].cmd = c

(* The parser is at rest: nothing is asked and nothing is left of an       *)
(* answer.                                                                 *)
Still == /\ inbox = <<>>
         /\ ppc = "read"
         /\ resp_buf_len = 0
         /\ counts = 0
         /\ Quiet(wire)
Clean == Still /\ ~resp_notice
Fresh(c) == verdict[c] = "none" /\ buf[c] = <<>>

(* Where the parser still has to see the end of the answer.                *)
Reading == {"read", "check", "load_size", "size", "load_copy", "copy", "judge", "load_end",
            "end", "load_count", "count", "load_num", "num"}
HasLine == Reading \ {"read"}

(* The last line of the answer is to come, is on the wire, or is in the    *)
(* parser's hand.                                                          *)
Coming(c) == /\ verdict[c] = "none"
             /\ ppc \in Reading
             /\ NoFinal(wire)
             /\ ppc # "read" => line.kind = "DATA"
OnWire(c) == /\ verdict[c] # "none"
             /\ inbox = <<>>
             /\ ppc \in Reading
             /\ Ends(wire, verdict[c])
             /\ ppc # "read" => line.kind = "DATA"
InHand(c) == /\ verdict[c] # "none"
             /\ inbox = <<>>
             /\ Quiet(wire)
             /\ ppc # "read"
             /\ IF ppc \in HasLine THEN line.kind = verdict[c]
                                   ELSE resp_status = verdict[c]

(* The module and the parser are at work on the answer to c, and on        *)
(* nothing else.                                                           *)
Answering(c) ==
  /\ inbox = <<>> \/ inbox = <<c>>
  /\ LinesOf(wire, c)
  /\ ppc # "read" => line.cmd = c
  /\ ppc \in {"size", "copy", "end", "count", "num", "finish"} => held = c
  /\ ppc \in {"load_end", "end"} => line.kind = "OK"
  /\ ppc \in {"load_count", "count", "load_num", "num"} => line.kind = "DATA"
  /\ resp = IF ppc = "notify" THEN NULL ELSE c
  /\ resp_buf_len = Len(buf[c]) /\ counts = Len(buf[c])
  /\ \A i \in DOMAIN buf[c] : buf[c][i] = c
  /\ ppc \in {"clear", "notify"} => line_counts[c] = Len(buf[c])
  /\ Coming(c) \/ OnWire(c) \/ InHand(c)

(* The answer to c is complete and the caller has been told.               *)
Answered(c) == /\ Still
               /\ resp_notice
               /\ resp = NULL
               /\ verdict[c] # "none"
               /\ resp_status = verdict[c]
               /\ OwnLines(c)

Returns(t) == /\ result[t] \in {"success", "failure"}
              /\ ResultIsAnswer(t)
              /\ OwnLines(cmd[t])

(* What a call has achieved at each of its statements.                     *)
CalmCall(t) ==
  /\ ~expired[t]
  /\ pc[t] # "idle" => arg[t] = cmd[t]
  /\ pc[t] \in {"lock", "prep", "set_resp", "send"} => Fresh(cmd[t])
  /\ pc[t] \in {"prep", "set_resp", "send", "unlock"} => Clean
  /\ pc[t] = "send" => resp = cmd[t]
  /\ pc[t] = "wait" => (Answering(cmd[t]) /\ ~resp_notice) \/ Answered(cmd[t])
  /\ pc[t] \in {"seen", "check", "clear_resp", "clear_notice"} => Answered(cmd[t])
  /\ pc[t] = "check" => resp_status = "OK"
  /\ pc[t] \in {"clear_resp", "clear_notice", "unlock", "delete"} => Returns(t)

(* CalmResultIsAnswer and CalmResponseIsOwn, made inductive.               *)
CalmInv == Calm => /\ ~wild
                   /\ ~halted
                   /\ \A c \in Command : c > used => Fresh(c)
                   /\ lock = NoCaller => Clean
                   /\ \A t \in Caller : CalmCall(t)
-----------------------------------------------------------------------------
LEMMA WireTail ==
  ASSUME NEW w \in Seq(Line), w # <<>>
  PROVE  /\ Quiet(w) => Quiet(Tail(w)) /\ Head(w).kind = "URC"
         /\ NoFinal(w) => NoFinal(Tail(w)) /\ Head(w).kind \in {"DATA", "URC"}
         /\ \A k \in {"OK", "ERROR"} :
              Ends(w, k) => \/ Head(w).kind \in {"DATA", "URC"} /\ Ends(Tail(w), k)
                            \/ Head(w).kind = k /\ Quiet(Tail(w))
         /\ \A c : LinesOf(w, c) => /\ LinesOf(Tail(w), c)
                                    /\ Head(w).kind # "URC" => Head(w).cmd = c
<1>1. /\ Len(w) \in Nat \ {0} /\ Head(w) = w[1]
      /\ Tail(w) \in Seq(Line) /\ Len(Tail(w)) = Len(w) - 1
      /\ \A i \in DOMAIN Tail(w) : Tail(w)[i] = w[i + 1] /\ i + 1 \in DOMAIN w
      /\ DOMAIN w = 1 .. Len(w) /\ DOMAIN Tail(w) = 1 .. (Len(w) - 1)
  OBVIOUS
<1>2. Quiet(w) => Quiet(Tail(w)) /\ Head(w).kind = "URC"
  BY <1>1 DEF Quiet
<1>3. NoFinal(w) => NoFinal(Tail(w)) /\ Head(w).kind \in {"DATA", "URC"}
  BY <1>1 DEF NoFinal
<1>4. \A c : LinesOf(w, c) => /\ LinesOf(Tail(w), c)
                              /\ Head(w).kind # "URC" => Head(w).cmd = c
  BY <1>1 DEF LinesOf
<1>5. ASSUME NEW k \in {"OK", "ERROR"}, Ends(w, k)
      PROVE  \/ Head(w).kind \in {"DATA", "URC"} /\ Ends(Tail(w), k)
             \/ Head(w).kind = k /\ Quiet(Tail(w))
  <2>1. PICK i \in DOMAIN w :
              /\ w[i].kind = k
              /\ \A j \in DOMAIN w : /\ j < i => w[j].kind \in {"DATA", "URC"}
                                     /\ j > i => w[j].kind = "URC"
    BY <1>5 DEF Ends
  <2>2. CASE i = 1
    BY <1>1, <2>1, <2>2 DEF Quiet
  <2>3. CASE i # 1
    <3>1. i - 1 \in DOMAIN Tail(w) /\ Tail(w)[i - 1] = w[i] /\ w[1].kind \in {"DATA", "URC"}
      BY <1>1, <2>1, <2>3
    <3>2. \A j \in DOMAIN Tail(w) : /\ j < i - 1 => Tail(w)[j].kind \in {"DATA", "URC"}
                                    /\ j > i - 1 => Tail(w)[j].kind = "URC"
      BY <1>1, <2>1, <2>3
    <3> QED BY <1>1, <2>1, <3>1, <3>2 DEF Ends
  <2> QED BY <2>2, <2>3
<1> QED BY <1>2, <1>3, <1>4, <1>5

LEMMA WireAppend ==
  ASSUME NEW w \in Seq(Line), NEW l \in Line
  PROVE  /\ Quiet(w) /\ l.kind = "URC" => Quiet(Append(w, l))
         /\ NoFinal(w) /\ l.kind \in {"DATA", "URC"} => NoFinal(Append(w, l))
         /\ \A k \in {"OK", "ERROR"} :
              /\ NoFinal(w) /\ l.kind = k => Ends(Append(w, l), k)
              /\ Ends(w, k) /\ l.kind = "URC" => Ends(Append(w, l), k)
         /\ \A c : LinesOf(w, c) /\ (l.kind = "URC" \/ l.cmd = c) => LinesOf(Append(w, l), c)
<1> DEFINE v == Append(w, l)
<1>1. /\ Len(w) \in Nat /\ DOMAIN w = 1 .. Len(w) /\ DOMAIN v = 1 .. (Len(w) + 1)
      /\ \A i \in DOMAIN w : v[i] = w[i]
      /\ v[Len(w) + 1] = l
  OBVIOUS
<1>2. \A i \in DOMAIN v : i \in DOMAIN w \/ i = Len(w) + 1
  BY <1>1
<1> HIDE DEF v
<1>3. Quiet(w) /\ l.kind = "URC" => Quiet(v)
  BY <1>1, <1>2 DEF Quiet
<1>4. NoFinal(w) /\ l.kind \in {"DATA", "URC"} => NoFinal(v)
  BY <1>1, <1>2 DEF NoFinal
<1>5. ASSUME NEW k \in {"OK", "ERROR"}, NoFinal(w), l.kind = k PROVE Ends(v, k)
  <2>1. Len(w) + 1 \in DOMAIN v /\ v[Len(w) + 1].kind = k
    BY <1>1, <1>5
  <2>2. \A j \in DOMAIN v : /\ j < Len(w) + 1 => v[j].kind \in {"DATA", "URC"}
                            /\ ~(j > Len(w) + 1)
    BY <1>1, <1>2, <1>5 DEF NoFinal
  <2> QED BY <2>1, <2>2 DEF Ends
<1>6. ASSUME NEW k \in {"OK", "ERROR"}, Ends(w, k), l.kind = "URC" PROVE Ends(v, k)
  <2>1. PICK i \in DOMAIN w :
              /\ w[i].kind = k
              /\ \A j \in DOMAIN w : /\ j < i => w[j].kind \in {"DATA", "URC"}
                                     /\ j > i => w[j].kind = "URC"
    BY <1>6 DEF Ends
  <2>2. i \in DOMAIN v /\ v[i].kind = k
    BY <1>1, <2>1
  <2>3. \A j \in DOMAIN v : /\ j < i => v[j].kind \in {"DATA", "URC"}
                            /\ j > i => v[j].kind = "URC"
    BY <1>1, <1>2, <1>6, <2>1
  <2> QED BY <2>2, <2>3 DEF Ends
<1>7. \A c : LinesOf(w, c) /\ (l.kind = "URC" \/ l.cmd = c) => LinesOf(v, c)
  BY <1>1, <1>2 DEF LinesOf
<1> QED BY <1>3, <1>4, <1>5, <1>6, <1>7 DEF v

(* What a calm state says of the callers.                                  *)
LEMMA CalmFacts ==
  ASSUME IInv, CalmInv, Calm
  PROVE  /\ \A t \in Caller :
              /\ pc[t] # "halted"
              /\ CalmCall(t)
              /\ pc[t] # "idle" => cmd[t] \in Command /\ cmd[t] \in live /\ arg[t] = cmd[t]
              /\ pc[t] \in Locked => lock = t
         /\ \A s, t \in Caller : s # t /\ pc[t] # "idle" => cmd[s] # cmd[t]
         /\ lock # NoCaller => lock \in Caller /\ pc[lock] \in Locked
         /\ lock = NoCaller => Clean
         /\ \A c \in Command : c > used => Fresh(c)
         /\ ~wild /\ ppc # "halted"
<1>1. /\ ~wild /\ ppc # "halted"
      /\ \A c \in Command : c > used => Fresh(c)
      /\ lock = NoCaller => Clean
      /\ \A t \in Caller : CalmCall(t)
  BY DEF CalmInv
<1>2. \A t \in Caller : pc[t] # "halted"
  BY <1>1 DEF IInv, HaltInv
<1>3. \A t \in Caller :
        pc[t] # "idle" => cmd[t] \in Command /\ cmd[t] \in live /\ arg[t] = cmd[t]
  BY <1>1, <1>2 DEF IInv, CallInv, CallerOK, CalmCall
<1>4. \A s, t \in Caller : s # t /\ pc[t] # "idle" => cmd[s] # cmd[t]
  BY <1>2, <1>3 DEF IInv, CallInv
<1>5. /\ \A t \in Caller : pc[t] \in Locked => lock = t
      /\ lock # NoCaller => lock \in Caller /\ pc[lock] \in Locked
  BY <1>2 DEF IInv, LockInv, ClientOK
<1> QED BY <1>1, <1>2, <1>3, <1>4, <1>5

(* The parser is either at rest or at work on the answer to the one        *)
(* command that waits.                                                     *)
Waits(t) == pc[t] = "wait" /\ ~resp_notice /\ Answering(cmd[t])

LEMMA Phases ==
  ASSUME IInv, CalmInv, Calm
  PROVE  \/ Still /\ \A t \in Caller : ~Waits(t)
         \/ \E t \in Caller : Waits(t)
<1>1. ASSUME NEW t \in Caller, pc[t] \in Locked PROVE Waits(t) \/ Still
  <2>1. CalmCall(t)
    BY CalmFacts
  <2> QED BY <1>1, <2>1 DEF CalmCall, Clean, Answered, Waits
<1>2. lock = NoCaller => Still
  BY CalmFacts DEF Clean
<1> QED BY <1>1, <1>2, CalmFacts

(* A step that does not disturb a task which is not between lock and       *)
(* unlock, nor its command.                                                *)
LEMMA Bystander ==
  ASSUME NEW s \in Caller, CalmCall(s), pc[s] \notin Locked,
         pc'[s] = pc[s], cmd'[s] = cmd[s], arg'[s] = arg[s], result'[s] = result[s],
         expired'[s] = expired[s],
         pc[s] # "idle" => /\ verdict'[cmd[s]] = verdict[cmd[s]]
                           /\ buf'[cmd[s]] = buf[cmd[s]]
                           /\ line_counts'[cmd[s]] = line_counts[cmd[s]]
  PROVE  CalmCall(s)'
BY DEF CalmCall, Fresh, Returns, ResultIsAnswer, OwnLines

(* The parser or the module moves while the parser is at rest.             *)
LEMMA StillFrame ==
  ASSUME IInv, CalmInv, Calm, Still', \A t \in Caller : ~Waits(t),
         UNCHANGED <<client, caller, heap, parser, inbox, verdict, used, upset, wild>>
  PROVE  CalmInv'
<1>1. ASSUME NEW t \in Caller PROVE CalmCall(t)'
  <2>1. CalmCall(t)
    BY CalmFacts
  <2>2. pc[t] = "wait" => Answered(cmd[t])
    BY <2>1 DEF CalmCall, Waits
  <2> QED BY <2>1, <2>2 DEF CalmCall, Clean, Fresh, Answered, OwnLines, Returns, ResultIsAnswer
<1>2. /\ ~wild' /\ ppc' # "halted"
      /\ \A c \in Command : c > used' => Fresh(c)'
      /\ lock' = NoCaller => Clean'
  BY CalmFacts DEF Fresh, Clean
<1> QED BY <1>1, <1>2 DEF CalmInv

(* The parser or the module moves while a command waits for its answer.    *)
LEMMA AnswerFrame ==
  ASSUME IInv, CalmInv, Calm, NEW t \in Caller, pc[t] = "wait",
         UNCHANGED <<lock, caller, live, used, upset>>, wild' = wild \/ ~wild',
         \A c \in Command : c # cmd[t] => /\ verdict'[c] = verdict[c]
                                          /\ buf'[c] = buf[c]
                                          /\ line_counts'[c] = line_counts[c],
         ppc' # "halted",
         (Answering(cmd[t])' /\ ~resp_notice') \/ Answered(cmd[t])'
  PROVE  CalmInv'
<1>1. cmd[t] \in Command /\ lock = t /\ lock # NoCaller
  BY CalmFacts
<1>2. ASSUME NEW s \in Caller PROVE CalmCall(s)'
  <2>1. CalmCall(s)
    BY CalmFacts
  <2>2. CASE s = t
    BY <2>1, <2>2 DEF CalmCall
  <2>3. CASE s # t
    <3>1. pc[s] \notin Locked
      BY <1>1, <2>3, CalmFacts
    <3>2. pc[s] # "idle" => cmd[s] \in Command /\ cmd[s] # cmd[t]
      BY <2>3, CalmFacts
    <3> QED BY <2>1, <3>1, <3>2, Bystander
  <2> QED BY <2>2, <2>3
<1>3. \A c \in Command : c > used' => Fresh(c)'
  <2>1. cmd[t] <= used
    BY DEF IInv, CallInv
  <2>2. ASSUME NEW c \in Command, c > used PROVE Fresh(c)'
    <3>1. c # cmd[t] /\ Fresh(c)
      BY <1>1, <2>1, <2>2, CalmFacts DEF IInv, HistoryOK
    <3> QED BY <3>1 DEF Fresh
  <2> QED BY <2>2
<1> QED BY <1>1, <1>2, <1>3, CalmFacts DEF CalmInv

(* One line of the module.                                                 *)
LEMMA WireFacts ==
  ASSUME IInv
  PROVE  wire \in Seq(Line) /\ \A l \in Line : l.kind \in {"DATA", "OK", "ERROR", "URC"}
BY DEF IInv, ModuleOK, Line

LEMMA ReadLineCalm == ASSUME IInv, CalmInv, Calm, ReadLine PROVE CalmInv'
<1> USE DEF ReadLine
<1>1. wire \in Seq(Line) /\ wire # <<>> /\ Head(wire) \in Line
  BY WireFacts, QueueFacts
<1>2. Head(wire).kind \in {"DATA", "OK", "ERROR", "URC"}
  BY <1>1, WireFacts
<1>3. CASE Still /\ \A t \in Caller : ~Waits(t)
  <2>1. Quiet(Tail(wire)) /\ Head(wire).kind = "URC"
    BY <1>1, <1>3, WireTail DEF Still
  <2>2. Still'
    BY <1>3, <2>1 DEF Still
  <2> QED BY <1>3, <2>1, <2>2, StillFrame
<1>4. CASE \E t \in Caller : Waits(t)
  <2>1. PICK t \in Caller : Waits(t)
    BY <1>4
  <2> DEFINE c == cmd[t]
  <2>2. c \in Command /\ Answering(c) /\ ~resp_notice /\ pc[t] = "wait"
    BY <2>1, CalmFacts DEF Waits
  <2>3. verdict[c] \in {"none", "OK", "ERROR"}
    BY <2>2 DEF IInv, HistoryOK
  <2>4. LinesOf(Tail(wire), c) /\ (Head(wire).kind # "URC" => Head(wire).cmd = c)
    BY <1>1, <2>2, WireTail DEF Answering
  <2>5. Coming(c)' \/ OnWire(c)' \/ InHand(c)'
    <3>1. CASE Coming(c)
      <4>1. NoFinal(Tail(wire)) /\ Head(wire).kind \in {"DATA", "URC"}
        BY <1>1, <3>1, WireTail DEF Coming
      <4> QED BY <3>1, <4>1 DEF Coming, Reading
    <3>2. CASE OnWire(c)
      <4>1. verdict[c] \in {"OK", "ERROR"} /\ Ends(wire, verdict[c])
        BY <2>3, <3>2 DEF OnWire
      <4>2. \/ Head(wire).kind \in {"DATA", "URC"} /\ Ends(Tail(wire), verdict[c])
            \/ Head(wire).kind = verdict[c] /\ Quiet(Tail(wire))
        BY <1>1, <4>1, WireTail
      <4>3. CASE Head(wire).kind \in {"DATA", "URC"} /\ Ends(Tail(wire), verdict[c])
        BY <3>2, <4>3 DEF OnWire, Reading
      <4>4. CASE Head(wire).kind = verdict[c] /\ Quiet(Tail(wire))
        BY <3>2, <4>1, <4>4 DEF OnWire, InHand, Reading, HasLine
      <4> QED BY <4>2, <4>3, <4>4
    <3>3. CASE InHand(c)
      BY <3>3 DEF InHand
    <3> QED BY <2>2, <3>1, <3>2, <3>3 DEF Answering
  <2>6. Answering(c)'
    BY <2>2, <2>4, <2>5 DEF Answering
  <2>7. ppc' # "halted"
    OBVIOUS
  <2> HIDE DEF ReadLine
  <2>8. Answering(cmd[t])' /\ ~resp_notice'
    BY <2>2, <2>6 DEF ReadLine
  <2> QED BY <2>2, <2>7, <2>8, AnswerFrame DEF ReadLine
<1> QED BY <1>3, <1>4, Phases

(* The other steps of the parser are steps with the answer to the command  *)
(* that waits.                                                             *)
LEMMA ParserBusy ==
  ASSUME IInv, CalmInv, Calm, ppc # "read"
  PROVE  \E t \in Caller : /\ pc[t] = "wait" /\ ~resp_notice /\ Answering(cmd[t])
                           /\ cmd[t] \in Command /\ cmd[t] \in live
BY Phases, CalmFacts DEF Waits, Still

LEMMA CheckRespCalm == ASSUME IInv, CalmInv, Calm, CheckResp PROVE CalmInv'
<1> USE DEF CheckResp
<1>1. PICK t \in Caller : /\ pc[t] = "wait" /\ ~resp_notice /\ Answering(cmd[t])
                          /\ cmd[t] \in Command /\ cmd[t] \in live
  BY ParserBusy
<1>2. resp # NULL /\ ppc' = "load_size" /\ line' = line /\ held' = held
  BY <1>1 DEF Answering
<1>3. Answering(cmd[t])'
  BY <1>1, <1>2 DEF Answering, Coming, OnWire, InHand, Reading, HasLine
<1> QED BY <1>1, <1>2, <1>3, AnswerFrame

LEMMA LoadRespCalm == ASSUME IInv, CalmInv, Calm, LoadResp PROVE CalmInv'
<1> USE DEF LoadResp, Load
<1>1. PICK t \in Caller : /\ pc[t] = "wait" /\ ~resp_notice /\ Answering(cmd[t])
                          /\ cmd[t] \in Command /\ cmd[t] \in live
  BY ParserBusy
<1>2. Answering(cmd[t])'
  BY <1>1 DEF Answering, Coming, OnWire, InHand, Reading, HasLine
<1>3. ppc' # "halted"
  OBVIOUS
<1> QED BY <1>1, <1>2, <1>3, AnswerFrame

LEMMA FitLineCalm == ASSUME IInv, CalmInv, Calm, FitLine PROVE CalmInv'
<1> USE DEF FitLine, Dereference
<1>1. PICK t \in Caller : /\ pc[t] = "wait" /\ ~resp_notice /\ Answering(cmd[t])
                          /\ cmd[t] \in Command /\ cmd[t] \in live
  BY ParserBusy
<1>2. held \in live /\ ~wild
  BY <1>1, CalmFacts DEF Answering
<1>3. ~wild'
  BY <1>2
<1>4. Answering(cmd[t])'
  BY <1>1 DEF Answering, Coming, OnWire, InHand, Reading, HasLine
<1> QED BY <1>1, <1>3, <1>4, AnswerFrame

LEMMA CopyLineCalm == ASSUME IInv, CalmInv, Calm, CopyLine PROVE CalmInv'
<1> USE DEF CopyLine, Dereference
<1>1. PICK t \in Caller : /\ pc[t] = "wait" /\ ~resp_notice /\ Answering(cmd[t])
                          /\ cmd[t] \in Command /\ cmd[t] \in live
  BY ParserBusy
<1> DEFINE c == cmd[t]
<1>2. held = c /\ held \in live /\ line.cmd = c /\ ~wild
  BY <1>1, CalmFacts DEF Answering
<1>3. ~wild'
  BY <1>2
<1>4. buf \in [Command -> Seq(Command)] /\ c \in Command
  BY <1>1 DEF IInv, HeapOK
<1>5. buf' = [buf EXCEPT ![c] = Append(@, c)]
  BY <1>2
<1>6. buf'[c] = Append(buf[c], c) /\ \A d \in Command : d # c => buf'[d] = buf[d]
  BY <1>4, <1>5
<1>7. /\ Len(buf'[c]) = Len(buf[c]) + 1
      /\ (\A i \in DOMAIN buf[c] : buf[c][i] = c) => \A i \in DOMAIN buf'[c] : buf'[c][i] = c
  BY <1>4, <1>6
<1>8. Answering(c)'
  BY <1>1, <1>2, <1>7 DEF Answering, Coming, OnWire, InHand, Reading, HasLine
<1> QED BY <1>1, <1>3, <1>6, <1>8, AnswerFrame

LEMMA JudgeLineCalm == ASSUME IInv, CalmInv, Calm, JudgeLine PROVE CalmInv'
<1> USE DEF NextLine, NoLine
<1>1. PICK t \in Caller : /\ pc[t] = "wait" /\ ~resp_notice /\ Answering(cmd[t])
                          /\ cmd[t] \in Command /\ cmd[t] \in live
  BY ParserBusy, Judgement
<1> DEFINE c == cmd[t]
<1>2. /\ UNCHANGED <<lock, resp, resp_notice, caller, heap, resp_buf_len, counts, module,
                     verdict, used, upset>>
      /\ ppc \in {"judge", "end", "count", "num"}
      /\ line.kind \in {"DATA", "OK", "ERROR"}
  BY Judgement
<1>3. ~wild /\ (ppc # "judge" => held \in live)
  BY <1>1, <1>2, CalmFacts DEF Answering
<1>4. ~wild'
  BY <1>3 DEF JudgeLine, JudgeText, JudgeEnd, JudgeCount, JudgeNum, Dereference
<1>5. \/ line.kind = "DATA" /\ Continue
      \/ line.kind \in {"OK", "ERROR"} /\ Complete(line.kind)
      \/ line.kind = "OK" /\ Proceed("load_end")
      \/ line.kind = "DATA" /\ \E to \in {"load_count", "load_num"} : Proceed(to)
  <2>1. ASSUME JudgeText
        PROVE  \/ line.kind = "ERROR" /\ Complete("ERROR")
               \/ line.kind = "OK" /\ Proceed("load_end")
               \/ line.kind = "DATA" /\ Proceed("load_count")
    BY <1>2, <2>1 DEF JudgeText
  <2>2. ASSUME JudgeEnd PROVE line.kind = "OK" /\ Complete("OK")
    BY <1>1, <1>3, <2>2 DEF JudgeEnd, Answering
  <2>3. ASSUME JudgeCount PROVE line.kind = "DATA" /\ (Proceed("load_num") \/ Continue)
    BY <1>1, <2>3 DEF JudgeCount, Answering
  <2>4. ASSUME JudgeNum PROVE line.kind = "DATA" /\ Continue
    BY <1>1, <1>3, <2>4 DEF JudgeNum, Answering
  <2> QED BY <2>1, <2>2, <2>3, <2>4 DEF JudgeLine
<1>6. CASE line.kind = "DATA" /\ Continue
  <2>1. ppc' = "read" /\ ~InHand(c)
    BY <1>1, <1>2, <1>6 DEF Continue, InHand, HasLine, Reading, IInv, HistoryOK
  <2>2. Answering(c)'
    BY <1>1, <1>2, <1>6, <2>1 DEF Continue, Answering, Coming, OnWire, Reading
  <2> QED BY <1>1, <1>2, <1>4, <2>1, <2>2, AnswerFrame
<1>7. CASE line.kind \in {"OK", "ERROR"} /\ Complete(line.kind)
  <2>1. InHand(c) /\ line.kind = verdict[c]
    BY <1>1, <1>2, <1>7 DEF Answering, Coming, OnWire, InHand, HasLine, Reading
  <2>2. ppc' = "load_finish" /\ InHand(c)'
    BY <1>2, <1>7, <2>1 DEF Complete, InHand, HasLine, Reading
  <2>3. Answering(c)'
    BY <1>1, <1>2, <1>7, <2>2 DEF Answering, Complete
  <2> QED BY <1>1, <1>2, <1>4, <2>2, <2>3, AnswerFrame
<1>8. CASE line.kind = "OK" /\ Proceed("load_end")
  <2>1. Answering(c)'
    BY <1>1, <1>2, <1>8 DEF Proceed, Answering, Coming, OnWire, InHand, Reading, HasLine
  <2> QED BY <1>1, <1>2, <1>4, <1>8, <2>1, AnswerFrame DEF Proceed
<1>9. CASE line.kind = "DATA" /\ \E to \in {"load_count", "load_num"} : Proceed(to)
  <2>1. Answering(c)' /\ ppc' # "halted"
    BY <1>1, <1>2, <1>9 DEF Proceed, Answering, Coming, OnWire, InHand, Reading, HasLine
  <2> QED BY <1>1, <1>2, <1>4, <2>1, AnswerFrame
<1> QED BY <1>5, <1>6, <1>7, <1>8, <1>9

LEMMA PublishCountsCalm == ASSUME IInv, CalmInv, Calm, PublishCounts PROVE CalmInv'
<1> USE DEF PublishCounts, Dereference
<1>1. PICK t \in Caller : /\ pc[t] = "wait" /\ ~resp_notice /\ Answering(cmd[t])
                          /\ cmd[t] \in Command /\ cmd[t] \in live
  BY ParserBusy
<1> DEFINE c == cmd[t]
<1>2. held = c /\ held \in live /\ held # NULL /\ ~wild'
  <2>1. held = c /\ held \in live /\ held # NULL /\ ~wild
    BY <1>1, CalmFacts DEF Answering
  <2> QED BY <2>1
<1>3. /\ ppc' = "clear" /\ pc' = pc
      /\ line_counts' = [line_counts EXCEPT ![c] = counts]
  BY <1>2
<1>4. /\ line_counts'[c] = counts
      /\ \A d \in Command : d # c => line_counts'[d] = line_counts[d]
  BY <1>1, <1>3 DEF IInv, HeapOK
<1>5. Answering(c)'
  BY <1>1, <1>3, <1>4 DEF Answering, Coming, OnWire, InHand, Reading, HasLine
<1> QED BY <1>1, <1>2, <1>3, <1>4, <1>5, AnswerFrame

LEMMA ParserClearRespCalm == ASSUME IInv, CalmInv, Calm, ParserClearResp PROVE CalmInv'
<1> USE DEF ParserClearResp
<1>1. PICK t \in Caller : /\ pc[t] = "wait" /\ ~resp_notice /\ Answering(cmd[t])
                          /\ cmd[t] \in Command /\ cmd[t] \in live
  BY ParserBusy
<1>2. Answering(cmd[t])'
  BY <1>1 DEF Answering, Coming, OnWire, InHand, Reading, HasLine
<1> QED BY <1>1, <1>2, AnswerFrame

LEMMA NotifyCalm == ASSUME IInv, CalmInv, Calm, Notify PROVE CalmInv'
<1> USE DEF Notify, NextLine
<1>1. PICK t \in Caller : /\ pc[t] = "wait" /\ ~resp_notice /\ Answering(cmd[t])
                          /\ cmd[t] \in Command /\ cmd[t] \in live
  BY ParserBusy
<1> DEFINE c == cmd[t]
<1>2. InHand(c) /\ resp_status = verdict[c]
  BY <1>1 DEF Answering, Coming, OnWire, InHand, Reading, HasLine
<1>3. resp = NULL
  BY <1>1 DEF Answering
<1>4. Answered(c)'
  BY <1>1, <1>2, <1>3 DEF Answering, Answered, Still, InHand, OwnLines
<1> QED BY <1>1, <1>4, AnswerFrame

(* The module sends a line while the parser is at rest: it is a URC.       *)
LEMMA SendURCCalm == ASSUME IInv, CalmInv, Calm, SendURC PROVE CalmInv'
<1> DEFINE l == [cmd |-> NULL, kind |-> "URC"]
<1>1. /\ UNCHANGED <<client, caller, heap, parser, inbox, sent, verdict, used, wild>>
      /\ upset' = upset
      /\ wire' = wire \/ wire' = Append(wire, l)
  BY DEF SendURC, Emit
<1>2. wire \in Seq(Line) /\ l \in Line
  BY WireFacts DEF Line
<1> HIDE DEF l
<1>3. l.kind = "URC"
  BY DEF l
<1>4. CASE Still /\ \A t \in Caller : ~Waits(t)
  <2>1. Still'
    BY <1>1, <1>2, <1>3, <1>4, WireAppend DEF Still
  <2> QED BY <1>1, <1>4, <2>1, StillFrame
<1>5. ASSUME NEW t \in Caller, Waits(t) PROVE CalmInv'
  <2> DEFINE c == cmd[t]
  <2>1. c \in Command /\ Answering(c) /\ ~resp_notice /\ pc[t] = "wait" /\ ppc # "halted"
    BY <1>5, CalmFacts DEF Waits
  <2>2. verdict[c] \in {"none", "OK", "ERROR"}
    BY <2>1 DEF IInv, HistoryOK
  <2>3. LinesOf(wire', c)
    BY <1>1, <1>2, <1>3, <2>1, WireAppend DEF Answering
  <2>4. Coming(c)' \/ OnWire(c)' \/ InHand(c)'
    <3>1. CASE Coming(c)
      BY <1>1, <1>2, <1>3, <3>1, WireAppend DEF Coming
    <3>2. CASE OnWire(c)
      <4>1. verdict[c] \in {"OK", "ERROR"}
        BY <2>2, <3>2 DEF OnWire
      <4>2. Ends(wire', verdict[c])
        BY <1>1, <1>2, <1>3, <3>2, <4>1, WireAppend DEF OnWire
      <4> QED BY <1>1, <3>2, <4>2 DEF OnWire
    <3>3. CASE InHand(c)
      BY <1>1, <1>2, <1>3, <3>3, WireAppend DEF InHand
    <3> QED BY <2>1, <3>1, <3>2, <3>3 DEF Answering
  <2>5. Answering(c)'
    BY <1>1, <2>1, <2>3, <2>4 DEF Answering
  <2> QED BY <1>1, <2>1, <2>5, AnswerFrame
<1> QED BY <1>4, <1>5, Phases

(* A command the module has not answered is the one that waits.            *)
LEMMA ModuleBusy ==
  ASSUME IInv, CalmInv, Calm, inbox # <<>>
  PROVE  \E t \in Caller : /\ pc[t] = "wait" /\ ~resp_notice /\ Answering(cmd[t])
                           /\ cmd[t] \in Command /\ Coming(cmd[t])
                           /\ inbox = <<cmd[t]>>
<1>1. PICK t \in Caller : Waits(t)
  BY Phases DEF Still
<1>2. Answering(cmd[t]) /\ cmd[t] \in Command
  BY <1>1, CalmFacts DEF Waits
<1>3. Coming(cmd[t]) /\ inbox = <<cmd[t]>>
  BY <1>2 DEF Answering, OnWire, InHand
<1> QED BY <1>1, <1>2, <1>3 DEF Waits

LEMMA SendDataCalm == ASSUME IInv, CalmInv, Calm, SendData, Calm' PROVE CalmInv'
<1>1. PICK t \in Caller : /\ pc[t] = "wait" /\ ~resp_notice /\ Answering(cmd[t])
                          /\ cmd[t] \in Command /\ Coming(cmd[t])
                          /\ inbox = <<cmd[t]>>
  BY ModuleBusy DEF SendData
<1> DEFINE c == cmd[t]
           l == [cmd |-> c, kind |-> "DATA"]
<1>2. Head(inbox) = c
  BY <1>1
<1>3. /\ UNCHANGED <<client, caller, heap, parser, inbox, verdict, used, wild>>
      /\ Emit(l)
  BY <1>2 DEF SendData
<1>4. wire \in Seq(Line) /\ l \in Line /\ l.kind = "DATA" /\ l.cmd = c
  BY <1>1, WireFacts DEF Line
<1>5. wire' = Append(wire, l) /\ upset' = upset
  <2>1. Len(wire) < MaxWire
    BY <1>3, <1>4 DEF Emit, Calm
  <2> QED BY <1>3, <2>1 DEF Emit
<1> HIDE DEF l
<1>6. NoFinal(wire') /\ LinesOf(wire', c)
  BY <1>1, <1>4, <1>5, WireAppend DEF Coming, Answering
<1>7. Coming(c)'
  BY <1>1, <1>3, <1>6 DEF Coming
<1>8. Answering(c)'
  BY <1>1, <1>3, <1>6, <1>7 DEF Answering
<1> QED BY <1>1, <1>3, <1>5, <1>8, CalmFacts, AnswerFrame

LEMMA SendFinalCalm == ASSUME IInv, CalmInv, Calm, SendFinal, Calm' PROVE CalmInv'
<1>1. PICK t \in Caller : /\ pc[t] = "wait" /\ ~resp_notice /\ Answering(cmd[t])
                          /\ cmd[t] \in Command /\ Coming(cmd[t])
                          /\ inbox = <<cmd[t]>>
  BY ModuleBusy DEF SendFinal
<1> DEFINE c == cmd[t]
<1>2. Head(inbox) = c /\ Tail(inbox) = <<>>
  BY <1>1
<1>3. PICK k \in {"OK", "ERROR"} : /\ Emit([cmd |-> c, kind |-> k])
                                   /\ verdict' = [verdict EXCEPT ![c] = k]
  BY <1>2 DEF SendFinal
<1> DEFINE l == [cmd |-> c, kind |-> k]
<1>4. /\ UNCHANGED <<client, caller, heap, parser, used, wild>>
      /\ inbox' = <<>>
  BY <1>2 DEF SendFinal
<1>5. wire \in Seq(Line) /\ l \in Line /\ l.kind = k /\ l.cmd = c
  BY <1>1, WireFacts DEF Line
<1>6. wire' = Append(wire, l) /\ upset' = upset
  <2>1. Len(wire) < MaxWire
    BY <1>3, <1>5 DEF Emit, Calm
  <2> QED BY <1>3, <2>1 DEF Emit
<1> HIDE DEF l
<1>7. Ends(wire', k) /\ LinesOf(wire', c)
  BY <1>1, <1>5, <1>6, WireAppend DEF Coming, Answering
<1>8. verdict'[c] = k /\ \A d \in Command : d # c => verdict'[d] = verdict[d]
  BY <1>1, <1>3 DEF IInv, HistoryOK
<1>9. OnWire(c)'
  BY <1>1, <1>4, <1>7, <1>8 DEF Coming, OnWire
<1>10. Answering(c)'
  BY <1>1, <1>4, <1>7, <1>9 DEF Answering
<1> QED BY <1>1, <1>4, <1>6, <1>8, <1>10, CalmFacts, AnswerFrame

LEMMA IgnoreCalm == ASSUME IInv, CalmInv, Calm, Ignore PROVE CalmInv'
<1> USE DEF Ignore
<1>1. PICK t \in Caller : /\ pc[t] = "wait" /\ ~resp_notice /\ Answering(cmd[t])
                          /\ cmd[t] \in Command /\ Coming(cmd[t])
                          /\ inbox = <<cmd[t]>>
  BY ModuleBusy
<1>2. inbox' = <<>>
  BY <1>1
<1>3. Answering(cmd[t])'
  BY <1>1, <1>2 DEF Answering, Coming
<1> QED BY <1>1, <1>3, CalmFacts, AnswerFrame

(* A call comes or goes: the holder of the lock does not notice.           *)
LEMMA HolderFrame ==
  ASSUME IInv, CalmInv, Calm, NEW t \in Caller, NEW s \in Caller, s # t,
         UNCHANGED <<client, parser, module, verdict>>,
         pc'[s] = pc[s], cmd'[s] = cmd[s], arg'[s] = arg[s], result'[s] = result[s],
         expired'[s] = expired[s],
         pc[s] # "idle" => /\ buf'[cmd[s]] = buf[cmd[s]]
                           /\ line_counts'[cmd[s]] = line_counts[cmd[s]]
  PROVE  CalmCall(s)'
<1>1. CalmCall(s)
  BY CalmFacts
<1>2. pc[s] # "idle" => (Answering(cmd[s]) => Answering(cmd[s])')
  BY DEF Answering, Coming, OnWire, InHand
<1>3. pc[s] # "idle" => (Answered(cmd[s]) => Answered(cmd[s])')
  BY DEF Answered, Still, OwnLines
<1>4. Clean => Clean'
  BY DEF Clean, Still
<1> QED BY <1>1, <1>2, <1>3, <1>4 DEF CalmCall, Fresh, Returns, ResultIsAnswer, OwnLines

LEMMA CallCalm == ASSUME IInv, CalmInv, Calm, NEW t \in Caller, Call(t), Calm' PROVE CalmInv'
<1>1. /\ pc[t] = "idle" /\ used < MaxCmds /\ used' = used + 1
      /\ cmd' = [cmd EXCEPT ![t] = used + 1]
      /\ pc' = [pc EXCEPT ![t] = "lock"]
      /\ UNCHANGED <<client, result, expired, buf, line_counts, parser, module, verdict, wild>>
  BY DEF Call
<1>2. arg' = [arg EXCEPT ![t] = used + 1]
  BY DEF Call, Calm
<1>3. used + 1 \in Command /\ used \in Nat
  BY <1>1 DEF IInv, HistoryOK
<1>4. /\ pc'[t] = "lock" /\ cmd'[t] = used + 1 /\ arg'[t] = used + 1
      /\ \A s \in Caller : s # t => pc'[s] = pc[s] /\ cmd'[s] = cmd[s] /\ arg'[s] = arg[s]
  BY <1>1, <1>2 DEF IInv, CallerOK
<1>5. Fresh(used + 1)
  BY <1>3, CalmFacts
<1>6. CalmCall(t)'
  <2>1. ~expired[t]
    BY CalmFacts DEF CalmCall
  <2> QED BY <1>1, <1>4, <1>5, <2>1 DEF CalmCall, Fresh
<1>7. \A s \in Caller : s # t => CalmCall(s)'
  BY <1>1, <1>4, HolderFrame
<1>8. \A c \in Command : c > used' => Fresh(c)'
  BY <1>1, <1>3, CalmFacts DEF Fresh
<1>9. lock' = NoCaller => Clean'
  BY <1>1, CalmFacts DEF Clean, Still
<1> QED BY <1>1, <1>6, <1>7, <1>8, <1>9, CalmFacts DEF CalmInv

LEMMA DeleteCalm == ASSUME IInv, CalmInv, Calm, NEW t \in Caller, Delete(t) PROVE CalmInv'
<1> USE DEF Delete
<1>1. cmd[t] \in Command
  BY CalmFacts
<1>2. /\ buf'[cmd[t]] = <<>>
      /\ \A c \in Command : c # cmd[t] => buf'[c] = buf[c] /\ line_counts'[c] = line_counts[c]
      /\ pc'[t] = "idle" /\ expired'[t] = FALSE
      /\ \A s \in Caller : s # t => /\ pc'[s] = pc[s] /\ cmd'[s] = cmd[s] /\ arg'[s] = arg[s]
                                    /\ result'[s] = result[s] /\ expired'[s] = expired[s]
  BY <1>1 DEF IInv, CallerOK, HeapOK
<1>3. CalmCall(t)'
  BY <1>2 DEF CalmCall
<1>4. ASSUME NEW s \in Caller, s # t PROVE CalmCall(s)'
  <2>1. pc[s] # "idle" => cmd[s] \in Command /\ cmd[s] # cmd[t]
    BY <1>4, CalmFacts
  <2> QED BY <1>2, <1>4, <2>1, HolderFrame
<1>5. \A c \in Command : c > used' => Fresh(c)'
  BY <1>2, CalmFacts DEF Fresh
<1>6. lock' = NoCaller => Clean'
  BY CalmFacts DEF Clean, Still
<1> QED BY <1>3, <1>4, <1>5, <1>6, CalmFacts DEF CalmInv

(* The steps of the task that has the lock, or takes it.                   *)
LEMMA HolderStep ==
  ASSUME IInv, CalmInv, Calm, NEW t \in Caller, pc[t] \in Locked \/ lock = NoCaller,
         pc[t] # "idle",
         UNCHANGED <<cmd, arg, expired, buf, verdict, used>>, ~wild', ppc' = ppc,
         \A s \in Caller : s # t => pc'[s] = pc[s] /\ result'[s] = result[s],
         \A c \in Command : c # cmd[t] => line_counts'[c] = line_counts[c],
         CalmCall(t)', lock' = NoCaller => Clean'
  PROVE  CalmInv'
<1>1. ASSUME NEW s \in Caller, s # t PROVE CalmCall(s)'
  <2>1. pc[s] \notin Locked /\ CalmCall(s)
    BY <1>1, CalmFacts, CallerAssumption
  <2>2. pc[s] # "idle" => cmd[s] \in Command /\ cmd[s] # cmd[t]
    BY <1>1, CalmFacts
  <2> QED BY <1>1, <2>1, <2>2, Bystander
<1>2. \A c \in Command : c > used' => Fresh(c)'
  BY CalmFacts DEF Fresh
<1> QED BY <1>1, <1>2, CalmFacts DEF CalmInv

LEMMA LockCalm == ASSUME IInv, CalmInv, Calm, NEW t \in Caller, Lock(t) PROVE CalmInv'
<1> USE DEF Lock
<1>1. /\ pc'[t] = "prep" /\ lock' = t /\ t # NoCaller
      /\ \A s \in Caller : s # t => pc'[s] = pc[s]
  BY CallerAssumption DEF IInv, CallerOK
<1>2. CalmCall(t) /\ Clean
  BY CalmFacts
<1>3. CalmCall(t)'
  BY <1>1, <1>2 DEF CalmCall, Clean, Still, Fresh
<1> QED BY <1>1, <1>3, CalmFacts, HolderStep

LEMMA PrepareCalm == ASSUME IInv, CalmInv, Calm, NEW t \in Caller, Prepare(t) PROVE CalmInv'
<1> DEFINE c == cmd[t]
<1>1. pc[t] = "prep" /\ arg[t] = c /\ c \in Command /\ c # NULL /\ lock # NoCaller /\ ~wild
  BY CalmFacts, CallerAssumption DEF Prepare
<1>2. /\ pc' = [pc EXCEPT ![t] = "set_resp"] /\ ppc' = ppc
      /\ line_counts' = [line_counts EXCEPT ![c] = 0]
      /\ UNCHANGED <<lock, resp, resp_notice, cmd, arg, result, expired, live, buf, line, held,
                     resp_buf_len, counts, module, verdict, used, upset>>
  BY <1>1 DEF Prepare
<1>3. ~wild'
  BY <1>1 DEF Prepare
<1>4. /\ pc'[t] = "set_resp" /\ \A s \in Caller : s # t => pc'[s] = pc[s]
      /\ \A d \in Command : d # c => line_counts'[d] = line_counts[d]
  BY <1>1, <1>2 DEF IInv, CallerOK, HeapOK
<1>5. CalmCall(t)'
  BY <1>1, <1>2, <1>4, CalmFacts DEF CalmCall, Clean, Still, Fresh
<1> QED BY <1>1, <1>2, <1>3, <1>4, <1>5, HolderStep

LEMMA SetRespCalm == ASSUME IInv, CalmInv, Calm, NEW t \in Caller, SetResp(t) PROVE CalmInv'
<1> USE DEF SetResp
<1>1. /\ pc'[t] = "send" /\ lock # NoCaller /\ arg[t] = cmd[t]
      /\ \A s \in Caller : s # t => pc'[s] = pc[s]
  BY CalmFacts, CallerAssumption DEF IInv, CallerOK
<1>2. CalmCall(t)'
  BY <1>1, CalmFacts DEF CalmCall, Clean, Still, Fresh
<1> QED BY <1>1, <1>2, CalmFacts, HolderStep

LEMMA SendCalm == ASSUME IInv, CalmInv, Calm, NEW t \in Caller, Send(t) PROVE CalmInv'
<1> DEFINE c == cmd[t]
<1>1. pc[t] = "send" /\ arg[t] = c /\ c \in Command /\ c # NULL /\ lock # NoCaller /\ ~wild
  BY CalmFacts, CallerAssumption DEF Send
<1>2. /\ pc' = [pc EXCEPT ![t] = "wait"] /\ result' = result
      /\ inbox' = Append(inbox, c)
      /\ UNCHANGED <<client, cmd, arg, expired, heap, parser, sent, wire, history>>
  BY <1>1 DEF Send
<1>3. pc'[t] = "wait" /\ \A s \in Caller : s # t => pc'[s] = pc[s]
  BY <1>2 DEF IInv, CallerOK
<1>4. Clean /\ Fresh(c) /\ resp = c /\ ~expired[t]
  BY <1>1, CalmFacts DEF CalmCall
<1>5. inbox' = <<c>>
  BY <1>2, <1>4 DEF Clean, Still
<1>6. wire \in Seq(Line)
  BY WireFacts
<1>7. NoFinal(wire) /\ LinesOf(wire, c)
  BY <1>4, <1>6 DEF Clean, Still, Quiet, NoFinal, LinesOf
<1>8. Answering(c)'
  BY <1>2, <1>4, <1>5, <1>7 DEF Answering, Coming, Clean, Still, Fresh, Reading
<1>9. CalmCall(t)'
  BY <1>1, <1>2, <1>3, <1>4, <1>8 DEF CalmCall, Clean
<1> QED BY <1>1, <1>2, <1>3, <1>9, HolderStep

(* What the holder reads of an answered command.                           *)
LEMMA SeeNoticeCalm == ASSUME IInv, CalmInv, Calm, NEW t \in Caller, SeeNotice(t) PROVE CalmInv'
<1> USE DEF SeeNotice
<1>1. /\ pc'[t] = "seen" /\ lock # NoCaller /\ \A s \in Caller : s # t => pc'[s] = pc[s]
  BY CalmFacts, CallerAssumption DEF IInv, CallerOK
<1>2. Answered(cmd[t]) /\ ~expired[t] /\ arg[t] = cmd[t]
  BY CalmFacts DEF CalmCall
<1>3. CalmCall(t)'
  BY <1>1, <1>2 DEF CalmCall, Answered, Still, OwnLines
<1> QED BY <1>1, <1>3, CalmFacts, HolderStep

LEMMA ReadStatusCalm == ASSUME IInv, CalmInv, Calm, NEW t \in Caller, ReadStatus(t) PROVE CalmInv'
<1>1. /\ pc[t] = "seen" /\ lock # NoCaller /\ cmd[t] \in Command
      /\ UNCHANGED <<client, cmd, arg, expired, heap, parser, module, history>>
  BY CalmFacts, CallerAssumption DEF ReadStatus
<1>2. /\ \A s \in Caller : s # t => pc'[s] = pc[s] /\ result'[s] = result[s]
      /\ \/ resp_status # "OK" /\ pc'[t] = "clear_resp" /\ result'[t] = "failure"
         \/ resp_status = "OK" /\ pc'[t] = "check"
  BY DEF ReadStatus, IInv, CallerOK
<1>3. Answered(cmd[t]) /\ ~expired[t] /\ arg[t] = cmd[t]
  BY <1>1, CalmFacts DEF CalmCall
<1>4. verdict[cmd[t]] \in {"OK", "ERROR"} /\ resp_status = verdict[cmd[t]] /\ OwnLines(cmd[t])
  BY <1>1, <1>3 DEF Answered, IInv, HistoryOK
<1>5. Answered(cmd[t])'
  BY <1>1, <1>3 DEF Answered, Still, OwnLines
<1>6. pc'[t] = "clear_resp" => Returns(t)'
  BY <1>1, <1>2, <1>4 DEF Returns, ResultIsAnswer, OwnLines
<1>7. CalmCall(t)'
  BY <1>1, <1>2, <1>3, <1>5, <1>6 DEF CalmCall
<1> QED BY <1>1, <1>2, <1>7, CalmFacts, HolderStep

LEMMA CheckTimerCalm == ASSUME IInv, CalmInv, Calm, NEW t \in Caller, CheckTimer(t) PROVE CalmInv'
<1>1. /\ pc[t] = "check" /\ lock # NoCaller /\ cmd[t] \in Command
      /\ Answered(cmd[t]) /\ ~expired[t] /\ arg[t] = cmd[t] /\ resp_status = "OK"
  BY CalmFacts, CallerAssumption DEF CheckTimer, CalmCall
<1>2. /\ pc' = [pc EXCEPT ![t] = "clear_resp"]
      /\ result' = [result EXCEPT ![t] = "success"]
      /\ UNCHANGED <<client, cmd, arg, expired, heap, parser, module, history>>
  BY <1>1 DEF CheckTimer
<1>3. /\ pc'[t] = "clear_resp" /\ result'[t] = "success"
      /\ \A s \in Caller : s # t => pc'[s] = pc[s] /\ result'[s] = result[s]
  BY <1>2 DEF IInv, CallerOK
<1>4. Answered(cmd[t])'
  BY <1>1, <1>2 DEF Answered, Still, OwnLines
<1>5. Returns(t)'
  BY <1>1, <1>2, <1>3 DEF Returns, ResultIsAnswer, OwnLines, Answered
<1>6. CalmCall(t)'
  BY <1>1, <1>2, <1>3, <1>4, <1>5 DEF CalmCall
<1> QED BY <1>1, <1>2, <1>3, <1>6, CalmFacts, HolderStep

LEMMA ClearRespCalm == ASSUME IInv, CalmInv, Calm, NEW t \in Caller, ClearResp(t) PROVE CalmInv'
<1> USE DEF ClearResp
<1>1. /\ pc'[t] = "clear_notice" /\ lock # NoCaller
      /\ \A s \in Caller : s # t => pc'[s] = pc[s]
  BY CalmFacts, CallerAssumption DEF IInv, CallerOK
<1>2. Answered(cmd[t]) /\ ~expired[t] /\ arg[t] = cmd[t] /\ Returns(t)
  BY CalmFacts DEF CalmCall
<1>3. Answered(cmd[t])' /\ Returns(t)'
  BY <1>2 DEF Answered, Still, OwnLines, Returns, ResultIsAnswer
<1>4. CalmCall(t)'
  BY <1>1, <1>2, <1>3 DEF CalmCall
<1> QED BY <1>1, <1>4, CalmFacts, HolderStep

LEMMA ClearNoticeCalm == ASSUME IInv, CalmInv, Calm, NEW t \in Caller, ClearNotice(t) PROVE CalmInv'
<1> USE DEF ClearNotice
<1>1. /\ pc'[t] = "unlock" /\ lock # NoCaller /\ \A s \in Caller : s # t => pc'[s] = pc[s]
  BY CalmFacts, CallerAssumption DEF IInv, CallerOK
<1>2. Answered(cmd[t]) /\ ~expired[t] /\ arg[t] = cmd[t] /\ Returns(t)
  BY CalmFacts DEF CalmCall
<1>3. Clean' /\ Returns(t)'
  BY <1>2 DEF Answered, Clean, Still, OwnLines, Returns, ResultIsAnswer
<1>4. CalmCall(t)'
  BY <1>1, <1>2, <1>3 DEF CalmCall
<1> QED BY <1>1, <1>4, CalmFacts, HolderStep

LEMMA UnlockCalm == ASSUME IInv, CalmInv, Calm, NEW t \in Caller, Unlock(t) PROVE CalmInv'
<1> USE DEF Unlock
<1>1. /\ pc'[t] = "delete" /\ \A s \in Caller : s # t => pc'[s] = pc[s]
  BY DEF IInv, CallerOK
<1>2. Clean /\ ~expired[t] /\ arg[t] = cmd[t] /\ Returns(t)
  BY CalmFacts DEF CalmCall
<1>3. Clean' /\ Returns(t)'
  BY <1>2 DEF Clean, Still, OwnLines, Returns, ResultIsAnswer
<1>4. CalmCall(t)'
  BY <1>1, <1>2, <1>3 DEF CalmCall
<1> QED BY <1>1, <1>3, <1>4, CalmFacts, HolderStep

(* Once something has gone wrong, it has.                                  *)
LEMMA CalmBefore == ASSUME IInv, [Next]_vars, Calm' PROVE Calm
<1>1. upset \subseteq upset'
  BY DEF Next, vars, Call, Lock, Prepare, SetResp, Send, Expire, SeeNotice, ReadStatus,
     LeaveLoop, CheckTimer, ClearResp, ClearNotice, Unlock, Delete, Parse, ReadLine,
     CheckResp, LoadResp, Load, FitLine, CopyLine, JudgeLine, PublishCounts, ParserClearResp,
     Notify, Module, SendData, SendFinal, Ignore, SendURC, Emit
<1> QED BY <1>1 DEF Calm

LEMMA StepCalmInv == IInv /\ CalmInv /\ [Next]_vars => CalmInv'
<1> SUFFICES ASSUME IInv, CalmInv, [Next]_vars, Calm' PROVE CalmInv'
  BY DEF CalmInv
<1>1. Calm
  BY CalmBefore
<1>2. CASE UNCHANGED vars
  BY <1>2 DEF CalmInv, Calm, vars, Clean, CalmCall, Fresh, Still, Answering, Answered,
     Returns, ResultIsAnswer, OwnLines, Coming, OnWire, InHand
<1>3. ASSUME NEW t \in Caller, Expire(t) \/ LeaveLoop(t) PROVE FALSE
  BY <1>1, <1>3, CalmFacts DEF Expire, LeaveLoop, Calm, CalmCall
<1>4. CASE \E t \in Caller : Call(t) \/ Exec(t)
  BY <1>1, <1>3, <1>4, CallCalm, LockCalm, PrepareCalm, SetRespCalm, SendCalm, SeeNoticeCalm,
     ReadStatusCalm, CheckTimerCalm, ClearRespCalm, ClearNoticeCalm, UnlockCalm, DeleteCalm
     DEF Exec
<1>5. CASE Parse
  BY <1>1, <1>5, ReadLineCalm, CheckRespCalm, LoadRespCalm, FitLineCalm, CopyLineCalm,
     JudgeLineCalm, PublishCountsCalm, ParserClearRespCalm, NotifyCalm DEF Parse
<1>6. CASE Module
  BY <1>1, <1>6, SendDataCalm, SendFinalCalm, IgnoreCalm, SendURCCalm DEF Module
<1> QED BY <1>2, <1>3, <1>4, <1>5, <1>6 DEF Next, Exec

LEMMA InitCalmInv == Init => CalmInv
BY DEF Init, CalmInv, Clean, Still, CalmCall, Fresh, Quiet

THEOREM CalmInvariance == Spec => []CalmInv
<1>1. IInv /\ IInv' /\ CalmInv /\ [Next]_vars => CalmInv'
  BY StepCalmInv
<1> QED BY <1>1, InitCalmInv, Invariance, PTL DEF Spec

(* As long as no timer expires, no line is lost and memory suffices,       *)
(* at_obj_exec_cmd returns success or failure as the module answered to    *)
(* this very command, and the parser never stores through a dead response. *)
THEOREM ResultsAreAnswers == Spec => []CalmResultIsAnswer
<1>1. CalmInv => CalmResultIsAnswer
  BY DEF CalmInv, CalmResultIsAnswer, CalmCall, Returns
<1> QED BY <1>1, CalmInvariance, PTL

(* And the response a caller reads has the lines of its own command, all   *)
(* that line_counts promises; each command starts on a clean slate.        *)
THEOREM ResponsesAreOwn == Spec => []CalmResponseIsOwn
<1>1. CalmInv => CalmResponseIsOwn
  BY DEF CalmInv, CalmResponseIsOwn, CleanStart, CalmCall, Returns, Clean, Still
<1> QED BY <1>1, CalmInvariance, PTL
=============================================================================
