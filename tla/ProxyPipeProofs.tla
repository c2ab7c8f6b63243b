--------------------------- MODULE ProxyPipeProofs ---------------------------
(***************************************************************************)
(* What Pipe guarantees for any amount of data: which report comes first,  *)
(* and what a success means.  Both rest on what a goroutine has done by    *)
(* the time its report is received.                                        *)
(***************************************************************************)
EXTENDS ProxyPipe, TLAPS

Errors == {"nil", "closed", "broken"}

Typed ==
    /\ phase \in {"start", "wait", "dial", "pipe", "returned", "exited", "failed", "killed"}
    /\ attempt \in 0..1
    /\ up \in Goroutine /\ down \in Goroutine
    /\ errCh \in Seq(Errors) /\ got \in Seq(Errors)
    /\ conn \in {"none", "open", "closed"}
    /\ ssh \in {"running", "half", "gone"}
    /\ remote \in {"open", "fin", "reset", "gone"}

(* Every report is in errCh or has been received, and Pipe returns with two. *)
Told(g) == IF g.at \in {"close", "done"} THEN 1 ELSE 0

Reports ==
    /\ Len(got) + Len(errCh) = Told(up) + Told(down)
    /\ phase = "pipe" => Len(got) < 2
    /\ phase \in {"returned", "exited"} => Len(got) = 2
    /\ phase \in {"start", "wait", "dial"} =>
           up = At("none") /\ down = At("none") /\ conn = "none"

(* Who closes has reported, and who finds it closed reports after. *)
Order ==
    /\ up.err # "closed"
    /\ conn = "closed" => up.at = "done"
    /\ down.err = "closed" => conn = "closed"
    /\ got # <<>> => got[1] # "closed"
    /\ got = <<>> /\ errCh # <<>> => errCh[1] # "closed"

(* Where the chunks are. *)
Busy(g) == IF g.at = "write" THEN 1 ELSE 0

Flow ==
    /\ in \in Nat /\ written \in Nat /\ handed \in Nat /\ buffered \in Nat
    /\ wire \in Nat /\ sent \in Nat /\ out \in Nat
    /\ written <= MaxIn /\ sent <= MaxOut /\ buffered <= Buffer
    /\ handed + in + Busy(up) <= written
    /\ wire + out + Busy(down) <= sent

(* What ssh wrote has been handed over, and what the remote sent shown. *)
InputDone  == ssh # "running" /\ in = 0 /\ handed = written
OutputDone == remote # "open" /\ wire = 0 /\ out = sent

(* No chunk is lost upward before a Write fails, nor downward before a reset or a
   Close. *)
Whole ==
    /\ up.at \in {"none", "read", "write"} \/ up = Copied("nil")
           => handed + in + Busy(up) = written
    /\ conn = "open" /\ remote # "reset" => wire + out + Busy(down) = sent
    /\ phase \in {"start", "wait", "dial"} => sent = 0

(* Whoever ends without an error has done all its work, and a first report that
   tells of no error stands for it. *)
Ends ==
    /\ up = Copied("nil") => InputDone
    /\ down = Copied("nil") => OutputDone
    /\ got = <<>> /\ errCh # <<>> /\ errCh[1] = "nil" => InputDone \/ OutputDone
    /\ got # <<>> /\ got[1] = "nil" => InputDone \/ OutputDone

ProxyInv == Typed /\ Reports /\ Order /\ Flow /\ Whole /\ Ends

LEMMA ProxyInit == Init => ProxyInv
BY BoundsAssumption
DEF Init, ProxyInv, Typed, Reports, Order, Flow, Whole, Ends, Told, Busy, At, Copied,
    Goroutine, Errors

LEMMA TypedInductive == ProxyInv /\ [Next]_vars => Typed'
<1> SUFFICES ASSUME Typed, [Next]_vars
             PROVE  Typed'
  BY DEF ProxyInv
<1> USE DEF Typed, At, Copied, Goroutine, Errors, command, copiers, upward, downward
<1>1. CASE UpReport \/ DownReport
  <2>1. up.err \in Errors /\ down.err \in Errors
    OBVIOUS
  <2>2. errCh \in Seq(Errors)
    OBVIOUS
  <2>3. errCh' = Append(errCh, up.err) \/ errCh' = Append(errCh, down.err)
    BY <1>1 DEF UpReport, DownReport
  <2>4. errCh' \in Seq(Errors)
    <3> HIDE DEF Typed, Errors, Goroutine
    <3> QED BY <2>1, <2>2, <2>3
  <2> QED BY <1>1, <2>4 DEF UpReport, DownReport
<1>2. CASE UpRead \/ UpWrite \/ UpClose \/ DownRead \/ DownWrite \/ BrokenPipe
  BY <1>2 DEF UpRead, UpWrite, UpClose, DownRead, DownWrite, BrokenPipe
<1>3. CASE Receive
  BY <1>3 DEF Receive
<1>4. CASE Start \/ Retry \/ Dial \/ Exit
  BY <1>4 DEF Start, Retry, Dial, Exit
<1>5. CASE SSHWrite \/ SSHClose \/ RemoteSend \/ RemoteEnd \/ Transmit
  BY <1>5 DEF SSHWrite, SSHClose, RemoteSend, RemoteEnd, Transmit
<1>6. CASE UNCHANGED vars
  BY <1>6 DEF vars
<1> QED BY <1>1, <1>2, <1>3, <1>4, <1>5, <1>6 DEF Next, Up, Down

(* A goroutine is busy between a Read and the Write that follows. *)
LEMMA BusyAt ==
  /\ Busy(At("write")) = 1 /\ Busy(At("read")) = 0 /\ Busy(At("none")) = 0
  /\ Busy(At("close")) = 0 /\ Busy(At("done")) = 0
  /\ \A e \in Errors : Busy(Copied(e)) = 0
  /\ \A g \in Goroutine : Busy(g) \in {0, 1} /\ (g.at # "write" => Busy(g) = 0)
BY DEF Busy, At, Copied, Goroutine

(* One case per step, with what it does to the chunks. *)
LEMMA FlowInductive == ProxyInv /\ [Next]_vars => Flow' /\ Whole'
<1> SUFFICES ASSUME ProxyInv, [Next]_vars
             PROVE  Flow' /\ Whole'
  OBVIOUS
<1>0. Typed /\ Flow /\ Whole /\ Order
  BY DEF ProxyInv
<1>a. Busy(up) \in {0, 1} /\ Busy(down) \in {0, 1}
  BY <1>0, BusyAt DEF Typed
<1> USE BoundsAssumption DEF command, copiers, upward, downward
<1>1. CASE UpRead
  <2>1. /\ Busy(up) = 0 /\ up.at = "read" /\ phase' = phase
        /\ UNCHANGED <<down, written, handed, buffered, downward, ssh, remote, conn>>
    BY <1>1, BusyAt DEF UpRead, At
  <2>2. CASE in > 0 /\ in' = in - 1 /\ up' = At("write")
    <3>1. Busy(up)' = 1 /\ Busy(down)' = Busy(down)
      BY <2>1, <2>2, BusyAt DEF At, Busy
    <3> QED BY <1>0, <1>a, <2>1, <2>2, <3>1 DEF Flow, Whole
  <2>3. CASE in = 0 /\ ssh # "running" /\ up' = Copied("nil") /\ UNCHANGED in
    <3>1. Busy(up)' = 0 /\ Busy(down)' = Busy(down)
      BY <2>1, <2>3 DEF Copied, Busy
    <3> QED BY <1>0, <1>a, <2>1, <2>3, <3>1 DEF Flow, Whole
  <2> QED BY <1>1, <2>2, <2>3 DEF UpRead
<1>2. CASE UpWrite
  <2>1. /\ Busy(up) = 1 /\ up.at = "write" /\ phase' = phase
        /\ UNCHANGED <<down, in, written, downward, ssh, remote, conn>>
    BY <1>2, BusyAt DEF UpWrite, At
  <2>2. Busy(up)' = 0 /\ Busy(down)' = Busy(down)
    BY <1>2, <2>1 DEF UpWrite, At, Copied, Busy
  <2>3. CASE /\ buffered < Buffer /\ handed' = handed + 1
             /\ buffered' = buffered + 1
    BY <1>0, <1>a, <2>1, <2>2, <2>3 DEF Flow, Whole
  <2>4. CASE up' = Copied("broken") /\ UNCHANGED <<handed, buffered>>
    <3>1. up'.at = "copied" /\ up' # Copied("nil")
      BY <2>4 DEF Copied
    <3> QED BY <1>0, <1>a, <2>1, <2>2, <2>4, <3>1 DEF Flow, Whole
  <2> QED BY <1>2, <2>3, <2>4 DEF UpWrite
<1>3. CASE UpReport \/ UpClose
  <2>1. /\ UNCHANGED <<down, upward, downward, ssh, remote>> /\ phase' = phase
        /\ conn' = conn \/ conn' = "closed"
        /\ Busy(up) = 0 /\ Busy(up)' = 0 /\ Busy(down)' = Busy(down)
        /\ up'.at \in {"close", "done"} /\ up' # Copied("nil")
    BY <1>3 DEF UpReport, UpClose, At, Copied, Busy
  <2> QED BY <1>0, <1>a, <2>1 DEF Flow, Whole
<1>4. CASE DownRead
  <2>1. /\ Busy(down) = 0 /\ phase' = phase
        /\ \/ wire > 0 /\ wire' = wire - 1 /\ Busy(down)' = 1
           \/ wire' = wire /\ Busy(down)' = 0
        /\ UNCHANGED <<up, upward, sent, out, ssh, remote, conn>>
        /\ Busy(up)' = Busy(up)
    BY <1>4 DEF DownRead, At, Copied, Busy
  <2> QED BY <1>0, <1>a, <2>1 DEF Flow, Whole
<1>5. CASE DownWrite
  <2>1. /\ Busy(down) = 1 /\ Busy(down)' = 0 /\ out' = out + 1 /\ phase' = phase
        /\ UNCHANGED <<up, upward, sent, wire, ssh, remote, conn>>
        /\ Busy(up)' = Busy(up)
    BY <1>5 DEF DownWrite, At, Busy
  <2> QED BY <1>0, <1>a, <2>1 DEF Flow, Whole
<1>6. CASE DownReport
  <2>1. /\ Busy(down) = 0 /\ Busy(down)' = 0 /\ phase' = phase
        /\ UNCHANGED <<up, upward, downward, ssh, remote, conn>>
        /\ Busy(up)' = Busy(up)
    BY <1>6 DEF DownReport, At, Busy
  <2> QED BY <1>0, <1>a, <2>1 DEF Flow, Whole
<1>7. CASE Dial
  <2>1. /\ Busy(up) = 0 /\ Busy(down) = 0 /\ Busy(up)' = 0 /\ Busy(down)' = 0
        /\ up.at = "none" /\ conn = "none" /\ sent = 0
    BY <1>0, <1>7 DEF Dial, ProxyInv, Reports, At, Busy, Whole
  <2>2. handed + in = written /\ wire + out = sent
    BY <1>0, <2>1 DEF Flow, Whole
  <2>3. UNCHANGED <<upward, downward, ssh, remote>> /\ phase' \in {"pipe", "failed"}
    BY <1>7 DEF Dial
  <2> QED BY <1>0, <2>1, <2>2, <2>3 DEF Flow, Whole
<1>8. CASE SSHWrite
  <2>1. Busy(up)' = Busy(up) /\ Busy(down)' = Busy(down) /\ up' = up
    BY <1>8 DEF SSHWrite, Busy
  <2>2. /\ in' = in + 1 /\ written' = written + 1 /\ written < MaxIn
        /\ UNCHANGED <<phase, conn, handed, buffered, downward, remote>>
    BY <1>8 DEF SSHWrite
  <2> QED BY <1>0, <1>a, <2>1, <2>2 DEF Flow, Whole
<1>9. CASE RemoteSend
  <2>1. Busy(up)' = Busy(up) /\ Busy(down)' = Busy(down) /\ up' = up
    BY <1>9 DEF RemoteSend, Busy
  <2>2. /\ wire' = wire + 1 \/ (wire' = wire /\ conn # "open")
        /\ sent' = sent + 1 /\ sent < MaxOut /\ phase \in {"pipe", "returned"}
        /\ UNCHANGED <<phase, conn, upward, out, remote>>
    BY <1>9 DEF RemoteSend, Piping
  <2> QED BY <1>0, <1>a, <2>1, <2>2 DEF Flow, Whole
<1>10. CASE RemoteEnd \/ Transmit
  <2>1. Busy(up)' = Busy(up) /\ Busy(down)' = Busy(down) /\ up' = up
    BY <1>10 DEF RemoteEnd, Transmit, Busy
  <2>2. /\ UNCHANGED <<phase, conn, in, written, handed, sent, out>>
        /\ \/ wire' = wire /\ remote # "reset"
           \/ wire' \in 0..wire /\ remote' = "reset"
        /\ buffered' = buffered \/ buffered' = 0 \/ (buffered > 0 /\ buffered' = buffered - 1)
    BY <1>10 DEF RemoteEnd, Transmit
  <2> QED BY <1>0, <1>a, <2>1, <2>2 DEF Flow, Whole
<1>11. CASE BrokenPipe \/ Exit
  <2>1. /\ UNCHANGED <<up, down, conn, in, written, handed, downward, remote>>
        /\ buffered' = 0 /\ phase' \in {"killed", "exited"}
    BY <1>11 DEF BrokenPipe, Exit
  <2>2. Busy(up)' = Busy(up) /\ Busy(down)' = Busy(down)
    BY <2>1 DEF Busy
  <2> QED BY <1>0, <1>a, <2>1, <2>2 DEF Flow, Whole
<1>12. CASE Start \/ Retry \/ Receive \/ SSHClose \/ UNCHANGED vars
  <2>1. /\ UNCHANGED <<up, down, conn, upward, downward, remote>>
        /\ phase' \in {"start", "wait", "dial"} => phase \in {"start", "wait", "dial"}
    BY <1>12 DEF Start, Retry, Receive, SSHClose, vars
  <2>2. Busy(up)' = Busy(up) /\ Busy(down)' = Busy(down)
    BY <2>1 DEF Busy
  <2> QED BY <1>0, <1>a, <2>1, <2>2 DEF Flow, Whole
<1> QED BY <1>1, <1>2, <1>3, <1>4, <1>5, <1>6, <1>7, <1>8, <1>9, <1>10, <1>11, <1>12
        DEF Next, Up, Down

(* What is done stays done: ssh writes nothing more, and the remote sends nothing
   more. *)
LEMMA DoneStays ==
  ProxyInv /\ [Next]_vars => (InputDone => InputDone') /\ (OutputDone => OutputDone')
<1> SUFFICES ASSUME ProxyInv, [Next]_vars
             PROVE  (InputDone => InputDone') /\ (OutputDone => OutputDone')
  OBVIOUS
<1> USE DEF command, copiers, upward, downward
<1>0. Flow /\ Typed /\ Busy(up) \in {0, 1} /\ Busy(down) \in {0, 1}
  BY BusyAt DEF ProxyInv, Typed
<1>1. ASSUME InputDone
      PROVE  InputDone'
  <2>1. up.at # "write"
    BY <1>0, <1>1 DEF InputDone, Flow, Busy
  <2>2. CASE Up \/ Down
    BY <1>0, <1>1, <2>1, <2>2
       DEF Up, Down, UpRead, UpWrite, UpReport, UpClose, DownRead, DownWrite, BrokenPipe,
           DownReport, At, InputDone
  <2>3. CASE SSHWrite \/ SSHClose \/ RemoteSend \/ RemoteEnd \/ Transmit
    BY <1>1, <2>3 DEF SSHWrite, SSHClose, RemoteSend, RemoteEnd, Transmit, InputDone
  <2>4. CASE Start \/ Retry \/ Dial \/ Receive \/ Exit \/ UNCHANGED vars
    BY <1>1, <2>4 DEF Start, Retry, Dial, Receive, Exit, vars, InputDone
  <2> QED BY <2>2, <2>3, <2>4 DEF Next
<1>2. ASSUME OutputDone
      PROVE  OutputDone'
  <2>1. down.at # "write"
    BY <1>0, <1>2 DEF OutputDone, Flow, Busy
  <2>2. CASE Up \/ Down
    BY <1>0, <1>2, <2>1, <2>2
       DEF Up, Down, UpRead, UpWrite, UpReport, UpClose, DownRead, DownWrite, BrokenPipe,
           DownReport, At, OutputDone
  <2>3. CASE SSHWrite \/ SSHClose \/ RemoteSend \/ RemoteEnd
    BY <1>2, <2>3 DEF SSHWrite, SSHClose, RemoteSend, RemoteEnd, OutputDone
  <2>4. CASE Transmit
    BY <1>2, <2>4 DEF Transmit, OutputDone
  <2>5. CASE Start \/ Retry \/ Dial \/ Receive \/ Exit \/ UNCHANGED vars
    BY <1>2, <2>5 DEF Start, Retry, Dial, Receive, Exit, vars, OutputDone
  <2> QED BY <2>2, <2>3, <2>4, <2>5 DEF Next
<1> QED BY <1>1, <1>2

(* A report joins those that wait, and the first that waits is received. *)
LEMMA FirstReport ==
  /\ \A s \in Seq(Errors), e \in Errors :
        Append(s, e) # <<>> /\ Append(s, e)[1] = IF s = <<>> THEN e ELSE s[1]
  /\ \A s \in Seq(Errors) : s # <<>> => Head(s) = s[1] /\ s[1] \in Errors
OBVIOUS

LEMMA EndsInductive == ProxyInv /\ [Next]_vars => Ends'
<1> SUFFICES ASSUME ProxyInv, [Next]_vars
             PROVE  Ends'
  OBVIOUS
<1>0. /\ Typed /\ Flow /\ Whole /\ Ends
      /\ InputDone => InputDone'
      /\ OutputDone => OutputDone'
      /\ errCh \in Seq(Errors) /\ got \in Seq(Errors)
  BY DoneStays DEF ProxyInv, Typed
<1> USE DEF command, copiers, upward, downward
<1>1. CASE UpRead
  <2>1. UNCHANGED <<down, errCh, got>>
    BY <1>1 DEF UpRead
  <2>2. up' = Copied("nil") => InputDone'
    <3>1. SUFFICES ASSUME up' = Copied("nil")
                   PROVE  InputDone'
      OBVIOUS
    <3>2. /\ up.at = "read" /\ Busy(up) = 0 /\ in = 0 /\ ssh # "running"
          /\ UNCHANGED <<in, ssh, written, handed>>
      BY <1>1, <3>1 DEF UpRead, At, Copied, Busy
    <3> QED BY <1>0, <3>2 DEF Whole, Flow, InputDone
  <2> QED BY <1>0, <2>1, <2>2 DEF Ends
<1>2. CASE UpWrite \/ UpClose
  <2>1. UNCHANGED <<down, errCh, got>> /\ up' # Copied("nil")
    BY <1>2 DEF UpWrite, UpClose, At, Copied
  <2> QED BY <1>0, <2>1 DEF Ends
<1>3. CASE UpReport
  <2>1. /\ UNCHANGED <<down, got>> /\ errCh' = Append(errCh, up.err)
        /\ up' # Copied("nil") /\ up.at = "copied"
    BY <1>3 DEF UpReport, At, Copied
  <2>2. up.err \in Errors /\ (up.err = "nil" => up = Copied("nil"))
    BY <1>0, <2>1 DEF Typed, Goroutine, Errors, Copied
  <2>3. errCh'[1] = IF errCh = <<>> THEN up.err ELSE errCh[1]
    BY <1>0, <2>1, <2>2, FirstReport
  <2> QED BY <1>0, <2>1, <2>2, <2>3 DEF Ends
<1>4. CASE DownRead
  <2>1. UNCHANGED <<up, errCh, got>>
    BY <1>4 DEF DownRead
  <2>2. down' = Copied("nil") => OutputDone'
    <3>1. SUFFICES ASSUME down' = Copied("nil")
                   PROVE  OutputDone'
      OBVIOUS
    <3>2. /\ Busy(down) = 0 /\ wire = 0 /\ remote = "fin" /\ conn = "open"
          /\ UNCHANGED <<wire, out, sent, remote>>
      BY <1>4, <3>1 DEF DownRead, At, Copied, Busy
    <3> QED BY <1>0, <3>2 DEF Whole, Flow, OutputDone
  <2> QED BY <1>0, <2>1, <2>2 DEF Ends
<1>5. CASE DownWrite \/ BrokenPipe
  <2>1. UNCHANGED <<up, errCh, got>> /\ down' # Copied("nil")
    BY <1>5 DEF DownWrite, BrokenPipe, At, Copied
  <2> QED BY <1>0, <2>1 DEF Ends
<1>6. CASE DownReport
  <2>1. /\ UNCHANGED <<up, got>> /\ errCh' = Append(errCh, down.err)
        /\ down' # Copied("nil") /\ down.at = "copied"
    BY <1>6 DEF DownReport, At, Copied
  <2>2. down.err \in Errors /\ (down.err = "nil" => down = Copied("nil"))
    BY <1>0, <2>1 DEF Typed, Goroutine, Errors, Copied
  <2>3. errCh'[1] = IF errCh = <<>> THEN down.err ELSE errCh[1]
    BY <1>0, <2>1, <2>2, FirstReport
  <2> QED BY <1>0, <2>1, <2>2, <2>3 DEF Ends
<1>7. CASE Receive
  <2>1. UNCHANGED <<up, down>> /\ errCh # <<>> /\ got' = Append(got, Head(errCh))
    BY <1>7 DEF Receive
  <2>2. got' # <<>> /\ got'[1] = IF got = <<>> THEN errCh[1] ELSE got[1]
    BY <1>0, <2>1, FirstReport
  <2> QED BY <1>0, <2>1, <2>2 DEF Ends
<1>8. CASE Dial
  <2>1. UNCHANGED <<errCh, got>>
    BY <1>8 DEF Dial
  <2>2. (up' = up \/ up' # Copied("nil")) /\ (down' = down \/ down' # Copied("nil"))
    BY <1>8 DEF Dial, At, Copied
  <2> QED BY <1>0, <2>1, <2>2 DEF Ends
<1>9. CASE UNCHANGED copiers
  BY <1>0, <1>9 DEF Ends
<1> QED BY <1>1, <1>2, <1>3, <1>4, <1>5, <1>6, <1>7, <1>8, <1>9
        DEF Next, Up, Down, Start, Retry, Exit, SSHWrite, SSHClose, RemoteSend, RemoteEnd,
            Transmit, vars

LEMMA ReportsInductive == ProxyInv /\ [Next]_vars => Reports' /\ Order'
<1> SUFFICES ASSUME ProxyInv, [Next]_vars
             PROVE  Reports' /\ Order'
  OBVIOUS
<1> USE DEF ProxyInv, Typed, Reports, Order, Told, At, Copied, Goroutine, Errors,
            command, copiers, upward, downward
<1>1. CASE UpRead \/ UpWrite
  BY <1>1 DEF UpRead, UpWrite
<1>2. CASE UpReport
  BY <1>2 DEF UpReport
<1>3. CASE UpClose
  BY <1>3 DEF UpClose
<1>4. CASE DownRead \/ DownWrite \/ BrokenPipe
  BY <1>4 DEF DownRead, DownWrite, BrokenPipe
<1>5. CASE DownReport
  BY <1>5 DEF DownReport
<1>6. CASE Receive
  <2>1. /\ errCh # <<>> /\ got' = Append(got, Head(errCh)) /\ errCh' = Tail(errCh)
        /\ UNCHANGED <<up, down, conn>> /\ phase = "pipe"
        /\ phase' = IF Len(got) = 1 THEN "returned" ELSE "pipe"
    BY <1>6 DEF Receive
  <2>2. /\ Len(got') = Len(got) + 1 /\ Len(errCh') = Len(errCh) - 1
        /\ Len(got) \in Nat /\ Len(errCh) \in Nat
    <3>1. errCh \in Seq(Errors) /\ got \in Seq(Errors)
      OBVIOUS
    <3> HIDE DEF ProxyInv, Typed, Reports, Order, Errors
    <3> QED BY <2>1, <3>1
  <2>3. got' # <<>> /\ got'[1] = IF got = <<>> THEN errCh[1] ELSE got[1]
    <3>1. errCh \in Seq(Errors) /\ got \in Seq(Errors)
      OBVIOUS
    <3> HIDE DEF ProxyInv, Typed, Reports, Order, Errors
    <3> QED BY <2>1, <3>1
  <2>4. Order'
    BY <2>1, <2>3
  <2>5. Reports'
    <3>1. Told(up)' = Told(up) /\ Told(down)' = Told(down)
      BY <2>1
    <3>2. Len(got) < 2 /\ Len(got) + Len(errCh) = Told(up) + Told(down)
      BY <2>1
    <3>3. Told(up) \in Nat /\ Told(down) \in Nat
      OBVIOUS
    <3> HIDE DEF ProxyInv, Typed, Reports, Order, Told, Goroutine, Errors
    <3>4. Len(got') + Len(errCh') = Told(up)' + Told(down)'
      BY <2>2, <3>1, <3>2, <3>3
    <3>5. /\ phase' = "pipe" => Len(got') < 2
          /\ phase' \in {"returned", "exited"} => Len(got') = 2
          /\ phase' \notin {"start", "wait", "dial"}
      <4>1. CASE Len(got) = 1
        BY <2>1, <2>2, <4>1
      <4>2. CASE Len(got) # 1
        <5>1. Len(got) = 0
          BY <2>2, <3>2, <4>2
        <5> QED BY <2>1, <2>2, <5>1
      <4> QED BY <4>1, <4>2
    <3> QED BY <3>4, <3>5 DEF Reports
  <2> QED BY <2>4, <2>5
<1>7. CASE Start \/ Retry \/ Dial \/ Exit
  BY <1>7 DEF Start, Retry, Dial, Exit
<1>8. CASE SSHWrite \/ SSHClose \/ RemoteSend \/ RemoteEnd \/ Transmit
  BY <1>8 DEF SSHWrite, SSHClose, RemoteSend, RemoteEnd, Transmit
<1>9. CASE UNCHANGED vars
  BY <1>9 DEF vars
<1> QED BY <1>1, <1>2, <1>3, <1>4, <1>5, <1>6, <1>7, <1>8, <1>9 DEF Next, Up, Down

LEMMA ProxyInductive == ProxyInv /\ [Next]_vars => ProxyInv'
BY TypedInductive, FlowInductive, ReportsInductive, EndsInductive DEF ProxyInv

(* The error Pipe returns is never that of its own Close: the report comes before
   the Close, and reports are received in the order they are made. *)
THEOREM CauseComesFirst == Spec => []FirstReportIsCause
<1>1. ProxyInv => FirstReportIsCause
  BY DEF ProxyInv, Order, FirstReportIsCause
<1> QED BY <1>1, ProxyInit, ProxyInductive, PTL DEF Spec

(* Pipe returns no error only if stdin has ended and all of it was written to the
   connection, or the remote has closed and all it sent was shown, however the
   goroutines interleave and however much that is. *)
THEOREM NilMeansComplete == Spec => []SuccessIsComplete
<1>1. ProxyInv => SuccessIsComplete
  <2> SUFFICES ASSUME ProxyInv, phase \in {"returned", "exited"}, PipeResult = "nil"
               PROVE  \/ ssh # "running" /\ handed = written
                      \/ remote # "open" /\ out = sent
    BY DEF SuccessIsComplete
  <2>1. got # <<>>
    <3>1. Len(got) = 2
      BY DEF ProxyInv, Reports
    <3>2. Len(<<>>) = 0
      OBVIOUS
    <3> QED BY <3>1, <3>2
  <2>2. got[1] = "nil"
    BY <2>1 DEF ProxyInv, Order, PipeResult
  <2> QED BY <2>1, <2>2 DEF ProxyInv, Ends, InputDone, OutputDone
<1> QED BY <1>1, ProxyInit, ProxyInductive, PTL DEF Spec

(* errCh, of capacity two, never blocks a goroutine, and startWithRetry makes two
   attempts at most. *)
THEOREM ProxyTypes == Spec => []TypeOK
<1>1. ProxyInv => TypeOK
  BY BoundsAssumption
     DEF ProxyInv, Typed, Reports, Flow, Told, Busy, Goroutine, Errors, TypeOK
<1> QED BY <1>1, ProxyInit, ProxyInductive, PTL DEF Spec
=============================================================================
