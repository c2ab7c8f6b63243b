------------------------------ MODULE ProxyPipe ------------------------------
(***************************************************************************)
(* One `flexctl proxy`, the ProxyCommand of an ssh session                 *)
(* (internal/flexctlcli/proxy.go): it starts a tsnet node, dials, and then *)
(* Pipe (internal/flextsnet) copies in both directions, one goroutine      *)
(* each, until both have reported on errCh.                                *)
(*                                                                         *)
(* Data are counted in chunks, what one Read returns.  A Write puts a chunk *)
(* into the connection's send buffer, which belongs to the tsnet node      *)
(* inside the process: it is sent later, and gone when the node is closed. *)
(* The command's context is never cancelled: main runs it without one.     *)
(* OpenSSH, the tailnet and the remote sshd are external.                  *)
(***************************************************************************)
EXTENDS Naturals, Sequences

CONSTANTS MaxIn,     \* bound on the chunks ssh writes to stdin
          MaxOut,    \* bound on the chunks the remote sends
          Buffer     \* chunks the send buffer holds

ASSUME BoundsAssumption == MaxIn \in Nat /\ MaxOut \in Nat /\ Buffer \in Nat \ {0}

VARIABLES
    phase,      \* where the command is
    attempt,    \* of startWithRetry
    up, down,   \* the goroutines of Pipe, and what they have to report
    errCh,      \* reports not yet received
    got,        \* reports received
    conn,       \* "open", or "closed" by Close
    in, written,        \* chunks in stdin, and all that ssh has written
    handed, buffered,   \* chunks that Write has taken, and those not yet sent
    wire, sent, \* chunks to be read from conn, and all that were sent
    out,        \* chunks written to stdout
    ssh,        \* "running", "half" when only stdin is closed, "gone"
    remote      \* "open", "fin", "reset", or "gone" without a word

command  == <<phase, attempt>>
copiers  == <<up, down, errCh, got>>
upward   == <<in, written, handed, buffered>>
downward == <<wire, sent, out>>
vars     == <<command, copiers, conn, upward, downward, ssh, remote>>

(* A goroutine that reads, that writes what it has read, whose Copy has returned
   an error ("nil" is none), and after its report. *)
At(s) == [at |-> s, err |-> "nil"]
Copied(e) == [at |-> "copied", err |-> e]

(* The connection is there, while Pipe copies and after it has returned. *)
Piping == phase \in {"pipe", "returned"}

-----------------------------------------------------------------------------
(* Mutated form of Start: it is tried again and again. *)
StartAgain ==
    /\ phase = "start"
    /\ \/ phase' = "dial" /\ UNCHANGED attempt
       \/ phase' = "wait" /\ attempt' = attempt + 1
    /\ UNCHANGED <<copiers, conn, upward, downward, ssh, remote>>

(* startWithRetry: the second attempt is the last. *)
Start ==
    /\ phase = "start"
    /\ \/ phase' = "dial" /\ UNCHANGED attempt
       \/ attempt = 0 /\ phase' = "wait" /\ attempt' = 1
       \/ attempt = 1 /\ phase' = "failed" /\ UNCHANGED attempt
    /\ UNCHANGED <<copiers, conn, upward, downward, ssh, remote>>

(* Five seconds are over. *)
Retry ==
    /\ phase = "wait"
    /\ phase' = "start"
    /\ UNCHANGED <<attempt, copiers, conn, upward, downward, ssh, remote>>

(* Dial gives up after 15 seconds; with a connection Pipe starts its goroutines. *)
Dial ==
    /\ phase = "dial"
    /\ \/ /\ phase' = "pipe" /\ conn' = "open"
          /\ up' = At("read") /\ down' = At("read")
       \/ phase' = "failed" /\ UNCHANGED <<conn, up, down>>
    /\ UNCHANGED <<attempt, errCh, got, upward, downward, ssh, remote>>

-----------------------------------------------------------------------------
(* io.Copy(conn, stdin): a chunk, or the end when all has been read. *)
UpRead ==
    /\ phase = "pipe" /\ up = At("read")
    /\ \/ in > 0 /\ in' = in - 1 /\ up' = At("write")
       \/ in = 0 /\ ssh # "running" /\ up' = Copied("nil") /\ UNCHANGED in
    /\ UNCHANGED <<command, down, errCh, got, conn, written, handed, buffered, downward, ssh, remote>>

(* The chunk goes into the send buffer, whatever has become of the remote; the
   Write waits while the buffer is full, and fails once the connection is reset. *)
UpWrite ==
    /\ phase = "pipe" /\ up = At("write")
    /\ \/ /\ remote # "reset" /\ buffered < Buffer
          /\ handed' = handed + 1 /\ buffered' = buffered + 1
          /\ up' = At("read")
       \/ /\ remote = "reset" /\ up' = Copied("broken")
          /\ UNCHANGED <<handed, buffered>>
    /\ UNCHANGED <<command, down, errCh, got, conn, in, written, downward, ssh, remote>>

(* Mutated form of UpReport: the connection is closed before the report. *)
UpReportLast ==
    /\ phase = "pipe" /\ up.at = "copied"
    /\ \/ conn = "open" /\ conn' = "closed" /\ UNCHANGED <<up, errCh>>
       \/ conn = "closed" /\ errCh' = Append(errCh, up.err) /\ up' = At("done") /\ UNCHANGED conn
    /\ UNCHANGED <<command, down, got, upward, downward, ssh, remote>>

UpReport ==
    /\ phase = "pipe" /\ up.at = "copied"
    /\ errCh' = Append(errCh, up.err)
    /\ up' = At("close")
    /\ UNCHANGED <<command, down, got, conn, upward, downward, ssh, remote>>

(* Mutated form of UpClose: the connection is left open. *)
UpCloseForgotten ==
    /\ Piping /\ up = At("close")
    /\ up' = At("done")
    /\ UNCHANGED <<command, down, errCh, got, conn, upward, downward, ssh, remote>>

(* conn.Close, after the report; what is in the send buffer is still sent. *)
UpClose ==
    /\ Piping /\ up = At("close")
    /\ conn' = "closed" /\ up' = At("done")
    /\ UNCHANGED <<command, down, errCh, got, upward, downward, ssh, remote>>

-----------------------------------------------------------------------------
(* Mutated form of DownRead: a reset is taken for the end. *)
DownReadReset ==
    /\ phase = "pipe" /\ down = At("read")
    /\ \/ conn = "closed" /\ down' = Copied("closed") /\ UNCHANGED wire
       \/ conn = "open" /\ wire > 0 /\ wire' = wire - 1 /\ down' = At("write")
       \/ /\ conn = "open" /\ wire = 0 /\ remote \in {"fin", "reset"}
          /\ down' = Copied("nil")
          /\ UNCHANGED wire
    /\ UNCHANGED <<command, up, errCh, got, conn, upward, sent, out, ssh, remote>>

(* io.Copy(stdout, conn): a Read of a closed connection is an error, whatever has
   arrived; otherwise what has arrived comes before the end. *)
DownRead ==
    /\ phase = "pipe" /\ down = At("read")
    /\ \/ conn = "closed" /\ down' = Copied("closed") /\ UNCHANGED wire
       \/ conn = "open" /\ wire > 0 /\ wire' = wire - 1 /\ down' = At("write")
       \/ /\ conn = "open" /\ wire = 0
          /\ \/ remote = "fin" /\ down' = Copied("nil")
             \/ remote = "reset" /\ down' = Copied("broken")
          /\ UNCHANGED wire
    /\ UNCHANGED <<command, up, errCh, got, conn, upward, sent, out, ssh, remote>>

(* ssh takes what is written, when it comes to it. *)
DownWrite ==
    /\ phase = "pipe" /\ down = At("write")
    /\ ssh # "gone" /\ out' = out + 1 /\ down' = At("read")
    /\ UNCHANGED <<command, up, errCh, got, conn, upward, wire, sent, ssh, remote>>

(* Once ssh is gone the write ends the process with SIGPIPE. *)
BrokenPipe ==
    /\ phase = "pipe" /\ down = At("write")
    /\ ssh = "gone" /\ phase' = "killed" /\ buffered' = 0
    /\ UNCHANGED <<attempt, copiers, conn, in, written, handed, downward, ssh, remote>>

DownReport ==
    /\ phase = "pipe" /\ down.at = "copied"
    /\ errCh' = Append(errCh, down.err)
    /\ down' = At("done")
    /\ UNCHANGED <<command, up, got, conn, upward, downward, ssh, remote>>

(* Pipe receives twice and returns. *)
Receive ==
    /\ phase = "pipe" /\ errCh # <<>>
    /\ got' = Append(got, Head(errCh)) /\ errCh' = Tail(errCh)
    /\ phase' = IF Len(got) = 1 THEN "returned" ELSE "pipe"
    /\ UNCHANGED <<attempt, up, down, conn, upward, downward, ssh, remote>>

(* What Pipe returns: the first report, unless that is no error to anyone. *)
PipeResult == IF got[1] = "closed" THEN "nil" ELSE got[1]

(* The deferred srv.Close takes the send buffer with it, and the process ends. *)
Exit ==
    /\ phase = "returned"
    /\ phase' = "exited" /\ buffered' = 0
    /\ UNCHANGED <<attempt, copiers, conn, in, written, handed, downward, ssh, remote>>

Ended == phase \in {"exited", "failed", "killed"}

-----------------------------------------------------------------------------
(* ssh: data of the user. *)
SSHWrite ==
    /\ ~Ended
    /\ ssh = "running" /\ written < MaxIn
    /\ in' = in + 1 /\ written' = written + 1
    /\ UNCHANGED <<command, copiers, conn, handed, buffered, downward, ssh, remote>>

(* The end of stdin, or of stdout too: ssh has exited. *)
SSHClose ==
    /\ ~Ended
    /\ \/ ssh = "running" /\ ssh' = "half"
       \/ ssh \in {"running", "half"} /\ ssh' = "gone"
    /\ UNCHANGED <<command, copiers, conn, upward, downward, remote>>

RemoteSend ==
    /\ Piping /\ remote = "open" /\ sent < MaxOut
    /\ wire' = IF conn = "open" THEN wire + 1 ELSE wire
    /\ sent' = sent + 1
    /\ UNCHANGED <<command, copiers, conn, upward, out, ssh, remote>>

(* The remote closes, resets or is no longer reachable.  A reset overtakes what
   has not arrived. *)
RemoteEnd ==
    /\ Piping /\ remote = "open"
    /\ \/ remote' \in {"fin", "gone"} /\ UNCHANGED wire
       \/ remote' = "reset" /\ wire' \in 0..wire
    /\ UNCHANGED <<command, copiers, conn, upward, sent, out, ssh>>

(* The network stack sends a chunk of the buffer.  One that reaches a remote that
   has closed draws a reset; of a remote that is gone nothing comes back until the
   stack gives the connection up. *)
Transmit ==
    /\ Piping /\ buffered > 0
    /\ \/ /\ remote = "open" /\ buffered' = buffered - 1
          /\ UNCHANGED <<wire, remote>>
       \/ /\ remote \in {"fin", "gone"} /\ remote' = "reset"
          /\ buffered' = 0 /\ wire' \in 0..wire
    /\ UNCHANGED <<command, copiers, conn, in, written, handed, sent, out, ssh>>

-----------------------------------------------------------------------------
Init ==
    /\ phase = "start" /\ attempt = 0
    /\ up = At("none") /\ down = At("none")
    /\ errCh = <<>> /\ got = <<>>
    /\ conn = "none"
    /\ in = 0 /\ written = 0 /\ handed = 0 /\ buffered = 0
    /\ wire = 0 /\ sent = 0 /\ out = 0
    /\ ssh = "running" /\ remote = "open"

Up   == UpRead \/ UpWrite \/ UpReport \/ UpClose
Down == DownRead \/ DownWrite \/ BrokenPipe \/ DownReport

Next ==
    \/ Start \/ Retry \/ Dial
    \/ Up \/ Down \/ Receive \/ Exit
    \/ SSHWrite \/ SSHClose
    \/ RemoteSend \/ RemoteEnd \/ Transmit

Spec == Init /\ [][Next]_vars

(* The scheduler runs every goroutine that can run.  Nothing else is obliged to
   do anything: neither the network, nor ssh or the remote, whether to read, to
   write or to end. *)
FairSpec ==
    /\ Spec
    /\ WF_vars(Up)
    /\ WF_vars(DownRead \/ BrokenPipe \/ DownReport)
    /\ WF_vars(Receive)
    /\ WF_vars(Exit)

-----------------------------------------------------------------------------
Goroutine == [at : {"none", "read", "write", "copied", "close", "done"},
              err : {"nil", "closed", "broken"}]

TypeOK ==
    /\ phase \in {"start", "wait", "dial", "pipe", "returned", "exited", "failed", "killed"}
    /\ attempt \in 0..1
    /\ up \in Goroutine /\ down \in Goroutine
    /\ \A e \in {errCh[i] : i \in DOMAIN errCh} \cup {got[i] : i \in DOMAIN got} :
           e \in {"nil", "closed", "broken"}
    /\ Len(errCh) + Len(got) <= 2
    /\ conn \in {"none", "open", "closed"}
    /\ in \in 0..MaxIn /\ written \in 0..MaxIn /\ handed \in 0..MaxIn /\ buffered \in 0..Buffer
    /\ wire \in 0..MaxOut /\ sent \in 0..MaxOut /\ out \in 0..MaxOut
    /\ ssh \in {"running", "half", "gone"}
    /\ remote \in {"open", "fin", "reset", "gone"}

(* Pipe returns the error of the side that ended first: that the connection is
   closed, which only tells that Pipe has closed it, is never the first report,
   since the goroutine that closes it reports before. *)
FirstReportIsCause == got # <<>> => got[1] # "closed"

(* A proxy that exits without an error has done what one of its ends asked for:
   ssh has closed stdin and all of it was written to the connection, or the remote
   has closed and all it ever sent was written to stdout.  A session that was cut
   off, by a reset above all, is not reported as a success. *)
SuccessIsComplete ==
    phase \in {"returned", "exited"} /\ PipeResult = "nil" =>
        \/ ssh # "running" /\ handed = written
        \/ remote # "open" /\ out = sent

(* A goroutine waits for the remote to take what is in the send buffer, or for
   ssh to read. *)
Stalled ==
    \/ up = At("write") /\ buffered = Buffer /\ remote # "reset"
    \/ down = At("write") /\ ssh # "gone"

(* "Returns when either side closes", stdin: however much the remote still sends
   and whatever it does, the proxy ends, unless an end that is there does not take
   what is written to it, for ever. *)
StdinEndEndsProxy == [](phase = "pipe" /\ ssh # "running" => <>(Ended \/ []Stalled))

(* "Returns when either side closes", the remote, in the same sense. *)
RemoteEndEndsProxy == [](phase = "pipe" /\ remote = "fin" => <>(Ended \/ []Stalled))
=============================================================================
