-------------------------------- MODULE Htif --------------------------------
(***************************************************************************)
(* The console and the exit of a board that a simulator runs: a call puts  *)
(* its request into its own stack frame, leaves the address in tohost and  *)
(* waits for fromhost (src/drivers/ucb_htif0.c).  The host takes the       *)
(* address when it looks, and reads the frame when it gets to it.  The     *)
(* program is a thread that prints with write (gloss/sys_write.c), and a   *)
(* handler that may interrupt it to print as well.                         *)
(***************************************************************************)
EXTENDS Naturals, Sequences, SequencesExt

CONSTANTS Printers,   \* {"thread"}, or {"thread", "handler"}
          Texts,      \* what they print
          MaxWrites   \* bound: how many of them

HtifAssumption ==
    /\ Printers \in {{"thread"}, {"thread", "handler"}}
    /\ \A t \in Texts : t \in Seq({t[i] : i \in 1 .. Len(t)}) \ {<<>>}
    /\ MaxWrites \in Nat

VARIABLES tohost,   \* whose frame it points at
          fromhost, \* TRUE: not 0
          frame,    \* magic_mem and c of the calls under way
          pc, text, \* where each printer is, and what it has yet to print
          taken,    \* the frame that the host knows of and has not looked at
          answers,  \* how many requests it has served and not acknowledged
          screen,   \* what it has printed
          asked,    \* what the program has asked to print
          writes, status

program == <<frame, pc, text, asked, writes>>
vars == <<tohost, fromhost, program, taken, answers, screen, status>>

Contexts == {"thread", "handler"}

Gone == [what |-> "gone"]

Init ==
    /\ tohost = "none" /\ fromhost = FALSE
    /\ frame = [p \in Contexts |-> Gone]
    /\ pc = [p \in Contexts |-> "idle"] /\ text = [p \in Contexts |-> <<>>]
    /\ taken = "none" /\ answers = 0
    /\ screen = <<>> /\ asked = <<>>
    /\ writes = 0
    /\ status = "running"

-----------------------------------------------------------------------------
(* The program. *)

Running == status = "running"

\* The thread stands still while the handler runs.
Runs(p) ==
    Running /\ (p = "thread" => pc["handler"] = "idle")

Goto(p, l) == pc' = [pc EXCEPT ![p] = l]

\* _write of standard output, one metal_tty_putc after the other.
Write(p, t) ==
    /\ Runs(p) /\ pc[p] = "idle" /\ writes < MaxWrites
    /\ text' = [text EXCEPT ![p] = t] /\ asked' = asked \o t
    /\ Goto(p, "print") /\ writes' = writes + 1
    /\ UNCHANGED <<tohost, fromhost, frame, taken, answers, screen, status>>

\* __metal_driver_ucb_htif0_putc.
Putc(p) ==
    /\ Runs(p) /\ pc[p] = "print" /\ text[p] # <<>>
    /\ frame' = [frame EXCEPT ![p] = [what |-> "write", c |-> Head(text[p])]]
    /\ Goto(p, "set")
    /\ UNCHANGED <<tohost, fromhost, text, taken, answers, screen, asked, writes,
                   status>>

WriteReturns(p) ==
    /\ Runs(p) /\ pc[p] = "print" /\ text[p] = <<>>
    /\ Goto(p, "idle")
    /\ UNCHANGED <<tohost, fromhost, frame, text, taken, answers, screen, asked,
                   writes, status>>

\* __metal_driver_ucb_htif0_exit.
Exit(code) ==
    /\ Runs("thread") /\ pc["thread"] = "idle"
    /\ frame' = [frame EXCEPT !["thread"] = [what |-> "exit", code |-> code]]
    /\ Goto("thread", "set")
    /\ UNCHANGED <<tohost, fromhost, text, taken, answers, screen, asked, writes,
                   status>>

\* __set_tohost: while tohost is not 0, what comes from the host is dropped,
\* whoever waits for it.
CheckFromhost(p) ==
    /\ Runs(p) /\ pc[p] = "set" /\ tohost # "none"
    /\ fromhost' = FALSE
    /\ UNCHANGED <<tohost, program, taken, answers, screen, status>>

SetTohost(p) ==
    /\ Runs(p) /\ pc[p] = "set" /\ tohost = "none"
    /\ tohost' = p
    /\ Goto(p, "answer")
    /\ UNCHANGED <<fromhost, frame, text, taken, answers, screen, asked, writes,
                   status>>

\* A form it must not take: the call returns once the host has the address.
TakenIsEnough == tohost = "none"

\* do_tohost_fromhost returns on any answer: all devices and commands are 0.
Answered == fromhost

\* metal_tty_putc returns.  After an exit there is only the wait.
Done(p) ==
    /\ Runs(p) /\ pc[p] = "answer" /\ Answered
    /\ fromhost' = FALSE
    /\ IF frame[p].what = "exit" THEN UNCHANGED <<frame, text, pc>>
       ELSE /\ frame' = [frame EXCEPT ![p] = Gone]
            /\ text' = [text EXCEPT ![p] = Tail(@)]
            /\ Goto(p, "print")
    /\ UNCHANGED <<tohost, taken, answers, screen, asked, writes, status>>

-----------------------------------------------------------------------------
(* The host. *)

Take ==
    /\ Running /\ tohost # "none" /\ taken = "none"
    /\ tohost' = "none" /\ taken' = tohost
    /\ UNCHANGED <<fromhost, program, answers, screen, status>>

\* It finds in memory what is there by now.
Serve ==
    /\ Running /\ taken # "none"
    /\ taken' = "none"
    /\ LET request == frame[taken] IN
       IF request.what = "exit"
         THEN status' = request.code /\ UNCHANGED <<screen, answers>>
         ELSE /\ screen' = Append(screen, IF request = Gone THEN "junk"
                                                            ELSE request.c)
              /\ answers' = answers + 1
              /\ UNCHANGED status
    /\ UNCHANGED <<tohost, fromhost, program>>

Acknowledge ==
    /\ Running /\ answers > 0 /\ ~fromhost
    /\ fromhost' = TRUE /\ answers' = answers - 1
    /\ UNCHANGED <<tohost, program, taken, screen, status>>

Step(p) == Putc(p) \/ WriteReturns(p) \/ SetTohost(p) \/ Done(p)

Next ==
    \/ \E p \in Printers :
          \/ Step(p) \/ CheckFromhost(p)
          \/ \E t \in Texts : Write(p, t)
    \/ \E code \in {"passed", "failed"} : Exit(code)
    \/ Take \/ Serve \/ Acknowledge

\* The program goes on, and the host looks at tohost again and again.
Fairness ==
    /\ \A p \in Printers : WF_vars(Step(p))
    /\ WF_vars(Take) /\ WF_vars(Serve) /\ WF_vars(Acknowledge)

Spec == Init /\ [][Next]_vars /\ Fairness

-----------------------------------------------------------------------------

TypeOK ==
    /\ {tohost, taken} \subseteq Printers \cup {"none"}
    /\ fromhost \in BOOLEAN
    /\ \A p \in Contexts :
          /\ frame[p].what \in {"gone", "write", "exit"}
          /\ pc[p] \in {"idle", "print", "set", "answer"}
          /\ IsSuffix(text[p], asked) \/ "handler" \in Printers
    /\ answers \in 0 .. 2 /\ writes \in 0 .. MaxWrites
    /\ status \in {"running", "passed", "failed"}

\* The host reads a request from the stack of the program, some time after the
\* program has handed it over: as long as no handler prints, it finds every
\* character that was to be printed, once and in order, all of them when write
\* has returned and before the simulator ends.
PrintedOnce ==
    Printers = {"thread"} =>
        /\ IsPrefix(screen, asked)
        /\ pc["thread"] = "idle" \/ ~Running => screen = asked

\* Every putc gets the answer it waits for, and exit ends the run: of a thread
\* alone.  A handler that interrupts a call may take the answer to it, but gets
\* one itself.
PrintsReturn ==
    LET p == IF Printers = {"thread"} THEN "thread" ELSE "handler"
    IN pc[p] # "idle" ~> pc[p] = "idle" \/ ~Running

=============================================================================
