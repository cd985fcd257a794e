------------------------------- MODULE Loader -------------------------------
(***************************************************************************)
(* The upload of a kernel image: protocol.py on the host and c8763_reader  *)
(* in the boot loader, over a serial line that may damage or lose bytes.   *)
(* The loader echoes the bytes of the header and of the image and the host *)
(* compares; the bytes of the size are not echoed.  The host gives up at   *)
(* the first wrong echo and waits for a missing one for ever; its user     *)
(* starts it again.  The loader has no way back but the reset button.      *)
(***************************************************************************)
EXTENDS Naturals, Sequences

CONSTANTS
    Header,         \* "c8763": bytes that are all different
    Base,           \* the values of a byte, 256
    SizeBytes,      \* length of the size field, 4
    Images,         \* the images that may be uploaded
    MaxFaults,      \* bound on damaged and lost bytes
    Garbage,        \* what a damaged byte may look like
    FaultIn         \* the phases of the loader in which faults may happen

ByteValue == 0 .. (Base - 1)

ASSUME LoaderAssumption ==
    /\ Base \in Nat \ {0} /\ SizeBytes \in Nat \ {0}
    /\ Base ^ 0 = 1
    /\ \A n \in 0 .. SizeBytes : Base ^ n \in Nat \ {0} /\ Base ^ (n + 1) = Base * Base ^ n
    /\ Header \in Seq(ByteValue) /\ Len(Header) > 1
    /\ \A i, j \in DOMAIN Header : i # j => Header[i] # Header[j]
    /\ Garbage \subseteq ByteValue /\ MaxFaults \in Nat
    /\ \A m \in Images : m \in Seq(ByteValue) /\ Len(m) < Base ^ SizeBytes

VARIABLES
    image,                  \* the file protocol.py was given
    host, pos, waiting,     \* protocol.py: phase, bytes of it done, in tty.read?
    line, echo,             \* bytes under way to the loader and to the host
    phase, count,           \* c8763_reader: loop, and its counter, idx or i
    img_size, kernel,       \* the size read so far, the bytes stored at 0x80000
    faults

hostVars == <<image, host, pos, waiting>>
devVars == <<phase, count, img_size, kernel>>
loaderVars == <<hostVars, devVars, line, echo, faults>>

\* Noise on the line has left the search for the header anywhere.
LoaderInit ==
    /\ image \in Images
    /\ host = "header" /\ pos = 0 /\ waiting = FALSE
    /\ line = <<>> /\ echo = <<>>
    /\ phase = "header" /\ count \in 0 .. (Len(Header) - 1)
    /\ img_size = 0 /\ kernel = <<>>
    /\ faults = 0

-----------------------------------------------------------------------------
(* protocol.py                                                             *)

Message == IF host = "header" THEN Header ELSE image

AfterByte(n) ==
    IF n < Len(Message) THEN host ELSE IF host = "header" THEN "size" ELSE "done"

SendByte ==
    /\ host \in {"header", "image"} /\ ~ waiting
    /\ line' = Append(line, Message[pos + 1])
    /\ waiting' = TRUE
    /\ UNCHANGED <<image, host, pos, echo, devVars, faults>>

CheckEcho ==
    /\ waiting /\ echo # <<>>
    /\ echo' = Tail(echo)
    /\ waiting' = FALSE
    /\ IF Head(echo) = Message[pos + 1]
       THEN /\ host' = AfterByte(pos + 1)
            /\ pos' = IF host' = host THEN pos + 1 ELSE 0
       ELSE host' = "error" /\ UNCHANGED pos
    /\ UNCHANGED <<image, line, devVars, faults>>

\* img_size.to_bytes(4, 'big')
SendSize ==
    /\ host = "size"
    /\ line' = line \o [i \in 1 .. SizeBytes |-> (Len(image) \div Base ^ (SizeBytes - i)) % Base]
    /\ host' = IF image = <<>> THEN "done" ELSE "image"
    /\ UNCHANGED <<image, pos, waiting, echo, devVars, faults>>

\* The user runs protocol.py again after an error, or when it hangs in
\* tty.read; opening the port drops what was received.
Restart ==
    /\ phase # "run"
    /\ host = "error" \/ (waiting /\ line = <<>> /\ echo = <<>>)
    /\ host' = "header" /\ pos' = 0 /\ waiting' = FALSE
    /\ echo' = <<>>
    /\ UNCHANGED <<image, line, devVars, faults>>

-----------------------------------------------------------------------------
(* c8763_reader                                                            *)

\* Each pass of a loop reads a byte.
uart_read(p) ==
    /\ phase = p /\ line # <<>>
    /\ line' = Tail(line)
    /\ UNCHANGED <<hostVars, faults>>

Advance(n, total, next) ==
    /\ count' = IF n = total THEN 0 ELSE n
    /\ phase' = IF n = total THEN next ELSE phase

\* Mutant: a wrong byte is not counted.
Match_none(b) == IF b # Header[count + 1] THEN 0 ELSE count + 1

\* The search for the header: any wrong byte counts as its first byte.
Match(b) == IF b # Header[count + 1] THEN 1 ELSE count + 1

ReadHeader ==
    /\ uart_read("header")
    /\ Advance(Match(Head(line)), Len(Header), "size")
    /\ echo' = Append(echo, Head(line))
    /\ UNCHANGED <<img_size, kernel>>

\* Mutant: little endian.
Shifted_little(b) == img_size + b * Base ^ count

\* img_size <<= 8, then |= b
Shifted(b) == img_size * Base + b

ReadSize ==
    /\ uart_read("size")
    /\ img_size' = Shifted(Head(line))
    /\ Advance(count + 1, SizeBytes, IF img_size' = 0 THEN "run" ELSE "image")
    /\ UNCHANGED <<echo, kernel>>

ReadImage ==
    /\ uart_read("image")
    /\ kernel' = Append(kernel, Head(line))
    /\ echo' = Append(echo, Head(line))
    /\ Advance(count + 1, img_size, "run")
    /\ UNCHANGED img_size

-----------------------------------------------------------------------------
(* The line                                                                *)

\* A byte is damaged or lost.
Fault(carrier) ==
    /\ faults < MaxFaults /\ carrier # <<>> /\ phase \in FaultIn
    /\ carrier' \in {Tail(carrier)} \cup {[carrier EXCEPT ![1] = b] : b \in Garbage \ {Head(carrier)}}
    /\ faults' = faults + 1
    /\ UNCHANGED <<hostVars, devVars>>

LoaderNext ==
    \/ SendByte \/ CheckEcho \/ SendSize \/ Restart
    \/ ReadHeader \/ ReadSize \/ ReadImage
    \/ Fault(line) /\ UNCHANGED echo
    \/ Fault(echo) /\ UNCHANGED line

\* Both programs run, bytes that are not lost arrive, and the user does not
\* give up.
LoaderSpec ==
    /\ LoaderInit /\ [][LoaderNext]_loaderVars
    /\ WF_loaderVars(SendByte) /\ WF_loaderVars(CheckEcho) /\ WF_loaderVars(SendSize) /\ WF_loaderVars(Restart)
    /\ WF_loaderVars(ReadHeader) /\ WF_loaderVars(ReadSize) /\ WF_loaderVars(ReadImage)

-----------------------------------------------------------------------------
(* Properties.                                                             *)

\* The loader only ever runs the image that was sent, although it takes a
\* header for one whose first byte was damaged, and a restarted host sends
\* its header into a loader that has seen part of one.
BootsImage == phase = "run" => kernel = image

\* After any number of bytes damaged or lost in either direction before the
\* loader has seen the header, the loader and a restarted host get in step
\* again, and the image is run.
EventuallyBoots == <>(phase = "run" /\ host = "done")

=============================================================================
