----------------------------- MODULE Operations ------------------------------
(***************************************************************************)
(* The operations of the driver as trees of combinators, in the shape in   *)
(* which src/src/session.rs, src/src/protocol.rs and                       *)
(* src/src/rx/receiver.rs build them.  A combinator has a first part and,  *)
(* by the value that returns, a next one, which its continuation builds.   *)
(* `captured` was built ahead of it and moved into its continuation.       *)
(*                                                                         *)
(* A value is "Ok" or "Err", the Result of Rust; "Bad" is an Ok with a     *)
(* response that a later check refuses; "OkOk" and "OkErr" are a Result    *)
(* wrapped in Ok.                                                          *)
(***************************************************************************)
EXTENDS Naturals, Sequences

Value == {"Ok", "Bad", "Err", "OkOk", "OkErr"}

Ready(value) == [op |-> "Ready", value |-> value]
Transfer(id) == [op |-> "Transfer", id |-> id]

Map(first, to) == [op |-> "Map", first |-> first, to |-> to]
Either(first)  == [op |-> "Either", first |-> first]

\* and_then: an error needs no next part.  What captures nothing else captures
\* a value.
AndThen(first, next, captured) ==
  [op |-> "AndThen", first |-> first, next |-> next, captured |-> captured]

ContinueWith(first, next) == [op |-> "ContinueWith", first |-> first, next |-> next]

\* Commands that are left, and those after them.
RECURSIVE Sequence(_)
Sequence(commands) ==
  IF commands = <<>>
    THEN Ready("Ok")
    ELSE [op |-> "Sequence", first |-> Head(commands),
          next |-> [v \in Value |-> Sequence(Tail(commands))]]

Then(first, next) == AndThen(first, [v \in Value |-> next], Ready("Ok"))

\* Built at once, instead of when it is polled.
Control_Eager(id) == Transfer(id)

\* NusbTransport::control_in and control_out: defer(|| ...)
Control(id) == ContinueWith(Ready("Ok"), [v \in Value |-> Transfer(id)])

Same == [v \in Value |-> v]
Failed == [v \in Value |-> "Err"]
Wrapped == [v \in Value |-> IF v = "Err" THEN "OkErr" ELSE "OkOk"]

-----------------------------------------------------------------------------
\* The first result decides; both commands are sent.
ShutdownHardware ==
  AndThen(Map(Control("RxOff"), Wrapped),
          [v \in Value |-> Map(Control("BiasOff"), IF v = "OkErr" THEN Failed ELSE Same)],
          Control("BiasOff"))

\* Of a device that is still open and has no stream.
Shutdown == Then(Map(Ready("Ok"), Same), Either(Map(ShutdownHardware, Same)))

\* Session::apply, of a device that is open or not.
Apply(ensureOpen, commands) ==
  ContinueWith(Ready("Ok"),
               [v \in Value |-> Then(Ready(ensureOpen), Map(Sequence(commands), Same))])

\* A check of a response.
Checked(v) == Ready(IF v = "Bad" THEN "Err" ELSE "Ok")

Decoded == [v \in Value |-> IF v = "Ok" THEN "Ok" ELSE "Err"]

DeviceInfo ==
  AndThen(AndThen(Map(Control("BoardId"), Same),
                  [v \in Value |-> Then(Checked(v), Map(Control("Firmware"), Same))],
                  Control("Firmware")),
          [v \in Value |-> Map(Then(Checked(v), Control("Serial")), Decoded)],
          Control("Serial"))

\* Session::initialize
Initialize(commands) ==
  ContinueWith(Then(Map(DeviceInfo, Same), Map(Apply("Ok", commands), Same)),
               [v \in Value |-> Either(IF v = "Ok" THEN Ready("Ok") ELSE Map(Shutdown, Failed))])

\* Receiver::start_pipeline; prepare is Receiver's opening of the endpoint.
StartPipeline(fresh, prepare) ==
  ContinueWith(
    Then(Either(IF fresh THEN Control("RxOff") ELSE Ready("Ok")),
         Then(Ready(prepare),
              Then(Control("RxOn"),
                   Either(IF fresh THEN Transfer("ClearHalt") ELSE Ready("Ok"))))),
    [v \in Value |-> Either(IF v = "Ok" THEN Ready("Ok")
                                        ELSE Map(Control("RxOffAgain"), Failed))])

\* Receiver::start of a stream that is stopped.
Start(fresh, prepare) ==
  ContinueWith(Ready("Ok"),
               [v \in Value |-> Then(Ready("Ok"), Either(StartPipeline(fresh, prepare)))])

\* Two commands stand for the lists of a configuration.
Setters == <<Control("Setter1"), Control("Setter2")>>

Operation ==
  [open      |-> Initialize(Setters),
   update    |-> Apply("Ok", Setters),
   refused   |-> Apply("Err", Setters),
   shutdown  |-> Shutdown,
   start     |-> Start(TRUE, "Ok"),
   noBulk    |-> Start(TRUE, "Err"),
   restart   |-> Start(FALSE, "Ok")]

=============================================================================
