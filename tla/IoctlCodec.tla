----------------------------- MODULE IoctlCodec -----------------------------
(***************************************************************************)
(* The text that the Go client (pkg/client/client.go) and the module's     *)
(* endpoint (dysk_mount, dysk_unmount, dysk_get, dysk_list of dysk_bdd.c)  *)
(* exchange.  A call is an ioctl on one buffer of MAX_IN_OUT bytes: the    *)
(* client writes a request into it, the module writes its reply over it,   *)
(* without a zero at the end, and the client reads the whole buffer.       *)
(*                                                                         *)
(* A handler is one step here; what processes do to each other inside the  *)
(* endpoint is DyskBdd's.  Between two calls a dysk may fail and be        *)
(* deleted.  A reply that does not fit into the module's own buffer of     *)
(* MAX_IN_OUT bytes is written all the same; what then happens is undefined, *)
(* and the model stops (call.at = "overrun").                              *)
(***************************************************************************)
EXTENDS DyskUtils, FiniteSets, FiniteSetsExt, SequencesExt

CONSTANTS
  Wanted,      \* the dysks a user may ask for
  Names,       \* names a user may unmount and get
  Room,        \* the module's array for each field; the client's limit too
  MAX_IN_OUT,
  Minors,      \* the numbers of the devices, in their order, as text
  MaxListed    \* bound: dysks mounted at a time

RequestFields ==
  <<"type", "name", "sectors", "account", "sas", "path", "host", "ip", "lease", "vhd">>
ReplyFields == SubSeq(RequestFields, 1, 9) \o <<"major", "minor", "vhd">>

Text == Seq(STRING)

ASSUME CodecParametersAssumption ==
  /\ Wanted \subseteq [ToSet(RequestFields) -> Text]
  /\ Names \subseteq Text
  /\ Room \in [ToSet(RequestFields) -> Nat \ {0}] /\ Room["type"] > 1
  /\ Minors \in Seq(Text) /\ MaxListed \in 0..Len(Minors)
  /\ MAX_IN_OUT \in Nat /\ MAX_IN_OUT > 2
  /\ MAX_IN_OUT > Room["name"] + 5  \* room for every message of an error

VARIABLES
  dysks,   \* the module's list, the newest first; history: the dysk each was
           \* asked for as
  buffer,  \* the client's
  call,    \* the call the client is in, its argument, and who has it
  names,   \* List: names it has still to get
  answer,  \* what the client ends with, and the text of its error
  said     \* history: the module's last message

codecVars == <<dysks, buffer, call, names, answer, said>>

NL   == <<"nl">>
OK   == <<"OK", "nl">>
ERR  == <<"ERR", "nl">>
Nothing == [kind |-> "nothing", text |-> <<>>]
Done    == [kind |-> "done", text |-> <<>>]
Idle    == [op |-> "idle", of |-> <<>>, at |-> "client"]
NextGet == [op |-> "next", of |-> <<>>, at |-> "client"]

Lines(fields, d) == FlattenSeq([i \in 1..Len(fields) |-> d[fields[i]] \o NL])

-----------------------------------------------------------------------------
(***************************************************************************)
(* The client's side.                                                      *)
(***************************************************************************)
\* validateDysk: the limits are the sizes of the module's arrays.  It looks
\* neither at the signature it sends in place of the account's key nor at the
\* host, which it makes after it checked the one it was given.
Checked == {"name", "account", "path"}

validateDysk(d) ==
  /\ \A f \in Checked : Len(d[f]) \in 1..Room[f]
  /\ d.type = <<"R", "W">> => Len(d.lease) \in 1..Room["lease"]

\* dysk2string.
dysk2string(d) == Lines(RequestFields, d)

\* bufferize: it cannot make a negative padding.
Fits(text) == Len(text) <= MAX_IN_OUT
bufferize(text) == text \o [i \in 1..(MAX_IN_OUT - Len(text)) |-> "nul"]

\* strings.Index and strings.Split at the line feeds.
FirstBreak(text) == CHOOSE i \in DOMAIN text : text[i] = "nl" /\ \A j \in 1..(i - 1) : text[j] # "nl"

SplitLines(text) ==
  LET breaks  == {i \in DOMAIN text : text[i] = "nl"}
      starts  == {1} \cup {i + 1 : i \in breaks}
      nth(k)  == CHOOSE i \in starts : Cardinality({j \in starts : j < i}) = k - 1
      last(i) == CHOOSE e \in {j - 1 : j \in breaks} \cup {Len(text)} :
                   e >= i - 1 /\ \A j \in breaks : j >= i => e < j
  IN
  [k \in 1..Cardinality(starts) |-> SubSeq(text, nth(k), last(nth(k)))]

parseResponse(buf) ==
  LET i == FirstBreak(buf) IN
  [is_error |-> SubSeq(buf, 1, i) = ERR, response |-> SubSeq(buf, i + 1, Len(buf))]

string2dysk(text) ==
  LET split == SplitLines(text) IN
  [type |-> split[1], name |-> split[2], sectors |-> split[3], account |-> split[4],
   sas |-> split[5], path |-> split[6], host |-> split[7], ip |-> split[8],
   lease |-> split[9], major |-> split[10], minor |-> split[11], vhd |-> split[12]]

-----------------------------------------------------------------------------
(***************************************************************************)
(* The module's side.                                                      *)
(***************************************************************************)
IsDigits(text) == text # <<>> /\ \A i \in DOMAIN text : text[i] \in {"0", "1", "2", "9"}

\* The types of the client's fields: a type is one of two (validateDysk), sectors
\* and vhd are numbers (dysk2string).  And that no text has a line feed, which
\* neither side looks for: a user keeps to it, and the kernel's numbers do.
ASSUME PlainRequestsAssumption ==
  /\ \A d \in Wanted :
       /\ d.type \in {<<"R">>, <<"R", "W">>}
       /\ IsDigits(d.sectors) /\ IsDigits(d.vhd) /\ Len(d.vhd) = 1
       /\ \A f \in ToSet(RequestFields) : "nl" \notin ToSet(d[f])
  /\ \A text \in Names \cup ToSet(Minors) : "nl" \notin ToSet(text)

\* Where each field starts; -1 behind one whose end was not found.
Starts(buf) ==
  LET start[i \in 1..11] ==
        IF i = 1 THEN 0
        ELSE LET from == start[i - 1]
                 cut  == get_until(buf, from, NL, Room[RequestFields[i - 1]])
             IN IF from = -1 \/ cut = -1 THEN -1 ELSE from + cut + 1
  IN start

Field(buf, i) ==
  LET start == Starts(buf) IN Line(buf, start[i], start[i + 1] - start[i] - 1)

\* dysk_def_from_buffer: the field it cannot determine, and the dysk_def.
Undetermined(buf) ==
  {i \in 1..10 : \/ Starts(buf)[i] # -1 /\ Starts(buf)[i + 1] = -1
                 \/ Starts(buf)[i + 1] # -1 /\ RequestFields[i] \in {"sectors", "vhd"}
                      /\ ~IsDigits(Field(buf, i))}

dysk_def_from_buffer(buf) ==
  [f \in ToSet(RequestFields) |->
     LET text == Field(buf, CHOOSE i \in 1..10 : RequestFields[i] = f) IN
     CASE f = "type" -> IF IsPrefix(<<"R", "W">>, text) THEN <<"R", "W">> ELSE <<"R">>
       [] f = "vhd"  -> SubSeq(text, 1, 1)
       [] OTHER      -> text]

SwappedFields == <<"type", "name", "sectors", "account", "sas", "path", "ip", "host", "lease",
                   "major", "minor", "vhd">>

dysk_def_to_buffer_swapped(d) == Lines(SwappedFields, d)

dysk_def_to_buffer(d) == Lines(ReplyFields, d)

dysk_exist_prefix(name) == {i \in DOMAIN dysks : IsPrefix(name, dysks[i].def.name)}

dysk_exist(name) == {i \in DOMAIN dysks : dysks[i].def.name = name}

\* What sprintf() writes into a buffer ends with a zero.
FitsWithZero(out) == Len(out) < MAX_IN_OUT

\* copy_to_user of strlen(out) bytes, which leaves the rest of the request.
Reply(out) ==
  /\ \/ /\ FitsWithZero(out)
        /\ buffer' = out \o SubSeq(buffer, Len(out) + 1, MAX_IN_OUT)
        /\ said' = SubSeq(out, FirstBreak(out) + 1, Len(out))
        /\ call' = [call EXCEPT !.at = "client"]
     \/ /\ ~FitsWithZero(out)
        /\ call' = [call EXCEPT !.at = "overrun"]
        /\ UNCHANGED <<buffer, said>>
  /\ UNCHANGED <<names, answer>>

InModule(op) == call.op = op /\ call.at = "module"

Cannot(i)    == ERR \o <<"Cannot", RequestFields[i]>>
Exists(name) == ERR \o <<"Failed", "mount">> \o name
NotAdded(name) == ERR \o <<"Failed", "mount">> \o name \o <<"errno">>
Unknown(name) == ERR \o <<"Failed", "to">> \o name \o <<"no", "such">>
NoMemoryFor(name) == ERR \o <<"No", "memory">> \o name

MountRefused ==
  /\ InModule("mount")
  /\ LET bad == Undetermined(buffer) IN
     \/ /\ bad # {}
        /\ Reply(Cannot(CHOOSE i \in bad : \A j \in bad : i <= j))
     \/ /\ bad = {}
        /\ LET name == dysk_def_from_buffer(buffer).name IN
             dysk_exist(name) # {} /\ Reply(Exists(name))
  /\ UNCHANGED dysks

\* az_init_for_dysk() or io_hook() fails: no memory, or no slot.
MountFails ==
  /\ InModule("mount")
  /\ Undetermined(buffer) = {}
  /\ LET name == dysk_def_from_buffer(buffer).name IN
       dysk_exist(name) = {} /\ Reply(NotAdded(name))
  /\ UNCHANGED dysks

\* The dysk_def gets the numbers of its device: the first one that is free.
FreeMinors == {k \in DOMAIN Minors : Minors[k] \notin {dysks[i].def.minor : i \in DOMAIN dysks}}

Mounted ==
  LET dd == dysk_def_from_buffer(buffer) IN
  [f \in ToSet(ReplyFields) |->
     CASE f = "major" -> <<"9">>
       [] f = "minor" -> Minors[CHOOSE k \in FreeMinors : \A j \in FreeMinors : k <= j]
       [] OTHER       -> dd[f]]

\* The reply has two more fields than the request.
MountAccepted ==
  /\ InModule("mount")
  /\ Len(dysks) < MaxListed /\ FreeMinors # {}
  /\ Undetermined(buffer) = {}
  /\ dysk_exist(Mounted.name) = {}
  /\ dysks' = <<[def |-> Mounted, asked |-> call.of]>> \o dysks
  /\ Reply(OK \o dysk_def_to_buffer(Mounted))

\* dysk_unmount and dysk_get: the name is the first line.
NameOf(buf) == Line(buf, 0, get_until(buf, 0, NL, Room["name"]))

\* A handler returns a negative number, and the client ends with it.
Errno ==
  /\ answer' = [Nothing EXCEPT !.kind = "errno"]
  /\ call' = Idle
  /\ buffer' = bufferize(<<>>) /\ names' = <<>>
  /\ UNCHANGED <<dysks, said>>

NameTooLong ==
  /\ InModule("unmount") \/ InModule("get")
  /\ get_until(buffer, 0, NL, Room["name"]) = -1
  /\ Errno

\* Any handler may find no memory for its buffers.
NoMemory == call.at = "module" /\ Errno

NoSuchDysk ==
  /\ InModule("unmount") \/ InModule("get")
  /\ get_until(buffer, 0, NL, Room["name"]) # -1
  /\ dysk_exist(NameOf(buffer)) = {}
  /\ Reply(Unknown(NameOf(buffer)))
  /\ UNCHANGED dysks

\* dysk_del() has no memory for its state; it does not look for the dysk.
NotDeleted ==
  /\ InModule("unmount")
  /\ get_until(buffer, 0, NL, Room["name"]) # -1
  /\ Reply(NoMemoryFor(NameOf(buffer)))
  /\ UNCHANGED dysks

DyskUnmount ==
  /\ InModule("unmount")
  /\ get_until(buffer, 0, NL, Room["name"]) # -1
  /\ \E i \in dysk_exist(NameOf(buffer)) : dysks' = RemoveAt(dysks, i)
  /\ Reply(OK)

DyskGet ==
  /\ InModule("get")
  /\ get_until(buffer, 0, NL, Room["name"]) # -1
  /\ \E i \in dysk_exist(NameOf(buffer)) : Reply(OK \o dysk_def_to_buffer(dysks[i].def))
  /\ UNCHANGED dysks

\* The names of the first k dysks.
NamesOf(k) == FlattenSeq([i \in 1..k |-> dysks[i].def.name \o NL])

\* As many names as there is room for.
Listed ==
  NamesOf(Max({k \in 0..Len(dysks) : Len(OK \o NamesOf(k)) <= MAX_IN_OUT - 1}))

DyskList ==
  /\ InModule("list")
  /\ Reply(OK \o Listed)
  /\ UNCHANGED dysks

\* A dysk fails and the worker deletes it.
Catastrophe ==
  /\ call.at # "overrun"
  /\ \E i \in DOMAIN dysks : dysks' = RemoveAt(dysks, i)
  /\ UNCHANGED <<buffer, call, names, answer, said>>

-----------------------------------------------------------------------------
(***************************************************************************)
(* The client's commands.                                                  *)
(***************************************************************************)
Call(op, of, text) ==
  /\ buffer' = bufferize(text)
  /\ call' = [op |-> op, of |-> of, at |-> "module"]
  /\ said' = <<>>

CallMount ==
  /\ call = Idle
  /\ \E d \in Wanted :
       /\ validateDysk(d)
       /\ Fits(dysk2string(d))
       /\ Call("mount", d, dysk2string(d))
  /\ answer' = Nothing
  /\ UNCHANGED <<dysks, names>>

CallByName ==
  /\ call = Idle
  /\ \E op \in {"unmount", "get"}, name \in Names :
       Fits(name \o NL) /\ Call(op, name, name \o NL)
  /\ answer' = Nothing /\ names' = <<>>
  /\ UNCHANGED dysks

CallList ==
  /\ call = Idle
  /\ Call("list", <<>>, <<"-">>)
  /\ answer' = Nothing
  /\ UNCHANGED <<dysks, names>>

\* The buffer is the call's own.
Returns(op) ==
  /\ call.op = op /\ call.at = "client"
  /\ buffer' = bufferize(<<>>)
  /\ UNCHANGED <<dysks, said>>

Failed ==
  /\ answer' = [kind |-> "error", text |-> parseResponse(buffer).response]
  /\ call' = Idle
  /\ names' = <<>>

CallFails ==
  /\ \E op \in {"mount", "unmount", "get", "list"} : Returns(op)
  /\ parseResponse(buffer).is_error
  /\ Failed

\* A call that gave a dysk; List then gets the next name of those it has.
DyskReturns ==
  /\ Returns("mount") \/ Returns("get")
  /\ ~parseResponse(buffer).is_error
  /\ answer' = Done
  /\ call' = IF names = <<>> THEN Idle ELSE NextGet
  /\ UNCHANGED names

UnmountReturns ==
  /\ Returns("unmount")
  /\ ~parseResponse(buffer).is_error
  /\ answer' = Done
  /\ call' = Idle
  /\ UNCHANGED names

\* What follows the last line feed is not a name.
ListReturns ==
  /\ Returns("list")
  /\ ~parseResponse(buffer).is_error
  /\ names' = Front(SplitLines(parseResponse(buffer).response))
  /\ answer' = Done
  /\ call' = IF names' = <<>> THEN Idle ELSE NextGet

GetNext ==
  /\ call.op = "next"
  /\ Call("get", Head(names), Head(names) \o NL)
  /\ names' = Tail(names)
  /\ UNCHANGED <<dysks, answer>>

-----------------------------------------------------------------------------
CodecInit ==
  /\ dysks = <<>>
  /\ buffer = bufferize(<<>>)
  /\ call = Idle /\ names = <<>>
  /\ answer = Nothing /\ said = <<>>

ClientStep ==
  \/ CallMount \/ CallByName \/ CallList \/ GetNext
  \/ CallFails \/ DyskReturns \/ UnmountReturns \/ ListReturns

ModuleStep ==
  \/ MountRefused \/ MountFails \/ MountAccepted
  \/ NoMemory \/ NameTooLong \/ NoSuchDysk
  \/ NotDeleted \/ DyskUnmount \/ DyskGet \/ DyskList \/ Catastrophe

CodecNext == ClientStep \/ ModuleStep

CodecSpec == CodecInit /\ [][CodecNext]_codecVars

-----------------------------------------------------------------------------
(***************************************************************************)
(* Properties                                                              *)
(***************************************************************************)
AsAsked(d) == [f \in ToSet(RequestFields) |-> d[f]]

\* The module answers a call.
Replied(op) == InModule(op) /\ call'.op = op /\ call'.at = "client"

\* Only the reply to a mount can be longer than the buffer it is written to:
\* what does not overrun it then does not when it is asked for later, a list
\* ends before the zero behind it, and a name is cut before it is put into a
\* message (dysk_get, dysk_list 693-704, dysk_unmount).
OnlyMountsOverrun == call.at = "overrun" => call.op = "mount"

\* The types; every text of a dysk_def ends inside its array
\* (dysk_def_from_buffer), and so does every reply in the module's buffer, but
\* for the one to a mount.
CodecTypeOK ==
  /\ Len(dysks) <= MaxListed
  /\ \A i \in DOMAIN dysks : \A f \in ToSet(RequestFields) : Len(dysks[i].def[f]) < Room[f]
  /\ Len(buffer) = MAX_IN_OUT
  /\ answer.kind \in {"nothing", "done", "error", "errno"}
  /\ OnlyMountsOverrun

\* Whatever was mounted, failed and mounted again before: what the client
\* reads as the dysk it mounted or asked for is in every field the one that a
\* user asked for by that name.  The request and the reply have different
\* fields, and each side has its own list of them (dysk2string,
\* dysk_def_from_buffer, dysk_def_to_buffer, string2dysk).
AnswersAsAsked ==
  [][((Replied("mount") \/ Replied("get")) /\ ~parseResponse(buffer').is_error)
       => LET read == AsAsked(string2dysk(parseResponse(buffer').response)) IN
          IF call.op = "mount" THEN read = call.of
          ELSE \E i \in DOMAIN dysks : dysks[i].asked = read /\ read.name = call.of]_codecVars

\* A dysk the client found valid is refused only for a name that exists, for
\* a text that leaves no room for the zero behind it, or by the kernel, which
\* the message then says (validateDysk, dysk_def_from_buffer, dysk_add).
RefusalsExplained ==
  [][(Replied("mount") /\ parseResponse(buffer').is_error)
       => \/ \E i \in DOMAIN dysks : dysks[i].def.name = call.of.name
          \/ "errno" \in ToSet(said')
          \/ \E f \in ToSet(RequestFields) : Len(call.of[f]) >= Room[f]]_codecVars

\* The lines of a list are taken by the client for names: they are those of
\* the newest dysks, whole and in order, whatever the buffer held before, and
\* of all the dysks when their names fit (dysk_list 693-704, List).
ListShowsDysks ==
  [][Replied("list")
       => LET read == Front(SplitLines(parseResponse(buffer').response))
              n == Len(read)
          IN
          /\ n <= Len(dysks) /\ \A i \in 1..n : read[i] = dysks[i].def.name
          /\ FitsWithZero(OK \o NamesOf(Len(dysks))) => n = Len(dysks)]_codecVars

(***************************************************************************)
(* What the documentation says and the code does not do.                   *)
(***************************************************************************)
\* module/ioctl_cmds.md:7 "All responses are max 2048 bytes including a null
\* terminator": what the client takes for the message of an error is what the
\* module said.
ErrorIsMessage ==
  answer.kind = "error" => SubSeq(answer.text, 1, StrLen(answer.text)) = said
=============================================================================
