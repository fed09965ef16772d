------------------------------- MODULE Records -------------------------------
(****************************************************************************)
(* What the screen service remembers of boxes and phones: the rows of play  *)
(* histories and marks, the row of a box, and the command a box has not yet *)
(* taken (src/lib_src2/screen, used by src/src/trs and src/src/foss).  Each *)
(* goes through four lists of names: the fields of a request, the columns   *)
(* of an insert, the columns of a select with the arguments of a            *)
(* constructor, and the fields of an answer.                                *)
(*                                                                          *)
(* The value of a field is its name with the version of the request, so     *)
(* that a value in a wrong place shows.  The tables are external: "replace  *)
(* into" replaces the row with the same two first columns (the ones that    *)
(* the updates name), and the parts of a request are not interrupted.       *)
(****************************************************************************)
EXTENDS Naturals, Sequences, FiniteSets

CONSTANTS
  None,     \* NULL
  Whos,     \* ids of boxes, users and phones, numbers of phones
  Items,    \* media ids and screen codes
  Versions, \* what else a request says
  Lacking,  \* bound: which of the other fields a request may lack
  MaxRows   \* bound: rows in the tables

VARIABLES
  rows,    \* tables phone_playhistory, phone_mark, stb_playhistory, stb_mark
  asked,   \* what the request said that wrote a row
  sinfo,   \* stb->sinfo of the box
  command, \* the command it was made from
  stb,     \* the box in the memory of the TRS (stbdev_t)
  foss     \* its row of table foss

vars == <<rows, asked, sinfo, command, stb, foss>>

Kinds == {"phonePlay", "phoneMark", "stbPlay", "stbMark"}
OfPhone == {"phonePlay", "phoneMark"}

\* calloc gives NULL and 0; printf writes NULL as a text.
Texts == {"phoneid", "media_id", "mobile", "title", "stb_id", "user_id", "screencode"}
Printed(m, v) ==
  IF v # None THEN v ELSE IF m \in Texts THEN <<"(null)">> ELSE <<"0">>

IndexOf(s, x) == CHOOSE i \in DOMAIN s : s[i] = x
Elements(s) == {s[i] : i \in DOMAIN s}

------------------------------------------------------------------------------
(* The lists of names *)

PhoneFields == {"phoneid", "mobile", "media_id", "title", "metatype", "serial",
                "totaltime", "playsecond"}
StbFields == {"stbid", "uid", "mobile", "screenCode", "metatype", "serial",
              "totaltime", "playsecond", "id"}

\* stb_playhistory_create: the member of each field.
StbMembers == {"stb_id", "user_id", "mobile", "screencode", "metatype", "serial",
               "totaltime", "playsecond", "id", "addtime"}
StbField(m) ==
  CASE m = "stb_id" -> "stbid" [] m = "user_id" -> "uid"
    [] m = "screencode" -> "screenCode" [] OTHER -> m

\* phone_playhistory_create: phoneid is taken from the field that was looked up last.
PhoneMembers == PhoneFields \cup {"addtime"}
PhoneField(m) == IF m = "phoneid" THEN "mobile" ELSE m

\* The requests set addtime to the time of the day.  The member mobile of a phone
\* points into the body, which is freed.
Create(kind, body) ==
  LET field(m) == IF kind \in OfPhone THEN PhoneField(m) ELSE StbField(m)
  IN  [m \in IF kind \in OfPhone THEN PhoneMembers ELSE StbMembers |->
         IF m = "addtime" THEN <<"now">>
         ELSE IF m = "mobile" /\ kind \in OfPhone THEN <<"freed">>
         ELSE IF field(m) \in DOMAIN body THEN body[field(m)] ELSE None]

\* The columns of an insert, and the members printed for them.
Columns(kind) ==
  CASE kind = "phonePlay" -> <<"phoneid", "media_id", "mobile", "metatype", "title",
                               "addtime", "totaltime", "serial", "playsecond">>
    [] kind = "phoneMark" -> <<"phoneid", "media_id", "metatype", "title", "addtime",
                               "totaltime", "serial", "mobile">>
    [] kind = "stbPlay" -> <<"stb_id", "user_id", "mobile", "screencode", "metatype",
                             "addtime", "totaltime", "serial", "playsecond">>
    [] kind = "stbMark" -> <<"stb_id", "user_id", "screencode", "metatype", "addtime",
                             "totaltime", "serial">>

\* Faulty variant of Arguments: two arguments of a printf are swapped.
ArgumentsSwapped(kind) ==
  IF kind = "phonePlay"
    THEN <<"phoneid", "media_id", "mobile", "metatype", "title",
           "addtime", "serial", "totaltime", "playsecond">>
    ELSE Columns(kind)

Arguments(kind) == Columns(kind)

Insert(kind, obj) ==
  [c \in Elements(Columns(kind)) |->
     LET m == Arguments(kind)[IndexOf(Columns(kind), c)] IN Printed(m, obj[m])]

\* The columns of a select, and the members that the constructor behind it fills.
\* ps_get_work reads the rows of a play history with the parser of marks.
Selected(kind) ==
  CASE kind = "phonePlay" -> <<"phoneid", "media_id", "mobile", "metatype", "title",
                               "addtime", "playsecond", "totaltime", "serial">>
    [] kind = "phoneMark" -> <<"phoneid", "media_id", "mobile", "metatype", "title",
                               "addtime", "totaltime", "serial">>
    [] kind = "stbPlay" -> <<"stb_id", "user_id", "metatype", "screencode", "addtime",
                             "playsecond", "totaltime", "serial">>
    [] kind = "stbMark" -> <<"stb_id", "user_id", "metatype", "screencode", "addtime",
                             "totaltime", "serial">>

Parsed(kind) == IF kind = "stbPlay" THEN Selected("stbMark") ELSE Selected(kind)

Parse(kind, row) ==
  [m \in (IF kind \in OfPhone THEN PhoneMembers ELSE StbMembers) |->
     IF m \in Elements(Parsed(kind))
       THEN row[Selected(kind)[IndexOf(Parsed(kind), m)]] ELSE None]

\* The fields of the answer, with the members behind them.
Listed(kind) ==
  CASE kind = "phonePlay" -> {"phoneid", "media_id", "metatype", "addtime", "playsecond",
                              "totaltime", "serial", "title"}
    [] kind = "phoneMark" -> {"phoneid", "media_id", "metatype", "addtime",
                              "totaltime", "serial", "title"}
    [] OTHER -> {"user_id", "screencode", "metatype", "addtime", "totaltime", "serial",
                 "title"}

Lists(kind, row) ==
  LET obj == Parse(kind, row)
  IN  [n \in Listed(kind) |->
         IF kind \notin OfPhone /\ n = "title" THEN Printed("id", obj["id"]) ELSE obj[n]]

------------------------------------------------------------------------------
(* Play histories and marks *)

\* A request: who and what it is about, and other fields, of which it may lack some.
Bodies(kind) ==
  LET fields == IF kind \in OfPhone THEN PhoneFields ELSE StbFields
      about(f, w, u, i, v) ==
        CASE f \in {"phoneid", "stbid"} -> w
          [] f \in {"mobile", "uid"} -> u
          [] f \in {"media_id", "screenCode"} -> i
          [] OTHER -> <<f, v>>
  IN  {[f \in fields \ lack |-> about(f, w, u, i, v)] :
         w \in Whos, u \in Whos, i \in Items, v \in Versions, lack \in Lacking}

\* The row that an insert replaces.
Key(kind, row) ==
  IF kind \in OfPhone THEN <<row["phoneid"], row["media_id"]>>
    ELSE <<row["stb_id"], row["screencode"]>>

Init ==
  /\ rows = [k \in Kinds |-> [x \in Whos \X Items |-> None]]
  /\ asked = rows
  /\ sinfo = None /\ command = None
  /\ stb = None /\ foss = None

Writes(kind, obj, body) ==
  LET row == Insert(kind, obj)
  IN  /\ \/ rows[kind][Key(kind, row)] # None
         \/ Cardinality({y \in Kinds \X Whos \X Items : rows[y[1]][<<y[2], y[3]>>] # None}) < MaxRows
      /\ rows' = [rows EXCEPT ![kind][Key(kind, row)] = row]
      /\ asked' = [asked EXCEPT ![kind][Key(kind, row)] = body]

\* The adds of boxes.
StbAdd ==
  \E kind \in Kinds \ OfPhone : \E body \in Bodies(kind) :
    /\ Writes(kind, Create(kind, body), body)
    /\ UNCHANGED <<sinfo, command, stb, foss>>

StbColumns == <<"stbid", "version", "StbModel", "StbCom", "StbMac", "StbUserId",
                "StbVolume", "tr_peer">>

\* The TRS starts and loads its boxes: stb_findall and stb_parse.
Restarts ==
  /\ stb' = IF foss = None THEN None
              ELSE [m \in Elements(StbColumns) |->
                      IF m = "StbVolume" /\ foss[m] = None THEN <<"0">> ELSE foss[m]]
  /\ sinfo' = None /\ command' = None

\* The adds of phones.  What is printed for mobile is freed memory: it may be no
\* SQL (in a mark it is not even quoted), and it is freed a second time, which may
\* end the process.  Without the field mobile the process always ends.
PhoneAdd ==
  \E kind \in OfPhone : \E body \in Bodies(kind) :
    /\ \/ "mobile" \in DOMAIN body /\ Writes(kind, Create(kind, body), body)
       \/ UNCHANGED <<rows, asked>>
    /\ \/ "mobile" \in DOMAIN body /\ UNCHANGED <<sinfo, command, stb>>
       \/ Restarts
    /\ UNCHANGED foss

\* stb_playhistory_update and stb_mark_update (event.c): an element of the list that
\* the CMS sends becomes a row whose box is the user.
FromCms ==
  \E kind \in Kinds \ OfPhone, u \in Whos, i \in Items, v \in Versions :
    LET given == IF kind = "stbPlay" THEN {"metatype", "playsecond"} ELSE {}
        body  == [f \in {"stbid", "uid", "screenCode"} \cup given |->
                    CASE f \in {"stbid", "uid"} -> u [] f = "screenCode" -> i
                      [] OTHER -> <<f, v>>]
    IN  /\ Writes(kind, Create(kind, body), body)
        /\ UNCHANGED <<sinfo, command, stb, foss>>

\* stb_mark_delete deletes the marks of a box, phone_mark_delete one of a phone.
MarkDelete ==
  \E w \in Whos :
    LET gone(kind, some) ==
          /\ rows' = [rows EXCEPT ![kind] = [x \in DOMAIN @ |-> IF x \in some THEN None ELSE @[x]]]
          /\ asked' = [asked EXCEPT ![kind] = [x \in DOMAIN @ |-> IF x \in some THEN None ELSE @[x]]]
    IN  /\ \/ gone("stbMark", {w} \X Items)
           \/ \E i \in Items : gone("phoneMark", {<<w, i>>})
        /\ UNCHANGED <<sinfo, command, stb, foss>>

------------------------------------------------------------------------------
(* Screen commands *)

CommandFields == {"SDcontentid", "HDcontentid", "content", "name", "media_id",
                  "provider_id", "metaType", "serial", "time", "status", "screenCode",
                  "keycode", "delay", "totaltime", "phoneid", "mobile"}

\* scree_info_create: each field is a member; phone_screen: it replaces the last one,
\* and a key may set the volume.
PhoneScreen ==
  /\ stb # None
  /\ \E v \in Versions, lack \in {{}, {"mobile"}, {"time"}}, volume \in BOOLEAN :
       LET body == [f \in CommandFields \ lack |->
                      IF f = "keycode" /\ volume THEN <<"233">> ELSE <<f, v>>]
       IN  /\ sinfo' = [m \in CommandFields |-> IF m \in DOMAIN body THEN body[m] ELSE None]
           /\ command' = body
           /\ stb' = IF volume THEN [stb EXCEPT !["StbVolume"] = body["content"]] ELSE stb
  /\ UNCHANGED <<rows, asked, foss>>

Numbers == {"status", "time", "serial", "metaType", "keycode"}

\* Faulty variant of Told: the phone's id instead of its number.
ToldId(si) ==
  LET member == [f \in {"HDcontentid", "SDcontentid", "status", "time", "screenCode", "serial",
                        "metaType", "name", "media_id", "provider_id"} |-> f]
      remote == [remoteControlPhoneId |-> "phoneid", remoteControlKeycode |-> "keycode",
                 remoteControlUtc |-> "time", remoteControlContent |-> "content"]
      from(f) == IF f \in DOMAIN remote THEN remote[f] ELSE member[f]
  IN  [f \in {x \in DOMAIN member \cup DOMAIN remote :
                from(x) \in Numbers \/ si[from(x)] # None} |-> Printed(from(f), si[from(f)])]

\* stb_screen: the answer that the box gets.  A text that is NULL is left out.
Told(si) ==
  LET member == [f \in {"HDcontentid", "SDcontentid", "status", "time", "screenCode", "serial",
                        "metaType", "name", "media_id", "provider_id"} |-> f]
      remote == [remoteControlPhoneId |-> "mobile", remoteControlKeycode |-> "keycode",
                 remoteControlUtc |-> "time", remoteControlContent |-> "content"]
      from(f) == IF f \in DOMAIN remote THEN remote[f] ELSE member[f]
  IN  [f \in {x \in DOMAIN member \cup DOMAIN remote :
                from(x) \in Numbers \/ si[from(x)] # None} |-> Printed(from(f), si[from(f)])]

\* The box takes its command.
StbScreen ==
  /\ sinfo # None
  /\ sinfo' = None /\ command' = None
  /\ UNCHANGED <<rows, asked, stb, foss>>

------------------------------------------------------------------------------
(* Boxes *)

StbTexts == {"StbModel", "StbCom", "StbMac", "StbUserId"}
Shown(v) == IF v = None THEN <<"(null)">> ELSE v

\* stb_registry (FOSS): the other columns are NULL.
Registry ==
  /\ foss = None
  /\ foss' = [c \in Elements(StbColumns) |->
                IF c \in {"stbid", "tr_peer"} THEN <<c, 0>> ELSE None]
  /\ UNCHANGED <<rows, asked, sinfo, command, stb>>

\* stb_create2: members of a box from a body.
StbCreate2(body) ==
  [m \in Elements(StbColumns) |->
     CASE m = "stbid" -> <<"stbid", 0>>
       [] m \in StbTexts /\ m \in DOMAIN body -> body[m]
       [] m = "StbVolume" -> <<"0">>
       [] OTHER -> None]

\* Faulty variant of UpdateInfo: the arguments are in another order.
UpdateInfoSwapped(s) ==
  [foss EXCEPT !["StbModel"] = Shown(s["StbCom"]), !["StbCom"] = Shown(s["StbModel"]),
               !["StbMac"] = Shown(s["StbMac"]), !["StbUserId"] = Shown(s["StbUserId"]),
               !["StbVolume"] = s["StbVolume"]]

\* stb_update_info
UpdateInfo(s) ==
  [foss EXCEPT !["StbModel"] = Shown(s["StbModel"]), !["StbCom"] = Shown(s["StbCom"]),
               !["StbMac"] = Shown(s["StbMac"]), !["StbUserId"] = Shown(s["StbUserId"]),
               !["StbVolume"] = s["StbVolume"]]

\* /phone/bindStb: a box that the TRS does not know is made from the body; the FOSS
\* makes one from what the TRS tells it of the box, without the volume.
Bind ==
  \E v \in Versions, lack \in {{}, {"StbMac", "StbUserId"}} :
    LET s == IF stb # None THEN stb
               ELSE [StbCreate2([f \in StbTexts \ lack |-> <<f, v>>])
                       EXCEPT !["tr_peer"] = <<"tr_peer", 0>>]
        b == [f \in {t \in StbTexts : s[t] # None} |-> s[f]]
    IN  /\ stb' = s
        /\ \/ foss' = foss
           \/ foss # None /\ foss' = UpdateInfo(StbCreate2(b))
        /\ UNCHANGED <<rows, asked, sinfo, command>>

\* /stb/saveInfo: the volume is kept in memory.
SaveInfo ==
  /\ stb # None
  /\ \E v \in Versions : stb' = [stb EXCEPT !["StbVolume"] = <<"volume", v>>]
  /\ UNCHANGED <<rows, asked, sinfo, command, foss>>

\* /stb/switchuser, for the user the box has: stb_update_bystbid.
SwitchUser ==
  /\ stb # None /\ stb["StbUserId"] # None
  /\ foss # None
  /\ foss' = [UpdateInfo(stb) EXCEPT !["tr_peer"] = <<"tr_peer", 0>>]
  /\ UNCHANGED <<rows, asked, sinfo, command, stb>>

Load ==
  /\ Restarts
  /\ UNCHANGED <<rows, asked, foss>>

------------------------------------------------------------------------------
Next ==
  \/ StbAdd \/ PhoneAdd \/ FromCms \/ MarkDelete
  \/ PhoneScreen \/ StbScreen
  \/ Registry \/ Bind \/ SaveInfo \/ SwitchUser \/ Load

Spec == Init /\ [][Next]_vars

------------------------------------------------------------------------------
(* Properties *)

\* What a field of a list should say: what the request said of it.
Said(kind, body, n) ==
  LET f == IF kind \in OfPhone THEN n ELSE StbField(n)
  IN  IF n = "addtime" THEN <<"now">>
      ELSE IF f \in DOMAIN body THEN body[f] ELSE Printed(n, None)

\* The lists say what the request said that wrote the row, each value in its field.
\* Left out is what the code does not keep: the title of boxes, which no table has,
\* and totaltime and serial in a play history of a box, where ps_get_work finds
\* playsecond and totaltime.  Nor is the id of a phone: its number is in its place.
ListsAsSaid ==
  \A kind \in Kinds, x \in Whos \X Items :
    rows[kind][x] # None =>
      \A n \in Listed(kind) :
        \/ kind \notin OfPhone /\ n = "title"
        \/ kind = "stbPlay" /\ n \in {"totaltime", "serial"}
        \/ /\ kind \in OfPhone /\ n = "phoneid"
           /\ Lists(kind, rows[kind][x])[n] = Said(kind, asked[kind][x], "mobile")
        \/ Lists(kind, rows[kind][x])[n] = Said(kind, asked[kind][x], n)

\* A box is told the last command, and nothing of an earlier one.
ToldAsSaid ==
  sinfo # None =>
    LET wanted(f) ==
          CASE f = "remoteControlPhoneId" -> "mobile" [] f = "remoteControlKeycode" -> "keycode"
            [] f = "remoteControlUtc" -> "time" [] f = "remoteControlContent" -> "content"
            [] OTHER -> f
    IN  \A f \in DOMAIN Told(sinfo) :
          Told(sinfo)[f] = IF wanted(f) \in DOMAIN command THEN command[wanted(f)] ELSE <<"0">>

\* The row of a box says what its TRS has of it, or was not yet written; the volume
\* is the exception.
BoxAsSaid ==
  stb # None /\ foss # None =>
    \A f \in StbTexts : foss[f] \in {None, Shown(stb[f])}

RecordsKept == ListsAsSaid /\ ToldAsSaid /\ BoxAsSaid
==============================================================================
