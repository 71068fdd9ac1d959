--------------------------- MODULE MCMeetingPlanning ---------------------------
EXTENDS MeetingPlanning

CONSTANTS sam, lee, roy, u1, u2

Day(when, n) == [when |-> when, n |-> n]

Note == [promises |-> FALSE, asks |-> FALSE, due |-> NoPhrase, topic |-> "GENERAL_TASK", pull |-> 0,
         long |-> FALSE]
Offer == [Note EXCEPT !.promises = TRUE, !.due = Day("weekday", 2), !.topic = "TECHNICAL_TASK"]
ReviewOffer == [Note EXCEPT !.promises = TRUE, !.topic = "REVIEW_REQUEST", !.pull = 7]
Speech == [Offer EXCEPT !.due = NoPhrase, !.long = TRUE]
Question == [Note EXCEPT !.asks = TRUE]

Line(form, who, says) == [form |-> form, who |-> who, says |-> says]

MCLines == {
  Line("blank", NoName, Note),
  Line("stamp", <<sam, lee>>, Note),
  Line("spoken", <<sam>>, Offer),
  Line("spoken", <<sam, roy>>, ReviewOffer),
  Line("plain", NoName, Question),
  Line("label", NoName, Offer)}

MCTranscripts == 
  UNION {[1..n -> MCLines] : n \in 0..2}
    \cup {t \in [1..3 -> MCLines] : t[2].form \in {"blank", "stamp"} /\ t[1].form # "blank"}
    \cup {<<Line("spoken", <<sam>>, Speech)>>}

Item(owner, due, category, pull, refs) ==
  [owner |-> owner, due |-> due, category |-> category, pull |-> pull, refs |-> refs,
   title |-> "fits", description |-> "given"]

Said(when, n) == [by |-> FALSE, of |-> Day(when, n)]

MCAnswers == {
  [decisions |-> {}, items |-> <<>>],
  [decisions |-> {1},
   items |-> <<Item(<<sam>>, Said("next weekday", 3), "TECHNICAL_TASK", 0, {1})>>],
  [decisions |-> {}, items |-> <<Item(<<sam, lee>>, Said("weekday", 1), "REVIEW_REQUEST", 7, {}),
                                 Item(NoName, Said("in days", 9), "GENERAL_TASK", 0, {1, 2})>>],
  [decisions |-> {}, items |-> <<Item(<<lee>>, Said("some time", 0), "REVIEW_REQUEST", 0, {1})>>],
  [decisions |-> {}, items |-> <<[Item(<<roy>>, NoPhrase, "TECHNICAL_TASK", 0, {1})
                                    EXCEPT !.title = "long", !.description = "empty"]>>]}

(* What a client may send: drafts of its own, for members and turns that   *)
(* are not there, with destinations twice, with texts that are no dates.   *)
Mine == [owner |-> <<sam>>, category |-> "TECHNICAL_TASK", refs |-> {1}, member |-> 1,
         identity |-> "resolved", due |-> NoPhrase, date |-> NoDate, to |-> <<"notion", "github">>,
         labels |-> {"bug", "mine"}, pull |-> 0, title |-> "fits", description |-> "given"]
Review(member, pull) == [Mine EXCEPT !.category = "REVIEW_REQUEST", !.member = member,
                                     !.to = <<"github">>, !.pull = pull]

MCSent == {
  <<>>,
  <<Mine>>,
  <<[Mine EXCEPT !.to = <<"notion", "github", "notion">>, !.date = 5, !.refs = {9}]>>,
  <<[Mine EXCEPT !.to = <<"github", "github">>, !.member = 9, !.category = "WHATEVER"],
    [Mine EXCEPT !.member = 2, !.owner = NoName, !.description = "empty"]>>,
  <<Review(2, 7), [Mine EXCEPT !.to = <<>>]>>,
  <<Review(1, 0 - 1), Mine>>,
  <<Mine, [Mine EXCEPT !.date = Unreadable]>>,
  <<[Mine EXCEPT !.title = "empty", !.member = NoMember]>>}

Person(name, github) == [name |-> name, github |-> github]

MCPersons == {Person(<<sam, lee>>, u1), Person(<<sam, roy>>, u2), Person(<<sam>>, NoLogin)}

MCRosters == {
  [m \in MemberIds |-> IF m = 1 THEN Person(<<sam, lee>>, u1) ELSE Person(<<sam, roy>>, u2)],
  [m \in MemberIds |-> IF m = 1 THEN Person(<<sam, lee>>, u1) ELSE NoMember]}

MCSchemas == {
  [description |-> "missing", owner |-> "fits", deadline |-> "other", status |-> "fits"],
  [description |-> "fits", owner |-> "missing", deadline |-> "fits", status |-> "other"]}
================================================================================
