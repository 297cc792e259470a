---------------------------- MODULE MCCourseReg ----------------------------
(* Two students and an administrator; class sizes and times so that every   *)
(* check of a registration decides: 1 and 2 are one course, 1 and 3 clash,   *)
(* 1 and 4 are over the limit together.                                      *)
EXTENDS CourseReg

Kinds == << [course |-> "A", credits |-> 10, slot |-> 1],
            [course |-> "A", credits |-> 4,  slot |-> 2],
            [course |-> "B", credits |-> 6,  slot |-> 1],
            [course |-> "C", credits |-> 10, slot |-> 3] >>
People == <<1, 2, 0>>
Mix(ops, browsers, requests) == [ops |-> ops, browsers |-> browsers, requests |-> requests]
Terms  == { Mix({"register", "cancel", "grade", "edit"}, {1, 3}, 4),
            Mix({"register", "cancel", "resize"}, {1, 2, 3}, 3),
            Mix({"register", "grade"}, {1, 2, 3}, 4),
            Mix({"register", "open", "close", "grade"}, {1, 3}, 4),
            Mix({"register", "hope", "unhope", "close", "join"}, {1, 3}, 4) }
=============================================================================
