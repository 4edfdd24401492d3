------------------------------ MODULE MCThreads ------------------------------
(* Three messages and a fourth that is never seen.  They have one subject  *)
(* behind prefixes, counted or not, and blanks; or subjects that begin     *)
(* with a bracket that is no count, a count after the colon, and a word    *)
(* that is only like a prefix; or nothing but prefixes, and a sealed one.  *)
EXTENDS Threads, TLC

MCToken == {"Re", "re", "FWD", "aw", "Reminder", "Hello", "world", ":", "[", "]", "2", "x", " ",
            "(encrypted subject)"}
MCLowercase ==
  [t \in MCToken |->
     CASE t = "Re" -> "re" [] t = "FWD" -> "fwd" [] t = "Reminder" -> "reminder"
       [] t = "Hello" -> "hello" [] OTHER -> t]

Hello == <<"Hello", " ", " ", "world", " ">>

MCSubjects ==
  {1 :> Hello
     @@ 2 :> <<"Re", "[", "2", "]", ":">> \o Hello
     @@ 3 :> <<"FWD", ":", " ", "re", "[", "]", ":">> \o Hello,
   1 :> <<" ", "Reminder", ":", " ", "re", ":", "world">>
     @@ 2 :> <<"re", "[", "x", "]", ":", " ", "Hello">>
     @@ 3 :> <<"re", ":", " ", "Re", ":", " ", "[", "2", "]", " ", "Hello">>,
   1 :> <<"FWD", ":", " ">> @@ 2 :> <<"aw", ":", "re", ":">> @@ 3 :> <<"(encrypted subject)">>}
=============================================================================
