----------------------------- MODULE UserStats ------------------------------
(***************************************************************************)
(* get_user_stats (server/get_user.c): counting the logged-in users and    *)
(* caching the counts by the modification time of the utmp file, while     *)
(* users log in and out.                                                   *)
(***************************************************************************)
EXTENDS Integers, Sequences, FiniteSets, SequencesExt

CONSTANTS
  Sessions,      \* entries utmp may have
  HashSize,      \* entries the table of hcreate holds
  MaxSessions,   \* entries the file has room for
  MaxTime        \* seconds that are followed

(* An entry of type USER_PROCESS: the name, as a pair of its first eight   *)
(* characters and the rest, and whether its line is the console or its     *)
(* host the local display.  Any other entry is Dead.                       *)
ASSUME SessionsAssumption == \A e \in Sessions : DOMAIN e = {"name", "console"}
ASSUME SizesAssumption == /\ HashSize \in Nat \ {0} /\ MaxSessions \in Nat \ {0}
                          /\ MaxTime \in Nat \ {0}

Dead == [name |-> << >>]
Entries == Sessions \cup {Dead}

VARIABLES
  now,           \* the clock, in the seconds st_mtime counts
  utmp,          \* the entries of the file
  mtime,         \* its modification time, 0 while it does not exist
  tty1,          \* whether /dev/tty1 belongs to a user
  at,            \* "idle", or where get_user_stats is
  pos,           \* entries read so far
  orphan,        \* <<entries>> of a file removed while it is read, or << >>
  users,         \* the hash table and the length of the vector of users
  user_mtime, on_console, total, uniq,                      \* the results
  last_total, last_uniq, last_on_console, last_user_mtime,  \* the cache
  counted,       \* history: when the file was opened
  seen           \* history: the sessions that were read

file   == <<now, utmp, mtime, tty1>>
stream == <<pos, orphan, users>>
answer == <<user_mtime, on_console, total, uniq>>
cache  == <<last_total, last_uniq, last_on_console, last_user_mtime>>
history == <<counted, seen>>
userVars == <<file, at, stream, answer, cache, history>>

uniq_start == [table |-> {}, count |-> 0]

UserInit ==
  /\ now = 1 /\ utmp = << >> /\ mtime = 1 /\ tty1 = FALSE
  /\ at = "idle" /\ pos = 0 /\ orphan = << >> /\ users = uniq_start
  /\ user_mtime = 0 /\ on_console = FALSE /\ total = 0 /\ uniq = 0
  /\ last_total = 0 /\ last_uniq = 0 /\ last_on_console = FALSE
  /\ last_user_mtime = 0 /\ counted = 0 /\ seen = << >>

(* Mutant: the name is never entered into the table.                       *)
uniq_add_noEnter(u, name) ==
  IF name \in u.table THEN u ELSE [u EXCEPT !.count = @ + 1]

(* hsearch(ENTER) fails when the table is full; the name is counted again  *)
(* the next time it comes.                                                 *)
uniq_add(u, name) ==
  IF name \in u.table THEN u
  ELSE [table |-> IF Cardinality(u.table) < HashSize
                  THEN u.table \cup {name} ELSE u.table,
        count |-> u.count + 1]

-----------------------------------------------------------------------------
(* stat(utmp): a hit answers from the cache.                               *)
Stat ==
  /\ at = "idle"
  /\ user_mtime' = mtime
  /\ IF mtime > 0 /\ mtime = last_user_mtime
     THEN /\ total' = last_total /\ uniq' = last_uniq
          /\ on_console' = last_on_console
          /\ UNCHANGED at
     ELSE /\ total' = 0 /\ uniq' = 0 /\ on_console' = FALSE
          /\ at' = "console"
  /\ UNCHANGED <<file, stream, cache, history>>

(* The owners of the console devices.                                      *)
Console ==
  /\ at = "console"
  /\ on_console' = tty1
  /\ at' = "open"
  /\ UNCHANGED <<file, stream, user_mtime, total, uniq, cache, history>>

(* uniq_start and setutxent.                                               *)
Open ==
  /\ at = "open"
  /\ at' = "read"
  /\ pos' = 0 /\ orphan' = << >> /\ users' = uniq_start
  /\ counted' = now
  /\ UNCHANGED <<file, answer, cache, seen>>

(* What the stream reads: a file that was removed is still there for it.   *)
Source == IF orphan = << >> THEN utmp ELSE orphan[1]

(* One turn of the loop: getutxent, and the count of a session.  The file  *)
(* may change between two of them.                                         *)
ReadEntry ==
  /\ at = "read" /\ pos < Len(Source)
  /\ pos' = pos + 1
  /\ LET e == Source[pos + 1] IN
     IF e = Dead THEN UNCHANGED <<users, on_console, total, seen>>
     ELSE /\ total' = total + 1
          /\ on_console' = (on_console \/ e.console)
          /\ users' = uniq_add(users, e.name)
          /\ seen' = Append(seen, e)
  /\ UNCHANGED <<file, at, orphan, user_mtime, uniq, cache, counted>>

(* getutxent returns NULL; uniq_count and uniq_end.                        *)
EndOfFile ==
  /\ at = "read" /\ pos >= Len(Source)
  /\ at' = "save"
  /\ uniq' = users.count
  /\ pos' = 0 /\ orphan' = << >> /\ users' = uniq_start
  /\ UNCHANGED <<file, user_mtime, on_console, total, cache, history>>

(* Mutant: the file is looked at again for its time.                       *)
Save_restat ==
  /\ at = "save"
  /\ last_total' = total /\ last_uniq' = uniq /\ last_on_console' = on_console
  /\ user_mtime' = mtime /\ last_user_mtime' = mtime
  /\ at' = "idle" /\ seen' = << >>
  /\ UNCHANGED <<file, stream, on_console, total, uniq, counted>>

(* The static variables are stored for the next call.                      *)
Save ==
  /\ at = "save"
  /\ last_total' = total /\ last_uniq' = uniq
  /\ last_on_console' = on_console /\ last_user_mtime' = user_mtime
  /\ at' = "idle" /\ seen' = << >>
  /\ UNCHANGED <<file, stream, answer, counted>>

-----------------------------------------------------------------------------
(* Users, and the clock.  A login takes the place of an entry that is dead *)
(* or is appended; a logout marks its entry as dead.                       *)

Changed == mtime' = now /\ UNCHANGED <<now, tty1, at, stream, answer, cache, history>>

Login(e) ==
  /\ mtime > 0
  /\ \/ \E k \in 1 .. Len(utmp) : utmp[k] = Dead /\ utmp' = [utmp EXCEPT ![k] = e]
     \/ Len(utmp) < MaxSessions /\ utmp' = Append(utmp, e)
  /\ Changed

Logout(k) == /\ utmp[k] # Dead
             /\ utmp' = [utmp EXCEPT ![k] = Dead]
             /\ Changed

(* The device is given to a user, or back, with a session or without.      *)
Chown == /\ tty1' = ~ tty1
         /\ UNCHANGED <<now, utmp, mtime, at, stream, answer, cache, history>>

(* The file is removed, and created again.                                 *)
Rotate == /\ mtime > 0 /\ mtime' = 0 /\ utmp' = << >>
          /\ orphan' = IF at = "read" THEN <<Source>> ELSE orphan
          /\ UNCHANGED <<now, tty1, at, pos, users, answer, cache, history>>
Create == /\ mtime = 0 /\ Changed /\ UNCHANGED utmp

Tick == /\ now < MaxTime /\ now' = now + 1
        /\ UNCHANGED <<utmp, mtime, tty1, at, stream, answer, cache, history>>

UserNext == \/ Stat \/ Console \/ Open \/ ReadEntry \/ EndOfFile \/ Save
            \/ \E e \in Sessions : Login(e)
            \/ \E k \in 1 .. Len(utmp) : Logout(k)
            \/ Chown \/ Rotate \/ Create \/ Tick

UserSpec == UserInit /\ [][UserNext]_userVars

-----------------------------------------------------------------------------
Names(l)  == {e.name : e \in ToSet(l)}
Eights(l) == {n[1] : n \in Names(l)}
Fits      == Cardinality(Names(seen)) <= HashSize

(* However the file changes while it is read, no user is missed, and the   *)
(* number of unique users is exact while their names fit into the table    *)
(* and differ in their first eight characters.  However full the table and *)
(* old the cache, there are no more of them than sessions, so that         *)
(* (total - uniq) * 20 in the load function is never negative.             *)
UniqExact ==
  /\ uniq <= total /\ last_uniq <= last_total
  /\ at = "save" =>
       /\ uniq >= Cardinality(Eights(seen))
       /\ Fits /\ Cardinality(Names(seen)) = Cardinality(Eights(seen))
            => uniq = Cardinality(Names(seen))

(* The comment of get_user_stats: "this implementation ignores all         *)
(* characters after the first eight when counting uniqueness".  uniq_add   *)
(* compares whole names.                                                   *)
FirstEight == at = "save" /\ Fits => uniq = Cardinality(Eights(seen))

(* A hit in the cache tells the sessions of the file as it is, and misses  *)
(* none on the console, unless the file was opened in the very second of   *)
(* its last change: it is examined before it is read, so that a change in  *)
(* between or during the read is noticed by the next call, and no count is *)
(* filed under a time later than its own.  Only the owner of the console   *)
(* device may be out of date.                                              *)
CacheHit == mtime > 0 /\ mtime = last_user_mtime
Live(k) == {j \in 1 .. k : utmp[j] # Dead}
CacheCoherent ==
  at = "idle" =>
    /\ last_user_mtime <= counted
    /\ CacheHit /\ counted # mtime =>
         /\ last_total = Cardinality(Live(Len(utmp)))
         /\ (\E j \in Live(Len(utmp)) : utmp[j].console) => last_on_console
=============================================================================
