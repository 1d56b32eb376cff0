----------------------------- MODULE Cumulative -----------------------------
(***************************************************************************)
(* Task i starts at the view p.x[i], lasts p.d[i] and uses p.r[i] of a     *)
(* resource, of which there is p.limit.  Where a task must run, whenever   *)
(* it starts, is its compulsory part; the profile is made of those.  The   *)
(* time table keeps tasks out of the parts of the profile that leave too   *)
(* little, edge-finding (ttef) compares the energy of tasks in a window of *)
(* time, and what the profile adds to it, with the energy there is.        *)
(*                                                                         *)
(* Premises about a start or the limit are weakened as far as the lift,    *)
(* what the conflict has to spare, allows.  For a lazy variable the code   *)
(* takes its present bound instead, from which they follow.                *)
(***************************************************************************)
EXTENDS Disjunctive

lst(s, p, i) == getMax(s, p.x[i])
min_dur(s, p, i) == getMin(s, p.d[i])
min_usage(s, p, i) == getMin(s, p.r[i])
ect(s, p, i) == est(s, p, i) + min_dur(s, p, i)
lct(s, p, i) == lst(s, p, i) + min_dur(s, p, i)
part(s, p, i) == Max({0, ect(s, p, i) - lst(s, p, i)})
max_limit(s, p) == getMax(s, p.limit)
upwards(S) == IF S = {} THEN <<>> ELSE SelectSeq([k \in 1 .. Max(S) - Min(S) + 1 |-> Min(S) + k - 1], LAMBDA n : n \in S)
\* Mutant: tasks that last one unit of time are overlooked.
isLongTask(s, p, i) == min_dur(s, p, i) > 1 /\ min_usage(s, p, i) > 0
isTask(s, p, i) == min_dur(s, p, i) > 0 /\ min_usage(s, p, i) > 0

getMin0(s, x) == getMin([s EXCEPT !.dom = s.init], x)
getMax0(s, x) == getMax([s EXCEPT !.dom = s.init], x)
unlessInitial(s, x) == IF getMin0(s, x) < getMin(s, x) THEN {getMinLit(s, x)} ELSE {}

(***************************************************************************)
(* The tasks, each running at time t, use too much, by more than lift      *)
(***************************************************************************)
analyse_tasks(s, p, tasks, lift, t) ==
  LET extra(i) == min_usage(s, p, i) - getMin0(s, p.r[i])
      next(a, i) ==
        IF min_usage(s, p, i) <= a.lift
        THEN [a EXCEPT !.lift = @ - min_usage(s, p, i)]
        ELSE [lift |-> a.lift - (IF extra(i) <= a.lift THEN extra(i) ELSE 0),
              why |-> a.why \cup {GE(s, p.x[i], t + 1 - min_dur(s, p, i)), LE(s, p.x[i], t)}
                      \cup unlessInitial(s, p.d[i])
                      \cup (IF extra(i) > a.lift THEN {getMinLit(s, p.r[i])} ELSE {})]
  IN  FoldLeft(next, [lift |-> lift, why |-> {}], upwards(tasks)).why

analyse_limit_and_tasks(s, p, tasks, lift, t) ==
  LET spare == getMax0(s, p.limit) - max_limit(s, p)
  IN  IF spare <= lift
      THEN analyse_tasks(s, p, tasks, lift - spare, t)
      ELSE {getMaxLit(s, p.limit)} \cup analyse_tasks(s, p, tasks, 0, t)

(***************************************************************************)
(* The profile: between any two times at which a compulsory part begins or *)
(* ends, if one runs there.  It is filled task by task until it shows that *)
(* the resource is overloaded; top is the first of the highest parts.      *)
(***************************************************************************)
create_profile(s, p, tasks) ==
  LET cuts == upwards(UNION {{lst(s, p, i), ect(s, p, i)} : i \in tasks})
      parts == [k \in 1 .. Len(cuts) - 1 |-> [begin |-> cuts[k], end |-> cuts[k + 1], level |-> 0, tasks |-> {}]]
  IN  SelectSeq(parts, LAMBDA h : \E i \in tasks : lst(s, p, i) <= h.begin /\ h.end <= ect(s, p, i))

\* Task i joins part k
join(a, p, i, k) ==
  LET h == [a.profile[k] EXCEPT !.level = @ + min_usage(a.s, p, i), !.tasks = @ \cup {i}]
      middle == h.begin + ((h.end - h.begin) \div 2)
      overload == h.level - max_limit(a.s, p) - 1
  IN  [a EXCEPT !.profile[k] = h,
                !.top = IF h.level > a.profile[@].level THEN k ELSE @,
                !.s = IF overload >= 0
                      THEN setLit(@, bv_false, analyse_limit_and_tasks(@, p, h.tasks, overload, middle))
                      ELSE @]

fill_in_profile_parts(s, p, order) ==
  LET tasks == SelectSeq(order, LAMBDA i : isTask(s, p, i) /\ part(s, p, i) > 0)
      parts == create_profile(s, p, Range(tasks))
      within(h, i) == lst(s, p, i) <= h.begin /\ h.begin < ect(s, p, i)
      fill(a, q) == IF a.s.failed \/ ~ within(parts[q[2]], q[1]) THEN a ELSE join(a, p, q[1], q[2])
      pairs == FlattenSeq([n \in DOMAIN tasks |-> [k \in DOMAIN parts |-> <<tasks[n], k>>]])
  IN  FoldLeft(fill, [s |-> s, profile |-> parts, top |-> 1], pairs)

filter_limit(s, p, h) ==
  setMin(s, p.limit, h.level, analyse_tasks(s, p, h.tasks, 0, h.begin + ((h.end - h.begin - 1) \div 2)))

(***************************************************************************)
(* Task i, which does not fit in part h of the profile beside the others   *)
(***************************************************************************)
tooHigh(s, p, h, i) == h.level + min_usage(s, p, i) - max_limit(s, p) - 1

clashes(s, p, h, i) ==
  /\ ~ s.failed
  /\ tooHigh(s, p, h, i) >= 0
  /\ ~ (part(s, p, i) > 0 /\ lst(s, p, i) <= h.begin /\ h.end <= ect(s, p, i))

beside(s, p, h, i, t) ==
  unlessInitial(s, p.d[i]) \cup unlessInitial(s, p.r[i])
  \cup analyse_limit_and_tasks(s, p, h.tasks, tooHigh(s, p, h, i), t)

\* If it cannot end before h begins it starts when h ends, or as late as is explained
time_table_filtering_lb(s, p, h, i) ==
  LET end == Min({ect(s, p, i), h.end})
  IN  IF clashes(s, p, h, i) /\ ect(s, p, i) > h.begin /\ est(s, p, i) < h.end
      THEN setMin(s, p.x[i], end, {GE(s, p.x[i], end - min_dur(s, p, i))} \cup beside(s, p, h, i, end - 1))
      ELSE s

time_table_filtering_ub(s, p, h, i) ==
  LET begin == Max({h.begin, lst(s, p, i)})
  IN  IF clashes(s, p, h, i) /\ h.end > lst(s, p, i) /\ h.begin < lct(s, p, i)
      THEN setMax(s, p.x[i], begin - min_dur(s, p, i), {LE(s, p.x[i], begin)} \cup beside(s, p, h, i, begin))
      ELSE s

\* Each part again and again, until nothing more follows from it
filterLower(s, p, steps, i) == FoldLeft(LAMBDA t, h : time_table_filtering_lb(t, p, h, i), s, steps)
filterUpper(s, p, steps, i) == FoldRight(LAMBDA h, t : time_table_filtering_ub(t, p, h, i), steps, s)

time_table_filtering(s, p, profile, top, unfixed) ==
  LET steps == FlattenSeq([k \in DOMAIN profile |-> [n \in 1 .. profile[k].end - profile[k].begin |-> profile[k]]])
  IN  FoldLeft(LAMBDA t, i : IF isTask(t, p, i) /\ tooHigh(t, p, profile[top], i) >= 0
                             THEN filterUpper(filterLower(t, p, steps, i), p, steps, i)
                             ELSE t, s, unfixed)

timeTable(a, p, unfixed) ==
  IF a.s.failed \/ a.profile = <<>> \/ ~ p.filters.tt_filt
  THEN a
  ELSE [a EXCEPT !.s = time_table_filtering(@, p, a.profile, a.top, unfixed)]

limitRaised(a, p) ==
  IF a.s.failed \/ a.profile = <<>> THEN a ELSE [a EXCEPT !.s = filter_limit(@, p, a.profile[a.top])]

time_table_propagation(s, p, order, unfixed) ==
  timeTable(limitRaised(fill_in_profile_parts(s, p, order), p), p, unfixed)

(***************************************************************************)
(* A task that may last, or use, nothing.  Only the part of the profile    *)
(* that the search for its start ends in is looked at: the first one if it *)
(* ends after the start, the last one if it begins by then, or one that    *)
(* ends by then.                                                           *)
(***************************************************************************)
find_first_profile_for_lb(profile, t) ==
  IF profile[1].end > t THEN 1
  ELSE IF Last(profile).begin <= t THEN Len(profile)
       ELSE Max({k \in DOMAIN profile : profile[k].end <= t})

optionalTask(s, p, profile, i) ==
  LET t == est(s, p, i)
      long == Max({1, min_dur(s, p, i)})
      h == profile[find_first_profile_for_lb(profile, t)]
      lift == h.level + Max({1, min_usage(s, p, i)}) - max_limit(s, p) - 1
      from == Max({h.begin, t})
      amid == from + ((Min({h.end, t + long}) - from - 1) \div 2)
      why == {GE(s, p.x[i], amid + 1 - long), LE(s, p.x[i], amid)}
             \cup (IF min_dur(s, p, i) > 0 THEN unlessInitial(s, p.d[i]) ELSE {})
             \cup (IF min_usage(s, p, i) > 0 THEN unlessInitial(s, p.r[i]) ELSE {})
             \cup analyse_limit_and_tasks(s, p, h.tasks, lift, amid)
  IN  IF /\ ~ s.failed /\ t = lst(s, p, i)
         /\ (min_dur(s, p, i) <= 0) # (min_usage(s, p, i) <= 0)
         /\ t < h.end /\ h.begin < t + long /\ lift >= 0
      THEN setMax(s, IF min_usage(s, p, i) <= 0 THEN p.r[i] ELSE p.d[i], 0, why)
      ELSE s

(***************************************************************************)
(* Edge-finding works on the numbers e of the tasks.  How much longer than *)
(* its compulsory part, held, task i is in the window when it starts as    *)
(* late, or ends as early, as it can:                                      *)
(***************************************************************************)
numbers(s, p) ==
  LET all == DOMAIN p.x
  IN  [est |-> [i \in all |-> est(s, p, i)], lst |-> [i \in all |-> lst(s, p, i)],
       ect |-> [i \in all |-> ect(s, p, i)], lct |-> [i \in all |-> lct(s, p, i)],
       dur |-> [i \in all |-> min_dur(s, p, i)], use |-> [i \in all |-> min_usage(s, p, i)],
       part |-> [i \in all |-> part(s, p, i)], cap |-> max_limit(s, p)]

free_energy(e, i) == e.use[i] * (e.dur[i] - e.part[i])

shift(e, side, begin, end, i, held) ==
  CASE side = "right" -> IF begin <= e.est[i] THEN Max({0, end - e.lst[i] - held}) ELSE 0
    [] side = "left" -> IF end >= e.lct[i] THEN Max({0, e.ect[i] - begin - held}) ELSE 0

overlap(a, b, c, d) == Max({0, Min({b, d}) - Max({a, c})})

\* The tasks that take part in a window, apart from those in but, with their times
\* in it: first those that can move, then those with a compulsory part in it
ttef_retrieve_tasks(e, side, begin, end, but, order) ==
  LET inWindow(i) == begin <= e.est[i] /\ e.lct[i] <= end
      held(i) == overlap(begin, end, e.lst[i], e.ect[i])
      tasks == SelectSeq(order, LAMBDA i : i \notin but /\ e.dur[i] > 0 /\ e.use[i] > 0)
      time(i) == IF inWindow(i) THEN e.dur[i] ELSE held(i) + shift(e, side, begin, end, i, held(i))
      timed(is) == [n \in DOMAIN is |-> <<is[n], time(is[n])>>]
  IN  timed(SelectSeq(tasks, LAMBDA i : inWindow(i) \/ (held(i) = 0 /\ time(i) > 0)))
      \o timed(SelectSeq(tasks, LAMBDA i : ~ inWindow(i) /\ held(i) > 0))

required(e, shares) == FoldLeft(LAMBDA n, q : n + e.use[q[1]] * q[2], 0, shares)

ttef_analyse_limit_and_tasks(s, p, begin, end, shares, lift) ==
  LET out(i) == Max({0, getMax0(s, p.x[i]) + min_dur(s, p, i) - end, begin - getMin0(s, p.x[i])})
      next(a, q) ==
        LET i == q[1]
            less == Min({a.lift \div min_usage(s, p, i), out(i), q[2]})
        IN  [lift |-> a.lift - min_usage(s, p, i) * less,
             why |-> a.why \cup unlessInitial(s, p.d[i]) \cup unlessInitial(s, p.r[i])
                     \cup (IF less < q[2] THEN {GE(s, p.x[i], begin + q[2] - less - min_dur(s, p, i)),
                                                LE(s, p.x[i], end - q[2] + less)}
                                          ELSE {})]
      spare == getMax0(s, p.limit) - max_limit(s, p)
      more(a) == Min({a.lift \div (end - begin), spare})
      limited(a) == a.why \cup (IF more(a) < spare THEN {LE(s, p.limit, max_limit(s, p) + more(a))} ELSE {})
  IN  limited(FoldLeft(next, [lift |-> lift, why |-> {}], shares))

overloaded(s, p, w, order) ==
  LET e == numbers(s, p)
      shares == ttef_retrieve_tasks(e, w.side, w.begin, w.end, {}, order)
      lift == required(e, shares) - 1 - e.cap * (w.end - w.begin)
  IN  setLit(s, bv_false, ttef_analyse_limit_and_tasks(s, p, w.begin, w.end, shares, lift))

(***************************************************************************)
(* The windows in the order they are looked at: of a side "right" for each *)
(* end, the latest first, the begins from the latest, of a side "left" for *)
(* each begin, the earliest first, the ends from the earliest.  A window   *)
(* is as wide as the tasks in, its last one task, and leaves the energy    *)
(* avail beside those and the profile.                                     *)
(***************************************************************************)
energyIn(profile, begin, end) ==
  MapThenSumSet(LAMBDA k : profile[k].level * overlap(begin, end, profile[k].begin, profile[k].end), DOMAIN profile)

shiftEnergy(e, side, begin, end, i) == e.use[i] * shift(e, side, begin, end, i, e.part[i])
inside(e, w, i) == w.begin <= e.est[i] /\ e.lct[i] <= w.end

share(e, w, i) ==
  IF inside(e, w, i) THEN free_energy(e, i) ELSE shiftEnergy(e, w.side, w.begin, w.end, i)

withAvail(e, profile, w) ==
  w @@ ("avail" :> e.cap * (w.end - w.begin) - energyIn(profile, w.begin, w.end)
                     - MapThenSumSet(LAMBDA i : share(e, w, i), Range(w.in)))

byKey(unfixed, key) == LET order == sortedBy([n \in DOMAIN unfixed |-> key[unfixed[n]]])
                       IN  [n \in DOMAIN order |-> unfixed[order[n]]]

row(e, profile, side, edge, tasks) ==
  LET order == IF side = "right"
               THEN SelectSeq(Reverse(byKey(tasks, e.est)), LAMBDA i : e.est[i] < edge)
               ELSE SelectSeq(byKey(tasks, e.lct), LAMBDA i : e.lct[i] > edge)
      upTo(k) == [side |-> side, task |-> order[k], in |-> SubSeq(order, 1, k),
                    begin |-> IF side = "right" THEN e.est[order[k]] ELSE edge,
                    end |-> IF side = "right" THEN edge ELSE e.lct[order[k]]]
  IN  [k \in DOMAIN order |-> withAvail(e, profile, upTo(k))]

ttef_rows(e, profile, side, unfixed) ==
  LET tasks == SelectSeq(unfixed, LAMBDA i : e.dur[i] > 0 /\ e.use[i] > 0)
      edges == IF side = "right" THEN Reverse(upwards({e.lct[i] : i \in Range(tasks)}))
                                 ELSE upwards({e.est[i] : i \in Range(tasks)})
  IN  [k \in DOMAIN edges |-> row(e, profile, side, edges[k], tasks)]

wholeAvailable(e, unfixed) == 
  e.cap * (Max({e.lct[i] : i \in Range(unfixed)}) - Min({e.est[i] : i \in Range(unfixed)}))

\* The check passes over an end that is not so much before the last one that
\* anything could be short
notPassedOver(e, profile, unfixed, rows) ==
  LET least(r) == Min({wholeAvailable(e, unfixed)} \cup {w.avail : w \in Range(r)})
      next(a, r) ==
        IF a # <<>> /\ least(Last(a)) >= e.cap * (Last(a)[1].end - r[1].end)
                                         - energyIn(profile, r[1].end, Last(a)[1].end)
        THEN a
        ELSE Append(a, r)
  IN  FoldLeft(next, <<>>, rows)

firstShort(windows) == SelectSeq(windows, LAMBDA w : w.avail < 0)

ttef_consistency_check(s, p, profile, unfixed, order) ==
  LET e == numbers(s, p)
      short == firstShort(FlattenSeq(notPassedOver(e, profile, unfixed, ttef_rows(e, profile, "right", unfixed))))
  IN  IF short = <<>> THEN s ELSE overloaded(s, p, short[1], order)

(***************************************************************************)
(* Filtering.  A task may not be in a window longer than the energy there  *)
(* allows: one that is to be added to the window z of its row that leaves  *)
(* the least so far, and the task of window w that would need most beyond  *)
(* its share if it started, or ended, at its bound.                        *)
(***************************************************************************)
found(e, side, z, i, held, lower) ==
  LET stay == (z.avail + e.use[i] * held) \div e.use[i]
  IN  [side |-> side, task |-> i, begin |-> z.begin, end |-> z.end, lower |-> lower,
       bound |-> IF lower THEN z.end - stay ELSE z.begin + stay]

extended(e, z, i) ==
  LET held == overlap(z.begin, z.end, e.lst[i], e.ect[i])
      long == IF z.side = "left" THEN Min({z.end, e.ect[i]}) - Max({z.begin, e.est[i]})
                                 ELSE Min({z.end, e.lct[i]}) - Max({z.begin, e.lst[i]})
  IN  IF z.avail + e.use[i] * held < e.use[i] * long
      THEN <<found(e, z.side, z, i, held, z.side = "left")>>
      ELSE <<>>

moved(e, w) ==
  LET long(i) == IF w.side = "right" THEN w.end - e.est[i] ELSE e.lct[i] - w.begin
      beyond(i) == Min({free_energy(e, i), e.use[i] * long(i)}) - shiftEnergy(e, w.side, w.begin, w.end, i)
      others == SelectSeq(w.in, LAMBDA i : ~ inside(e, w, i))
      most == Max({-1} \cup {beyond(i) : i \in Range(others)})
      who == SelectSeq(others, LAMBDA i : beyond(i) = most)[1]
      held(i) == IF w.side = "right" THEN Max({0, Min({w.end, e.ect[i]}) - e.lst[i]})
                                     ELSE Max({0, e.ect[i] - Max({w.begin, e.lst[i]})})
      then(i) == <<found(e, w.side, w, i, held(i) + shift(e, w.side, w.begin, w.end, i, held(i)), w.side = "right")>>
  IN  IF w.avail < most THEN then(who) ELSE <<>>

candidates(e, whole, r) ==
  LET near(w) == IF w.side = "right" THEN w.begin ELSE w.end
      tight(k) == {m \in 1 .. k - 1 : /\ r[m].avail < whole
                                      /\ \A n \in 1 .. k - 1 : r[m].avail <= r[n].avail
                                      /\ \A n \in 1 .. m - 1 : r[m].avail < r[n].avail}
      before(k) == FlattenSeq([n \in 1 .. Cardinality(tight(k)) |->
                     IF near(r[Min(tight(k))]) >= 0 THEN extended(e, r[Min(tight(k))], r[k].task) ELSE <<>>])
  IN  FlattenSeq([k \in DOMAIN r |-> before(k) \o moved(e, r[k])])

\* Those that better the bound of their task, and are the first of the best
ttef_updates(e, all) ==
  LET better(q, b) == IF q.lower THEN q.bound > b ELSE q.bound < b
      first(k) == /\ better(all[k], IF all[k].lower THEN e.est[all[k].task] ELSE e.lct[all[k].task])
                  /\ \A m \in DOMAIN all : all[m].task = all[k].task /\ all[m].lower = all[k].lower =>
                       ~ better(all[m], all[k].bound) /\ (m < k => all[m].bound # all[k].bound)
  IN  SelectSeq([k \in DOMAIN all |-> k], first)

\* The energy is counted anew for an update
ttef_update(s, p, e, q, order) ==
  LET i == q.task
      u == e.use[i]
      shares == ttef_retrieve_tasks(e, q.side, q.begin, q.end, {i}, order)
      avail == e.cap * (q.end - q.begin) - required(e, shares)
      stay == quot(avail, u)
      lift == u - 1 - (avail - u * stay)
      why == (IF q.lower THEN {GE(s, p.x[i], Max({getMin0(s, p.x[i]), q.begin + stay + 1 - e.dur[i]}))}
                         ELSE {LE(s, p.x[i], Min({getMax0(s, p.x[i]), q.end - stay - 1}))})
             \cup unlessInitial(s, p.d[i]) \cup unlessInitial(s, p.r[i])
             \cup ttef_analyse_limit_and_tasks(s, p, q.begin, q.end, shares, lift)
  IN  IF q.lower THEN setMin(s, p.x[i], q.end - stay, why)
                 ELSE setMax(s, p.x[i], q.begin + stay - e.dur[i], why)

ttef_update_bounds(s, p, all, updates, order) ==
  FoldLeft(LAMBDA t, k : IF t.failed THEN t ELSE ttef_update(t, p, numbers(t, p), all[k], order), s, updates)

ttef_bounds_propagation(s, p, profile, unfixed, order) ==
  LET e == numbers(s, p)
      whole == wholeAvailable(e, unfixed)
      rows == ttef_rows(e, profile, "right", unfixed) \o ttef_rows(e, profile, "left", unfixed)
      short == firstShort(FlattenSeq(rows))
      all == FlattenSeq([k \in DOMAIN rows |-> candidates(e, whole, rows[k])])
  IN  IF short = <<>>
      THEN ttef_update_bounds(s, p, all, ttef_updates(e, all), order)
      ELSE overloaded(s, p, short[1], order)

(***************************************************************************)
(* The propagator keeps the tasks in an order, those that were not fixed   *)
(* first.  The order is not trailed, the number of those is.               *)
(***************************************************************************)
isOver(s, p, i) ==
  \/ isFixed(s, p.x[i]) /\ isFixed(s, p.d[i]) /\ isFixed(s, p.r[i])
  \/ getMax(s, p.d[i]) <= 0
  \/ getMax(s, p.r[i]) <= 0

sortOut(s, p) ==
  LET k == s.kept[p.id]
      swap(a, n) == IF isOver(s, p, a.task_id[n])
                    THEN [task_id |-> [a.task_id EXCEPT ![n] = a.task_id[a.unfixed], ![a.unfixed] = a.task_id[n]],
                          unfixed |-> a.unfixed - 1]
                    ELSE a
  IN  FoldLeft(swap, k, Reverse([n \in 1 .. k.unfixed |-> n]))

\* Nothing more is done in a run that moved a bound
edgeFinding(a, p, old, order, unfixed) ==
  IF a.s.failed \/ a.s.dom # old \/ Len(unfixed) <= 1
  THEN a
  ELSE CASE p.filters.ttef_filt -> [a EXCEPT !.s = ttef_bounds_propagation(@, p, a.profile, unfixed, order)]
         [] ~ p.filters.ttef_filt /\ p.filters.ttef_check ->
              [a EXCEPT !.s = ttef_consistency_check(@, p, a.profile, unfixed, order)]
         [] OTHER -> a

optionalTasks(a, p, old, unfixed) ==
  IF a.s.failed \/ a.s.dom # old \/ a.profile = <<>> \/ ~ p.filters.tt_filt
  THEN a.s
  ELSE FoldLeft(LAMBDA u, i : optionalTask(u, p, a.profile, i), a.s, unfixed)

filterAll(s, p, order, unfixed) ==
  optionalTasks(edgeFinding(time_table_propagation(s, p, order, unfixed), p, s.dom, order, unfixed), p, s.dom, unfixed)

sorted(s, p, k) == filterAll([s EXCEPT !.kept[p.id] = k], p, k.task_id, SubSeq(k.task_id, 1, k.unfixed))

propagateCumulative(s, p) == sorted(s, p, sortOut(s, p))

(***************************************************************************)
(* Posting.  Tasks that are fixed outside the time in which the others may *)
(* run are left out once their profile is checked.                         *)
(***************************************************************************)
fixed_profile_max(s, tasks) ==
  LET height(t) == MapThenSumSet(LAMBDA i : IF getMin(s, tasks[i].x) <= t /\ t < getMin(s, tasks[i].x) + getMax(s, tasks[i].d)
                                        THEN getMin(s, tasks[i].r) ELSE 0, DOMAIN tasks)
  IN  Max({0} \cup {height(getMin(s, tasks[i].x)) : i \in DOMAIN tasks})

postCumulative(s, tasks, limit, filters) ==
  LET pick(f(_)) == [n \in DOMAIN tasks |-> f(tasks[n])]
      attached(x) == IF isFixed(s, x) THEN <<>> ELSE <<On(x, {"L", "F"})>>
  IN  post(s, [kind |-> "Cumulative", x |-> pick(LAMBDA t : t.x), d |-> pick(LAMBDA t : t.d), r |-> pick(LAMBDA t : t.r),
               limit |-> limit, filters |-> filters,
               on |-> FlattenSeq(pick(LAMBDA t : <<On(t.x, LU)>> \o attached(t.d) \o attached(t.r)))
                      \o <<On(limit, {"U", "F"})>>],
           [task_id |-> [n \in DOMAIN tasks |-> n], unfixed |-> Len(tasks)])

cumulative2(s, xs, ds, rs, limit, filters) ==
  LET all == [n \in DOMAIN xs |-> [x |-> xs[n], d |-> ds[n], r |-> rs[n]]]
      tasks == SelectSeq(all, LAMBDA t : getMax(s, t.d) > 0 /\ getMax(s, t.r) > 0)
      fixed(t) == isFixed(s, t.x) /\ isFixed(s, t.d) /\ isFixed(s, t.r)
      loose == {t \in Range(tasks) : ~ fixed(t)}
      outside(t) == \/ \A u \in loose : getMax(s, t.x) + getMax(s, t.d) <= getMin(s, u.x)
                    \/ \A u \in loose : getMax(s, u.x) + getMax(s, u.d) <= getMin(s, t.x)
      left == SelectSeq(tasks, LAMBDA t : ~ outside(t))
      limited == setAtRoot(s, GE(s, limit, fixed_profile_max(s, SelectSeq(tasks, fixed))))
  IN  IF FoldLeft(LAMBDA m, t : m + getMax(s, t.r), 0, left) <= getMin(limited, limit)
      THEN limited
      ELSE postCumulative(limited, left, limit, filters)

\* The same with numbers, which are made constants
cumulative(s, xs, ds, rs, limit, filters) ==
  cumulative2(s, xs, [n \in DOMAIN ds |-> getConstant(ds[n])], [n \in DOMAIN rs |-> getConstant(rs[n])],
              getConstant(limit), filters)

=============================================================================
