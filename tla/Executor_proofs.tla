-------------------------- MODULE Executor_proofs --------------------------
(***************************************************************************)
(* The safety of an action of the executor: where it sends a window        *)
(* (Placement), what it remembers to bring it back (WindowHistory), and    *)
(* where it goes on to when it is repeated (Placement again).              *)
(* The Executor follows one of the two at a time, so each theorem is about *)
(* its part, and the last lemma carries it over to the whole.              *)
(***************************************************************************)
EXTENDS Executor, TLAPS, FiniteSetTheorems, SequenceTheorems, WellFoundedInduction

-----------------------------------------------------------------------------
(* Placement.                                                              *)

(***************************************************************************)
(* Arithmetic.                                                             *)
(***************************************************************************)
LEMMA Halves == \A n \in Nat : n \div 2 \in Nat /\ 2 * (n \div 2) <= n
  BY SMT

LEMMA Thirds == \A n \in Nat : n \div 3 \in Nat /\ 3 * (n \div 3) <= n
  BY SMT

LEMMA Quotients == \A n \in Nat, d \in Nat \ {0} : n \div d \in Nat
  BY SMT

LEMMA ClampBetween ==
  \A n, low, high \in Int : low <= high =>
    /\ Clamp(n, low, high) \in Int
    /\ low <= Clamp(n, low, high) /\ Clamp(n, low, high) <= high
  BY DEF Clamp, Smaller, Larger

LEMMA ProductIsNat == \A m, n \in Nat : m * n \in Nat
  OBVIOUS

\* Round answers an integer, and a natural number for one.
LEMMA RoundType ==
  \A d \in Nat \ {0} : /\ \A n \in Int : Round(n, d) \in Int
                       /\ \A n \in Nat : Round(n, d) \in Nat
<1>1. SUFFICES ASSUME NEW d \in Nat \ {0}, NEW n \in Int
               PROVE  Round(n, d) \in Int /\ (n >= 0 => Round(n, d) \in Nat)
  BY <1>1
<1>2. 2 * d \in Nat \ {0}
  OBVIOUS
<1>3. CASE n >= 0
  <2>1. 2 * n + d \in Nat
    BY <1>3
  <2>2. (2 * n + d) \div (2 * d) \in Nat
    BY <2>1, <1>2, Quotients
  <2> QED  BY <2>2, <1>3 DEF Round
<1>4. CASE n < 0
  <2>1. d - 2 * n \in Nat
    BY <1>4
  <2>2. (d - 2 * n) \div (2 * d) \in Nat
    BY <2>1, <1>2, Quotients
  <2> QED  BY <2>2, <1>4 DEF Round
<1> QED  BY <1>3, <1>4

(***************************************************************************)
(* Targets lie inside the usable area they are computed for.               *)
(***************************************************************************)
Lies(r, area) == r \in Rect /\ Within(r, area)

LEMMA BuiltInInside ==
  ASSUME NEW a \in Rect, NEW zone \in BuiltIn
  PROVE  Lies(BuiltInRect(zone, a), a)
<1>1. /\ a.x \in Int /\ a.y \in Int /\ a.width \in Nat /\ a.height \in Nat
      /\ a = Rectangle(a.x, a.y, a.width, a.height)
  BY DEF Rect, Rectangle
<1>2. /\ a.width \div 2 \in Nat /\ 2 * (a.width \div 2) <= a.width
      /\ a.height \div 2 \in Nat /\ 2 * (a.height \div 2) <= a.height
      /\ a.width \div 3 \in Nat /\ 3 * (a.width \div 3) <= a.width
  BY <1>1, Halves, Thirds
<1> DEFINE Half == a.width \div 2
           Row == a.height \div 2
           Third == a.width \div 3
<1>4. zone \in {"left-half", "right-half", "top-half", "bottom-half", "top-left",
                "top-right", "bottom-left", "bottom-right", "left-third",
                "center-third", "right-third", "left-two-thirds",
                "right-two-thirds", "maximize"}
  BY DEF BuiltIn, AllZones
<1>5. CASE zone = "left-half"
  <2>1. BuiltInRect(zone, a) = Rectangle(a.x, a.y, Half, a.height)
    BY <1>5, <1>1, <1>2 DEF BuiltInRect, LeftFraction
  <2> QED  BY <2>1, <1>1, <1>2 DEF Lies, Rect, Rectangle, Within, Right, Bottom
<1>6. CASE zone = "right-half"
  <2>1. BuiltInRect(zone, a) = Rectangle(a.x + a.width - Half, a.y, Half, a.height)
    BY <1>6, <1>1, <1>2 DEF BuiltInRect, RightFraction, Right
  <2> QED  BY <2>1, <1>1, <1>2 DEF Lies, Rect, Rectangle, Within, Right, Bottom
<1>7. CASE zone = "top-half"
  <2>1. BuiltInRect(zone, a) = Rectangle(a.x, a.y, a.width, Row)
    BY <1>7, <1>1, <1>2 DEF BuiltInRect, TopHalf
  <2> QED  BY <2>1, <1>1, <1>2 DEF Lies, Rect, Rectangle, Within, Right, Bottom
<1>8. CASE zone = "bottom-half"
  <2>1. BuiltInRect(zone, a) = Rectangle(a.x, a.y + a.height - Row, a.width, Row)
    BY <1>8, <1>1, <1>2 DEF BuiltInRect, BottomHalf, Bottom
  <2> QED  BY <2>1, <1>1, <1>2 DEF Lies, Rect, Rectangle, Within, Right, Bottom
<1>9. CASE zone = "top-left"
  <2>1. BuiltInRect(zone, a) = Rectangle(a.x, a.y, Half, Row)
    BY <1>9, <1>1, <1>2 DEF BuiltInRect, TopHalf, LeftFraction, Rectangle
  <2> QED  BY <2>1, <1>1, <1>2 DEF Lies, Rect, Rectangle, Within, Right, Bottom
<1>10. CASE zone = "top-right"
  <2>1. BuiltInRect(zone, a) = Rectangle(a.x + a.width - Half, a.y, Half, Row)
    BY <1>10, <1>1, <1>2 DEF BuiltInRect, TopHalf, RightFraction, Rectangle, Right
  <2> QED  BY <2>1, <1>1, <1>2 DEF Lies, Rect, Rectangle, Within, Right, Bottom
<1>11. CASE zone = "bottom-left"
  <2>1. BuiltInRect(zone, a) = Rectangle(a.x, a.y + a.height - Row, Half, Row)
    BY <1>11, <1>1, <1>2 DEF BuiltInRect, BottomHalf, LeftFraction, Rectangle, Bottom
  <2> QED  BY <2>1, <1>1, <1>2 DEF Lies, Rect, Rectangle, Within, Right, Bottom
<1>12. CASE zone = "bottom-right"
  <2>1. BuiltInRect(zone, a)
          = Rectangle(a.x + a.width - Half, a.y + a.height - Row, Half, Row)
    BY <1>12, <1>1, <1>2 DEF BuiltInRect, BottomHalf, RightFraction, Rectangle, Bottom, Right
  <2> QED  BY <2>1, <1>1, <1>2 DEF Lies, Rect, Rectangle, Within, Right, Bottom
<1>13. CASE zone = "left-third"
  <2>1. BuiltInRect(zone, a) = Rectangle(a.x, a.y, Third, a.height)
    BY <1>13, <1>1, <1>2 DEF BuiltInRect, LeftFraction
  <2> QED  BY <2>1, <1>1, <1>2 DEF Lies, Rect, Rectangle, Within, Right, Bottom
<1>14. CASE zone = "center-third"
  <2>1. BuiltInRect(zone, a)
          = Rectangle(a.x + Third, a.y, a.width - Third - Third, a.height)
    BY <1>14, <1>1, <1>2 DEF BuiltInRect, CenterThird
  <2> QED  BY <2>1, <1>1, <1>2 DEF Lies, Rect, Rectangle, Within, Right, Bottom
<1>15. CASE zone = "right-third"
  <2>1. BuiltInRect(zone, a) = Rectangle(a.x + a.width - Third, a.y, Third, a.height)
    BY <1>15, <1>1, <1>2 DEF BuiltInRect, RightFraction, Right
  <2> QED  BY <2>1, <1>1, <1>2 DEF Lies, Rect, Rectangle, Within, Right, Bottom
<1>16. CASE zone = "left-two-thirds"
  <2>1. BuiltInRect(zone, a) = Rectangle(a.x, a.y, a.width - Third, a.height)
    BY <1>16, <1>1, <1>2 DEF BuiltInRect, LeftTwoThirds
  <2> QED  BY <2>1, <1>1, <1>2 DEF Lies, Rect, Rectangle, Within, Right, Bottom
<1>17. CASE zone = "right-two-thirds"
  <2>1. BuiltInRect(zone, a) = Rectangle(a.x + Third, a.y, a.width - Third, a.height)
    BY <1>17, <1>1, <1>2 DEF BuiltInRect, RightTwoThirds
  <2> QED  BY <2>1, <1>1, <1>2 DEF Lies, Rect, Rectangle, Within, Right, Bottom
<1>18. CASE zone = "maximize"
  <2>1. BuiltInRect(zone, a) = Rectangle(a.x, a.y, a.width, a.height)
    BY <1>18, <1>1 DEF BuiltInRect
  <2> QED  BY <2>1, <1>1 DEF Lies, Rect, Rectangle, Within, Right, Bottom
<1> HIDE DEF Half, Row, Third
<1> QED  BY <1>4, <1>5, <1>6, <1>7, <1>8, <1>9, <1>10, <1>11, <1>12, <1>13, <1>14,
            <1>15, <1>16, <1>17, <1>18


\* Percentages stay inside, without the clamps having to cut anything off.
LEMMA CustomInside ==
  ASSUME NEW a \in Rect, NEW z \in ZoneDefinition
  PROVE  Lies(RectInArea(z, a), a)
<1>1. /\ a.x \in Int /\ a.y \in Int /\ a.width \in Nat /\ a.height \in Nat
      /\ z.x \in Nat /\ z.y \in Nat /\ z.width \in Nat /\ z.height \in Nat
  BY DEF Rect, ZoneDefinition
<1>2. \A p, n \in Nat : Percent(p, n) \in Nat
  <2>1. ASSUME NEW p \in Nat, NEW n \in Nat
        PROVE  Percent(p, n) \in Nat
    <3>1. n * p \in Nat
      BY ProductIsNat
    <3> QED  BY <3>1, Quotients DEF Percent
  <2> QED  BY <2>1
<1> DEFINE west   == Clamp(a.x + Percent(z.x, a.width), a.x, Right(a))
           top    == Clamp(a.y + Percent(z.y, a.height), a.y, Bottom(a))
           right  == Clamp(a.x + Percent(z.x + z.width, a.width), west, Right(a))
           bottom == Clamp(a.y + Percent(z.y + z.height, a.height), top, Bottom(a))
<1>3. /\ Right(a) \in Int /\ a.x <= Right(a) /\ Right(a) = a.x + a.width
      /\ Bottom(a) \in Int /\ a.y <= Bottom(a) /\ Bottom(a) = a.y + a.height
  BY <1>1 DEF Right, Bottom
<1>4. /\ Percent(z.x, a.width) \in Int /\ Percent(z.y, a.height) \in Int
      /\ Percent(z.x + z.width, a.width) \in Int
      /\ Percent(z.y + z.height, a.height) \in Int
  <2>1. z.x + z.width \in Nat /\ z.y + z.height \in Nat
    BY <1>1
  <2>2. /\ Percent(z.x, a.width) \in Nat /\ Percent(z.y, a.height) \in Nat
        /\ Percent(z.x + z.width, a.width) \in Nat
        /\ Percent(z.y + z.height, a.height) \in Nat
    BY <1>1, <1>2, <2>1
  <2> QED  BY <2>2
<1>5. west \in Int /\ a.x <= west /\ west <= Right(a)
  <2>1. a.x + Percent(z.x, a.width) \in Int
    BY <1>1, <1>4
  <2> QED  BY <1>1, <1>3, <2>1, ClampBetween
<1>6. top \in Int /\ a.y <= top /\ top <= Bottom(a)
  <2>1. a.y + Percent(z.y, a.height) \in Int
    BY <1>1, <1>4
  <2> QED  BY <1>1, <1>3, <2>1, ClampBetween
<1> HIDE DEF west, top
<1>7. right \in Int /\ west <= right /\ right <= Right(a)
  <2>1. a.x + Percent(z.x + z.width, a.width) \in Int
    BY <1>1, <1>4
  <2> QED  BY <1>3, <1>5, <2>1, ClampBetween
<1>8. bottom \in Int /\ top <= bottom /\ bottom <= Bottom(a)
  <2>1. a.y + Percent(z.y + z.height, a.height) \in Int
    BY <1>1, <1>4
  <2> QED  BY <1>3, <1>6, <2>1, ClampBetween
<1>9. RectInArea(z, a) = Rectangle(west, top, right - west, bottom - top)
  BY DEF RectInArea, west, top
<1> HIDE DEF right, bottom
<1> QED  BY <1>3, <1>5, <1>6, <1>7, <1>8, <1>9
         DEF Lies, Rect, Rectangle, Within, Right, Bottom

LEMMA ZoneInside ==
  ASSUME NEW a \in Rect, NEW zone \in BuiltIn \cup DOMAIN CustomZones
  PROVE  Lies(ZoneRect(zone, a), a)
<1>1. CASE zone \in BuiltIn
  BY <1>1, BuiltInInside DEF ZoneRect
<1>2. CASE zone \notin BuiltIn
  <2>1. CustomZones[zone] \in ZoneDefinition
    BY <1>2, LayoutsOK
  <2> QED  BY <1>2, <2>1, CustomInside DEF ZoneRect
<1> QED  BY <1>1, <1>2

LEMMA CenteredInside ==
  ASSUME NEW r \in Rect, NEW a \in Rect
  PROVE  Lies(Centered(r, a), a)
<1> DEFINE width == Smaller(r.width, a.width)
           height == Smaller(r.height, a.height)
<1>1. /\ a.x \in Int /\ a.y \in Int /\ a.width \in Nat /\ a.height \in Nat
      /\ r.width \in Nat /\ r.height \in Nat
  BY DEF Rect
<1>2. /\ width \in Nat /\ width <= a.width
      /\ height \in Nat /\ height <= a.height
  BY <1>1 DEF Smaller
<1>3. Centered(r, a) = Rectangle(a.x + (a.width - width) \div 2,
                                 a.y + (a.height - height) \div 2, width, height)
  BY DEF Centered
<1> HIDE DEF width, height
<1>4. /\ (a.width - width) \div 2 \in Nat
      /\ 2 * ((a.width - width) \div 2) <= a.width - width
      /\ (a.height - height) \div 2 \in Nat
      /\ 2 * ((a.height - height) \div 2) <= a.height - height
  <2>1. a.width - width \in Nat /\ a.height - height \in Nat
    BY <1>1, <1>2
  <2> QED  BY <2>1, Halves
<1> QED  BY <1>1, <1>2, <1>3, <1>4 DEF Lies, Rect, Rectangle, Within, Right, Bottom

LEMMA MappedInside ==
  ASSUME NEW r \in Rect, NEW s \in Rect, NEW t \in Rect,
         s.width > 0, s.height > 0
  PROVE  Lies(MapProportionally(r, s, t), t)
<1> DEFINE width  == Smaller(Round(r.width * t.width, s.width), t.width)
           height == Smaller(Round(r.height * t.height, s.height), t.height)
           x == t.x + Round((r.x - s.x) * t.width, s.width)
           y == t.y + Round((r.y - s.y) * t.height, s.height)
<1>1. /\ r.x \in Int /\ r.y \in Int /\ r.width \in Nat /\ r.height \in Nat
      /\ s.x \in Int /\ s.y \in Int /\ s.width \in Nat \ {0} /\ s.height \in Nat \ {0}
      /\ t.x \in Int /\ t.y \in Int /\ t.width \in Nat /\ t.height \in Nat
  BY DEF Rect
<1>2. /\ Round(r.width * t.width, s.width) \in Nat
      /\ Round(r.height * t.height, s.height) \in Nat
  <2>1. r.width * t.width \in Nat /\ r.height * t.height \in Nat
    BY <1>1, ProductIsNat
  <2> QED  BY <1>1, <2>1, RoundType
<1>3. /\ Round((r.x - s.x) * t.width, s.width) \in Int
      /\ Round((r.y - s.y) * t.height, s.height) \in Int
  <2>1. (r.x - s.x) * t.width \in Int /\ (r.y - s.y) * t.height \in Int
    BY <1>1
  <2> QED  BY <1>1, <2>1, RoundType
<1>4. /\ width \in Nat /\ width <= t.width
      /\ height \in Nat /\ height <= t.height
  BY <1>1, <1>2 DEF Smaller
<1>5. x \in Int /\ y \in Int
  BY <1>1, <1>3
<1>6. MapProportionally(r, s, t)
        = Rectangle(Clamp(x, t.x, Right(t) - width), Clamp(y, t.y, Bottom(t) - height),
                    width, height)
  BY DEF MapProportionally
<1> HIDE DEF width, height, x, y
<1>7. /\ Right(t) - width \in Int /\ t.x <= Right(t) - width
      /\ Bottom(t) - height \in Int /\ t.y <= Bottom(t) - height
  BY <1>1, <1>4 DEF Right, Bottom
<1>8. /\ Clamp(x, t.x, Right(t) - width) \in Int
      /\ t.x <= Clamp(x, t.x, Right(t) - width)
      /\ Clamp(x, t.x, Right(t) - width) <= Right(t) - width
  BY <1>1, <1>5, <1>7, ClampBetween
<1>9. /\ Clamp(y, t.y, Bottom(t) - height) \in Int
      /\ t.y <= Clamp(y, t.y, Bottom(t) - height)
      /\ Clamp(y, t.y, Bottom(t) - height) <= Bottom(t) - height
  BY <1>1, <1>5, <1>7, ClampBetween
<1> QED  BY <1>1, <1>4, <1>6, <1>8, <1>9 DEF Lies, Rect, Rectangle, Within, Right, Bottom

(***************************************************************************)
(* A known zone is one of the built-in ones: the first that matches exists *)
(***************************************************************************)
LEMMA FirstExists ==
  ASSUME NEW S \in SUBSET Nat, S # {}
  PROVE  \E i \in S : \A j \in S : i <= j
<1>1. IsWellFoundedOn(OpToRel(<, Nat), Nat)
  BY NatLessThanWellFounded
<1>2. PICK i \in S : \A j \in S : ~(<<j, i>> \in OpToRel(<, Nat))
  BY <1>1, WFMin
<1>3. \A j \in S : ~(j < i)
  BY <1>2 DEF OpToRel
<1> QED  BY <1>3

LEMMA MovedInside ==
  ASSUME NEW r \in Rect, NEW s \in Rect, NEW t \in Rect,
         s.width > 0, s.height > 0
  PROVE  Lies(MoveWindowToDisplay(r, s, t), t)
<1>1. CASE KnownZones(r, s) = {}
  BY <1>1, MappedInside DEF MoveWindowToDisplay
<1>2. CASE KnownZones(r, s) # {}
  <2> DEFINE first == CHOOSE i \in KnownZones(r, s) : \A j \in KnownZones(r, s) : i <= j
  <2>1. KnownZones(r, s) \in SUBSET DOMAIN AllZones
    BY DEF KnownZones
  <2>2. DOMAIN AllZones \subseteq Nat
    BY DEF AllZones
  <2>3. first \in DOMAIN AllZones
    BY <1>2, <2>1, <2>2, FirstExists
  <2>4. MoveWindowToDisplay(r, s, t) = BuiltInRect(AllZones[first], t)
    BY <1>2 DEF MoveWindowToDisplay
  <2>5. AllZones[first] \in BuiltIn
    BY <2>3 DEF BuiltIn
  <2> HIDE DEF first
  <2> QED  BY <2>4, <2>5, BuiltInInside
<1> QED  BY <1>1, <1>2

(***************************************************************************)
(* The state.                                                              *)
(***************************************************************************)
PlacementIInv == PlacementTypeOK /\ PlacedInside

LEMMA UsableAreas ==
  ASSUME displays \in Layouts, NEW d \in Usable
  PROVE  displays[d] \in Rect /\ displays[d].width > 0 /\ displays[d].height > 0
<1>1. displays \in Seq(Rect)
  BY LayoutsOK
<1>2. d \in DOMAIN displays
  BY DEF Usable
<1> QED  BY <1>1, <1>2 DEF Usable

LEMMA LeastIsKeyed == \A keys : Least(keys) \subseteq DOMAIN keys
  BY DEF Least

LEMMA OwnersUsable == \A f : Owners(f) \subseteq Usable
<1> SUFFICES ASSUME NEW f PROVE Owners(f) \subseteq Usable
  OBVIOUS
<1> DEFINE containing == {d \in Usable : Contains(displays[d], CenterX(f), CenterY(f))}
           overlap(d) == OverlapArea(displays[d], f)
           distance(d) == DistanceSquared(displays[d], CenterX(f), CenterY(f))
           inside == [d \in containing |-> Order(d)]
           overlapping == [d \in Usable |-> <<-overlap(d)>> \o Order(d)]
           near == [d \in Usable |-> <<distance(d)>> \o Order(d)]
<1>1. Owners(f) \in {Least(inside), Least(overlapping), Least(near)}
  BY DEF Owners
<1>2. /\ DOMAIN inside \subseteq Usable /\ DOMAIN overlapping \subseteq Usable
      /\ DOMAIN near \subseteq Usable
  OBVIOUS
<1> HIDE DEF containing, inside, overlapping, near
<1> QED  BY <1>1, <1>2, LeastIsKeyed

LEMMA NeighboursUsable == \A d, leftwards : Neighbours(d, leftwards) \subseteq Usable
  BY LeastIsKeyed DEF Neighbours

LEMMA InDirectionUsable == \A d, direction : InDirection(d, direction) \subseteq Usable
  BY LeastIsKeyed DEF InDirection

\* What a hotkey does to the state, once its target lies in a usable area.
LEMMA PlaceStep ==
  ASSUME PlacementIInv, NEW action \in Keys, NEW d \in Usable, NEW target,
         Lies(target, displays[d]), Place(action, target)
  PROVE  PlacementIInv'
<1>1. target \in Rect /\ geometry' = target /\ byApp' = TRUE /\ key' = action
      /\ UNCHANGED displays
  BY DEF Place, Lies
<1>2. walk' \in Seq(Rect)
  <2>1. walk \in Seq(Rect) /\ <<geometry>> \in Seq(Rect) /\ <<target>> \in Seq(Rect)
    BY <1>1 DEF PlacementIInv, PlacementTypeOK
  <2>2. walk \o <<target>> \in Seq(Rect) /\ <<geometry>> \o <<target>> \in Seq(Rect)
    BY <2>1
  <2> QED  BY <2>2 DEF Place
<1>3. turns' \in 0 .. MaxTurns
  BY LayoutsOK DEF PlacementIInv, PlacementTypeOK, Place
<1>4. PlacementTypeOK'
  BY <1>1, <1>2, <1>3 DEF PlacementIInv, PlacementTypeOK
<1>5. PlacedInside'
  BY <1>1 DEF PlacedInside, Usable, Lies, Within, Right, Bottom
<1> QED  BY <1>4, <1>5 DEF PlacementIInv

LEMMA PlacementInitialInvariant == PlacementInit => PlacementIInv
<1>1. <<>> \in Seq(Rect)
  OBVIOUS
<1>2. 0 \in 0 .. MaxTurns
  BY LayoutsOK
<1> QED  BY <1>1, <1>2, LayoutsOK DEF PlacementInit, PlacementIInv, PlacementTypeOK, PlacedInside, Keys, Others

LEMMA PlacementInductiveInvariant == PlacementIInv /\ [PlacementNext]_placementVars => PlacementIInv'
<1> SUFFICES ASSUME PlacementIInv, [PlacementNext]_placementVars
             PROVE  PlacementIInv'
  OBVIOUS
<1> USE DEF PlacementIInv
<1>1. displays \in Layouts /\ geometry \in Rect
  BY DEF PlacementTypeOK
<1>2. CASE MoveToZone
  <2>1. PICK d \in Owners(geometry), zone \in BuiltIn \cup DOMAIN CustomZones :
          IF Crossing(zone, d) = {}
          THEN Place(zone, ZoneRect(zone, displays[d]))
          ELSE \E e \in Crossing(zone, d) : Place(zone, ZoneRect(Landing(zone), displays[e]))
    BY <1>2 DEF MoveToZone
  <2>2. d \in Usable /\ displays[d] \in Rect /\ zone \in Keys
    BY <1>1, OwnersUsable, UsableAreas DEF Keys, Others
  <2>3. CASE Crossing(zone, d) = {}
    <3>1. Lies(ZoneRect(zone, displays[d]), displays[d])
      BY <2>2, ZoneInside
    <3> QED  BY <2>1, <2>2, <2>3, <3>1, PlaceStep
  <2>4. CASE Crossing(zone, d) # {}
    <3>1. PICK e \in Crossing(zone, d) : Place(zone, ZoneRect(Landing(zone), displays[e]))
      BY <2>1, <2>4
    <3>2. e \in Usable
      BY NeighboursUsable DEF Crossing
    <3>3. Landing(zone) \in BuiltIn \cup DOMAIN CustomZones
      BY DEF Landing, BuiltIn, AllZones
    <3>4. Lies(ZoneRect(Landing(zone), displays[e]), displays[e])
      BY <1>1, <3>2, <3>3, UsableAreas, ZoneInside
    <3> QED  BY <2>2, <3>1, <3>2, <3>4, PlaceStep
  <2> QED  BY <2>3, <2>4
<1>3. ASSUME NEW d \in Owners(geometry), NEW e \in Usable, NEW action \in Keys,
             Place(action, MoveWindowToDisplay(geometry, displays[d], displays[e]))
      PROVE  PlacementIInv'
  <2>1. d \in Usable
    BY OwnersUsable
  <2>2. Lies(MoveWindowToDisplay(geometry, displays[d], displays[e]), displays[e])
    BY <1>1, <2>1, UsableAreas, MovedInside
  <2> QED  BY <1>3, <2>2, PlaceStep
<1>4. CASE MoveToNextDisplay
  <2>1. "next" \in Keys
    BY DEF Keys, Others
  <2> QED  BY <1>3, <1>4, <2>1 DEF MoveToNextDisplay
<1>5. CASE MoveToPreviousDisplay
  <2>1. "previous" \in Keys
    BY DEF Keys, Others
  <2> QED  BY <1>3, <1>5, <2>1 DEF MoveToPreviousDisplay
<1>6. CASE MoveToDisplay
  <2>1. \A direction \in {"left", "right", "up", "down"} : direction \in Keys
    BY DEF Keys, Others
  <2> QED  BY <1>3, <1>6, <2>1, InDirectionUsable DEF MoveToDisplay
<1>7. CASE Center
  <2>1. PICK d \in Owners(geometry) : Place("center", Centered(geometry, displays[d]))
    BY <1>7 DEF Center
  <2>2. d \in Usable /\ displays[d] \in Rect /\ "center" \in Keys
    BY <1>1, OwnersUsable, UsableAreas DEF Keys, Others
  <2>3. Lies(Centered(geometry, displays[d]), displays[d])
    BY <1>1, <2>2, CenteredInside
  <2> QED  BY <2>1, <2>2, <2>3, PlaceStep
<1>8. <<>> \in Seq(Rect)
  OBVIOUS
<1>9. CASE UserDrags
  <2>1. 0 \in 0 .. MaxTurns
    BY LayoutsOK
  <2> QED  BY <1>8, <1>9, <2>1, LayoutsOK DEF UserDrags, PlacementTypeOK, PlacedInside, Keys, Others
<1>10. CASE DisplaysChange
  <2>1. turns + 1 \in 0 .. MaxTurns
    BY <1>10, LayoutsOK DEF DisplaysChange, PlacementTypeOK
  <2> QED  BY <1>8, <1>10, <2>1 DEF DisplaysChange, PlacementTypeOK, PlacedInside, Keys, Others
<1>11. CASE UNCHANGED placementVars
  BY <1>11 DEF placementVars, PlacementTypeOK, PlacedInside, Usable, Within, Right, Bottom
<1> QED  BY <1>2, <1>4, <1>5, <1>6, <1>7, <1>9, <1>10, <1>11 DEF PlacementNext

\* Placement keeps PlacementIInv whatever the displays are.
THEOREM PlacementInvariance == PlacementSpec => []PlacementIInv
BY PlacementInitialInvariant, PlacementInductiveInvariant, PTL DEF PlacementSpec

\* Frames keep positive sizes and integer positions, through every zone, mapping
\* and clamp of executor.rs, zones.rs and display_movement.rs.
THEOREM PlacementTypeCorrectness == PlacementSpec => []PlacementTypeOK
BY PlacementInvariance, PTL DEF PlacementIInv

\* "Every action can rescue it": whatever the window's frame and the displays are,
\* overlapping and empty ones included, a placement lands inside a usable area.
THEOREM PlacementStaysInside == PlacementSpec => []PlacedInside
BY PlacementInvariance, PTL DEF PlacementIInv

\* Both together: a placement is a rectangle of a real size inside one display.
THEOREM PlacementsAreSound == PlacementSpec => []PlacementIsSound
BY PlacementInvariance, PTL DEF PlacementIInv, PlacementIsSound

-----------------------------------------------------------------------------
(* WindowHistory.  The inductive invariant adds to those that are checked  *)
(* what an action in flight carries over (a Restore has its record, and so *)
(* has a placement that found its window at an App frame), and that a      *)
(* record says where the App left its window.                              *)


Astray == dropped \cup settled

InFlight ==
  pending # None =>
    /\ nextSequence < MaxSequence
    /\ pending.target = None => records[pending.window] # None
    /\ pending.window \notin Astray /\ pending.geometry \in AppFrames
         => records[pending.window] # None

LeftAgrees ==
  \A w \in Windows :
    records[w] # None /\ left[w] # None => records[w].applied = left[w]

IInv == TypeOK /\ RestoreIsUsers /\ WayBack /\ HistoryBounded /\ InFlight /\ LeftAgrees

-----------------------------------------------------------------------------
\* A non-empty set of records has an oldest one.
LEMMA OldestExists ==
  ASSUME TypeOK, Remembered # {}
  PROVE  Oldest \in Remembered
<1> DEFINE Sequences == {records[w].sequence : w \in Remembered}
<1>1. \A w \in Remembered : records[w] \in Record
  BY DEF TypeOK, Remembered
<1>2. Sequences \subseteq Nat /\ Sequences # {}
  BY <1>1 DEF Record
<1>3. PICK n \in Sequences : \A m \in Sequences : ~(<<m, n>> \in OpToRel(<, Nat))
  <2> DEFINE R == OpToRel(<, Nat)
  <2>1. IsWellFoundedOn(R, Nat)
    BY NatLessThanWellFounded
  <2> HIDE DEF R, Sequences
  <2>2. \E n \in Sequences : \A m \in Sequences : ~(<<m, n>> \in R)
    BY <1>2, <2>1, WFMin
  <2> QED BY <2>2 DEF R
<1>4. \A m \in Sequences : n <= m
  <2> SUFFICES ASSUME NEW m \in Sequences PROVE n <= m
    OBVIOUS
  <2>1. ~(<<m, n>> \in OpToRel(<, Nat))
    BY <1>3
  <2>2. m \in Nat /\ n \in Nat
    BY <1>2, <1>3
  <2> QED BY <2>1, <2>2 DEF OpToRel
<1>5. \E w \in Remembered : \A v \in Remembered : records[w].sequence <= records[v].sequence
  BY <1>3, <1>4
<1> QED BY <1>5 DEF Oldest

LEMMA RememberedIsFinite ==
  ASSUME TypeOK
  PROVE  IsFiniteSet(Remembered) /\ Cardinality(Remembered) \in Nat
<1>1. Remembered \subseteq Windows
  BY DEF Remembered
<1> QED BY <1>1, ConstantsOK, FS_Subset, FS_CardinalityType

LEMMA RecordIsNotNone == \A r \in Record : r # None
  BY ConstantsOK

\* Making room keeps the bound and evicts only a remembered window.
LEMMA EvictionBounded ==
  ASSUME TypeOK, HistoryBounded, NEW w \in Windows
  PROVE  /\ Evicted(w) \subseteq Remembered
         /\ w \notin Evicted(w)
         /\ Cardinality((Remembered \ Evicted(w)) \cup {w}) <= Capacity
<1>1. IsFiniteSet(Remembered) /\ Cardinality(Remembered) \in Nat /\ Capacity \in Nat \ {0}
  BY RememberedIsFinite, ConstantsOK
<1>2. CASE records[w] # None
  <2>1. Evicted(w) = {} /\ w \in Remembered
    BY <1>2 DEF Evicted, Remembered
  <2>2. (Remembered \ Evicted(w)) \cup {w} = Remembered
    BY <2>1
  <2> QED BY <2>1, <2>2 DEF HistoryBounded
<1>3. CASE records[w] = None /\ Cardinality(Remembered) >= Capacity
  <2>1. Remembered # {}
    BY <1>1, <1>3, FS_EmptySet
  <2>2. Evicted(w) = {Oldest} /\ Oldest \in Remembered /\ w \notin Remembered
    BY <1>3, <2>1, OldestExists DEF Evicted, Remembered
  <2>3. /\ IsFiniteSet(Remembered \ {Oldest})
        /\ Cardinality(Remembered \ {Oldest}) = Cardinality(Remembered) - 1
    BY <1>1, <2>2, FS_RemoveElement
  <2>4. Cardinality((Remembered \ {Oldest}) \cup {w}) = Cardinality(Remembered)
    <3> DEFINE others == Remembered \ {Oldest}
    <3>1. IsFiniteSet(others) /\ Cardinality(others) = Cardinality(Remembered) - 1
          /\ w \notin others
      BY <2>2, <2>3
    <3> HIDE DEF others
    <3>2. Cardinality(others \cup {w}) = Cardinality(others) + 1
      BY <3>1, FS_AddElement
    <3>3. Cardinality(others \cup {w}) = Cardinality(Remembered)
      BY <1>1, <3>1, <3>2
    <3> QED BY <3>3 DEF others
  <2> QED BY <2>2, <2>4 DEF HistoryBounded
<1>4. CASE records[w] = None /\ ~(Cardinality(Remembered) >= Capacity)
  <2>1. Evicted(w) = {} /\ w \notin Remembered
    BY <1>4 DEF Evicted, Remembered
  <2>2. Cardinality(Remembered \cup {w}) = Cardinality(Remembered) + 1
    BY <1>1, <2>1, FS_AddElement
  <2>3. (Remembered \ Evicted(w)) \cup {w} = Remembered \cup {w}
    BY <2>1
  <2> QED BY <1>1, <1>4, <2>1, <2>2, <2>3
<1> QED BY <1>2, <1>3, <1>4

\* remember, record by record.
LEMMA RememberEffect ==
  ASSUME TypeOK, HistoryBounded, nextSequence < MaxSequence,
         NEW w \in Windows, NEW origin \in Frames, NEW applied \in Frames,
         Remember(w, origin, applied)
  PROVE  /\ records' \in [Windows -> Record \cup {None}]
         /\ \A v \in Windows : records'[v] # None => records'[v].sequence < nextSequence'
         /\ nextSequence' \in 0 .. MaxSequence
         /\ dropped' \subseteq Windows /\ dropped \subseteq dropped' /\ settled' = settled
         /\ w \in dropped' => w \in dropped
         /\ records'[w] # None /\ records'[w].applied = applied
         /\ records'[w].restore = IF records[w] = None THEN origin ELSE records[w].restore
         /\ \A v \in Windows \ {w} :
              records'[v] = records[v] \/ (records'[v] = None /\ v \in dropped')
         /\ Cardinality(Remembered') <= Capacity
<1> DEFINE new == [restore |-> IF records[w] = None THEN origin ELSE records[w].restore,
                   applied |-> applied, sequence |-> nextSequence]
<1>1. nextSequence \in Nat /\ nextSequence' = nextSequence + 1 /\ MaxSequence \in Nat
  BY ConstantsOK DEF TypeOK, Remember
<1>2. new \in Record
  <2>1. records[w] # None => records[w].restore \in Frames
    BY DEF TypeOK, Record
  <2> QED BY <1>1, <2>1 DEF Record
<1>3. \A v \in Windows :
        records'[v] = IF v = w THEN new ELSE IF v \in Evicted(w) THEN None ELSE records[v]
  BY DEF Remember
<1>4. /\ Evicted(w) \subseteq Remembered /\ w \notin Evicted(w)
      /\ Cardinality((Remembered \ Evicted(w)) \cup {w}) <= Capacity
  BY EvictionBounded
<1>5. dropped' = dropped \cup Evicted(w) /\ settled' = settled
  BY DEF Remember
<1>6. records' \in [Windows -> Record \cup {None}]
  BY <1>2 DEF Remember, TypeOK
<1>7. new # None /\ new.applied = applied /\ new.sequence = nextSequence
      /\ new.restore = IF records[w] = None THEN origin ELSE records[w].restore
  BY <1>2, RecordIsNotNone
<1> HIDE DEF new
<1>8. \A v \in Windows : records'[v] # None => records'[v].sequence < nextSequence'
  <2> SUFFICES ASSUME NEW v \in Windows, records'[v] # None
               PROVE  records'[v].sequence < nextSequence'
    OBVIOUS
  <2>1. CASE v = w
    BY <1>1, <1>3, <1>7, <2>1
  <2>2. CASE v # w
    <3>1. records'[v] = records[v]
      BY <1>3, <2>2
    <3>2. records[v].sequence \in Nat /\ records[v].sequence < nextSequence
      BY <3>1 DEF TypeOK, Record
    <3> QED BY <1>1, <3>1, <3>2
  <2> QED BY <2>1, <2>2
<1>9. Remembered' = (Remembered \ Evicted(w)) \cup {w}
  BY <1>3, <1>7 DEF Remembered
<1>10. dropped' \subseteq Windows
  BY <1>4, <1>5 DEF TypeOK, Remembered
<1>11. nextSequence' \in 0 .. MaxSequence
  BY <1>1
<1> QED BY <1>3, <1>4, <1>5, <1>6, <1>7, <1>8, <1>9, <1>10, <1>11

\* Records that are dropped, and none added, keep the bound.
LEMMA FewerRecords ==
  ASSUME TypeOK, HistoryBounded, Remembered' \subseteq Remembered
  PROVE  HistoryBounded'
<1>1. Cardinality(Remembered') <= Cardinality(Remembered)
  BY RememberedIsFinite, FS_Subset
<1>2. Cardinality(Remembered') \in Nat /\ Cardinality(Remembered) \in Nat
  BY RememberedIsFinite, FS_Subset, FS_CardinalityType
<1> QED BY <1>1, <1>2, ConstantsOK DEF HistoryBounded
-----------------------------------------------------------------------------
(* The steps.                                                              *)

LEMMA DiscoverStep ==
  ASSUME IInv, Discover
  PROVE  IInv'
<1>1. PICK w \in open, target \in AppFrames \cup {None}, refuse \in BOOLEAN :
        /\ pending = None
        /\ nextSequence < MaxSequence
        /\ records' = [records EXCEPT ![w] = Current(w)]
        /\ LET anew == IF Current(w) = None /\ frame[w] \in UserFrames THEN {w} ELSE {}
           IN dropped' = dropped \ anew /\ settled' = settled \ anew
        /\ pending' = IF (target = None /\ Current(w) = None) \/ (target # None /\ refuse)
                      THEN None
                      ELSE [window |-> w, geometry |-> frame[w], target |-> target]
        /\ UNCHANGED <<desktop, nextSequence, left>>
  BY DEF Discover
<1>2. TypeOK /\ w \in Windows /\ frame[w] \in Frames
  BY <1>1 DEF IInv, TypeOK
<1>3. Current(w) \in {records[w], None}
  BY DEF Current
<1>4. /\ records' \in [Windows -> Record \cup {None}]
      /\ records'[w] = Current(w)
      /\ \A v \in Windows \ {w} : records'[v] = records[v]
      /\ \A v \in Windows : records'[v] # None => records'[v] = records[v]
  BY <1>1, <1>2, <1>3 DEF TypeOK
<1>5. UNCHANGED <<open, frame, late, nextSequence, left>>
  BY <1>1 DEF desktop
<1>6. /\ dropped' \subseteq dropped /\ settled' \subseteq settled
      /\ \A v \in Windows \ {w} : (v \in Astray') <=> (v \in Astray)
      /\ w \in Astray /\ w \notin Astray' => Current(w) = None /\ frame[w] \in UserFrames
  BY <1>1 DEF Astray
<1>7. pending' # None =>
        /\ pending' = [window |-> w, geometry |-> frame[w], target |-> target]
        /\ target = None => Current(w) # None
  BY <1>1
<1>8. TypeOK'
  <2>1. pending' \in Pending \cup {None}
    BY <1>1, <1>2 DEF Pending
  <2> QED BY <1>2, <1>4, <1>5, <1>6, <2>1 DEF TypeOK
<1>9. RestoreIsUsers'
  <2>1. \A v \in Windows : v \in Remembered' /\ v \notin Astray'
          => v \in Remembered /\ v \notin Astray /\ records'[v] = records[v]
    BY <1>4, <1>6 DEF Remembered
  <2> QED BY <2>1 DEF IInv, RestoreIsUsers, Remembered, Astray
<1>10. w \notin Astray /\ frame[w] \in AppFrames
         => Current(w) # None /\ records'[w] = records[w] /\ records[w].applied = frame[w]
  <2> SUFFICES ASSUME w \notin Astray, frame[w] \in AppFrames
               PROVE  Current(w) # None /\ records'[w] = records[w]
                      /\ records[w].applied = frame[w]
    OBVIOUS
  <2>1. records[w] # None /\ records[w].applied = frame[w]
    BY <1>1 DEF IInv, WayBack, Astray
  <2>2. <<frame[w], frame[w]>> \in Near
    BY <1>2, ConstantsOK
  <2> QED BY <1>4, <2>1, <2>2 DEF Current
<1>11. UserFrames \cap AppFrames = {}
  BY ConstantsOK
<1>12. WayBack'
  <2> SUFFICES ASSUME NEW v \in open', v \notin Astray', frame'[v] \in AppFrames
               PROVE  records'[v] # None /\ records'[v].applied = frame'[v]
    BY DEF WayBack, Astray
  <2>1. CASE v = w
    BY <2>1, <1>4, <1>5, <1>6, <1>10, <1>11
  <2>2. CASE v # w
    <3>1. v \in Windows /\ v \notin Astray
      BY <1>2, <1>5, <1>6, <2>2 DEF TypeOK
    <3> QED BY <3>1, <2>2, <1>4, <1>5 DEF IInv, WayBack, Astray
  <2> QED BY <2>1, <2>2
<1>13. HistoryBounded'
  <2>1. Remembered' \subseteq Remembered
    BY <1>4 DEF Remembered
  <2> QED BY <1>2, <2>1, FewerRecords DEF IInv
<1>14. InFlight'
  <2> SUFFICES ASSUME pending' # None
               PROVE  /\ nextSequence' < MaxSequence
                      /\ pending'.target = None => records'[pending'.window] # None
                      /\ pending'.window \notin Astray' /\ pending'.geometry \in AppFrames
                           => records'[pending'.window] # None
    BY DEF InFlight
  <2>1. pending'.window = w /\ pending'.geometry = frame[w] /\ pending'.target = target
    BY <1>7
  <2>2. w \notin Astray' /\ frame[w] \in AppFrames => w \notin Astray
    BY <1>6, <1>11
  <2> QED BY <1>1, <1>4, <1>5, <1>7, <1>10, <2>1, <2>2
<1>15. LeftAgrees'
  BY <1>4, <1>5 DEF IInv, LeftAgrees
<1> QED BY <1>8, <1>9, <1>12, <1>13, <1>14, <1>15 DEF IInv

\* A move that leaves the window of the action at a frame and is remembered.
LEMMA RememberedMove ==
  ASSUME IInv, pending # None, NEW applied \in AppFrames,
         frame' = [frame EXCEPT ![pending.window] = applied],
         left' = [left EXCEPT ![pending.window] = applied],
         late' \in [Windows -> AppFrames \cup {None}],
         Remember(pending.window, pending.geometry, applied),
         pending' = None, UNCHANGED open
  PROVE  IInv'
<1> DEFINE w == pending.window
<1>1. /\ TypeOK /\ HistoryBounded /\ w \in Windows /\ pending.geometry \in Frames
      /\ nextSequence < MaxSequence /\ applied \in Frames
  BY DEF IInv, TypeOK, Pending, InFlight, Frames
<1>2. /\ records' \in [Windows -> Record \cup {None}]
      /\ \A v \in Windows : records'[v] # None => records'[v].sequence < nextSequence'
      /\ nextSequence' \in 0 .. MaxSequence
      /\ dropped' \subseteq Windows /\ dropped \subseteq dropped' /\ settled' = settled
      /\ w \in dropped' => w \in dropped
      /\ records'[w] # None /\ records'[w].applied = applied
      /\ records'[w].restore
           = IF records[w] = None THEN pending.geometry ELSE records[w].restore
      /\ \A v \in Windows \ {w} :
           records'[v] = records[v] \/ (records'[v] = None /\ v \in dropped')
      /\ Cardinality(Remembered') <= Capacity
  BY <1>1, RememberEffect
<1>3. /\ frame' \in [Windows -> Frames] /\ left' \in [Windows -> Frames \cup {None}]
      /\ frame'[w] = applied /\ \A v \in Windows \ {w} : frame'[v] = frame[v]
  BY <1>1 DEF TypeOK
<1> HIDE DEF w
<1>4. TypeOK'
  BY <1>1, <1>2, <1>3 DEF TypeOK
<1>5. RestoreIsUsers'
  <2> SUFFICES ASSUME NEW v \in Windows, records'[v] # None, v \notin dropped', v \notin settled'
               PROVE  records'[v].restore \in UserFrames
    BY DEF RestoreIsUsers, Remembered
  <2>1. v \notin Astray
    BY <1>2 DEF Astray
  <2>2. records[v] # None => records[v].restore \in UserFrames
    BY <2>1 DEF IInv, RestoreIsUsers, Remembered, Astray
  <2>3. CASE v # w
    BY <1>2, <2>2, <2>3
  <2>4. CASE v = w /\ records[w] # None
    BY <1>2, <2>2, <2>4
  <2>5. CASE v = w /\ records[w] = None
    <3>1. pending.geometry \notin AppFrames
      BY <2>1, <2>5 DEF IInv, InFlight, w
    <3> QED BY <1>1, <1>2, <2>5, <3>1 DEF Frames
  <2> QED BY <2>3, <2>4, <2>5
<1>6. WayBack'
  <2> SUFFICES ASSUME NEW v \in open, v \notin dropped', v \notin settled', frame'[v] \in AppFrames
               PROVE  records'[v] # None /\ records'[v].applied = frame'[v]
    BY DEF WayBack
  <2>1. CASE v = w
    BY <1>2, <1>3, <2>1
  <2>2. CASE v # w
    <3>1. v \in Windows /\ v \notin dropped /\ v \notin settled
      BY <1>1, <1>2 DEF TypeOK
    <3>2. frame'[v] = frame[v] /\ records'[v] = records[v]
      BY <1>2, <1>3, <2>2, <3>1
    <3> QED BY <3>1, <3>2 DEF IInv, WayBack
  <2> QED BY <2>1, <2>2
<1>7. HistoryBounded' /\ InFlight'
  BY <1>2 DEF HistoryBounded, InFlight
<1>8. LeftAgrees'
  BY <1>1, <1>2, <1>3 DEF IInv, LeftAgrees, TypeOK, w
<1> QED BY <1>4, <1>5, <1>6, <1>7, <1>8 DEF IInv

LEMMA LaterType ==
  ASSUME IInv, pending # None, NEW slow \in BOOLEAN
  PROVE  Later(slow) \in [Windows -> AppFrames \cup {None}]
  BY DEF Later, IInv, TypeOK, Pending

\* Forgetting a window that is closed, or at a user's frame, or astray.
LEMMA ForgetStep ==
  ASSUME IInv, pending # None, Forget(pending.window), pending' = None,
         UNCHANGED <<open, late>>,
         frame' \in [Windows -> Frames], left' \in [Windows -> Frames \cup {None}],
         \A v \in Windows \ {pending.window} : frame'[v] = frame[v] /\ left'[v] = left[v],
         \/ pending.window \notin open
         \/ frame'[pending.window] \notin AppFrames
         \/ pending.window \in dropped \cup settled
  PROVE  IInv'
<1> DEFINE w == pending.window
<1>1. TypeOK /\ w \in Windows
  BY DEF IInv, TypeOK, Pending
<1>2. /\ records' \in [Windows -> Record \cup {None}] /\ records'[w] = None
      /\ \A v \in Windows \ {w} : records'[v] = records[v]
      /\ UNCHANGED <<nextSequence, dropped, settled>>
  BY <1>1 DEF Forget, TypeOK
<1> HIDE DEF w
<1>3. TypeOK'
  BY <1>1, <1>2 DEF TypeOK
<1>4. RestoreIsUsers' /\ LeftAgrees' /\ InFlight'
  BY <1>1, <1>2 DEF IInv, RestoreIsUsers, LeftAgrees, InFlight, Remembered, w
<1>5. WayBack'
  BY <1>1, <1>2 DEF IInv, WayBack, TypeOK, w
<1>6. HistoryBounded'
  <2>1. Remembered' \subseteq Remembered
    BY <1>2 DEF Remembered
  <2> QED BY <1>1, <2>1, FewerRecords DEF IInv
<1> QED BY <1>3, <1>4, <1>5, <1>6 DEF IInv

LEMMA PlacedStep ==
  ASSUME IInv, Placed
  PROVE  IInv'
<1>1. /\ pending # None /\ pending.window \in open
      /\ frame' = [frame EXCEPT ![pending.window] = Target]
      /\ left' = [left EXCEPT ![pending.window] = Target]
      /\ pending' = None /\ UNCHANGED <<open, late>>
  BY DEF Placed
<1>2. TypeOK /\ pending.window \in Windows /\ pending.target \in AppFrames \cup {None}
  BY <1>1 DEF IInv, TypeOK, Pending
<1>3. CASE pending.target = None
  <2> DEFINE w == pending.window
  <2>1. Forget(w)
    BY <1>3 DEF Placed
  <2>2. records[w] # None /\ Target = records[w].restore
    BY <1>1, <1>3 DEF IInv, InFlight, Target
  <2>3. Target \in Frames
    BY <1>2, <2>2 DEF TypeOK, Record
  <2>4. w \in dropped \cup settled \/ Target \in UserFrames
    BY <1>2, <2>2 DEF IInv, RestoreIsUsers, Remembered
  <2>5. frame'[w] = Target /\ (w \in dropped \cup settled \/ frame'[w] \notin AppFrames)
    BY <1>1, <1>2, <2>4, ConstantsOK DEF TypeOK
  <2>6. /\ frame' \in [Windows -> Frames] /\ left' \in [Windows -> Frames \cup {None}]
        /\ \A v \in Windows \ {w} : frame'[v] = frame[v] /\ left'[v] = left[v]
    BY <1>1, <1>2, <2>3 DEF TypeOK
  <2> QED BY <1>1, <2>1, <2>5, <2>6, ForgetStep
<1>4. CASE pending.target # None
  <2>1. Remember(pending.window, pending.geometry, Target)
    BY <1>4 DEF Placed
  <2>2. Target \in AppFrames
    BY <1>2, <1>4 DEF Target
  <2>3. late' \in [Windows -> AppFrames \cup {None}]
    BY <1>1, <1>2 DEF TypeOK
  <2> QED BY <1>1, <2>1, <2>2, <2>3, RememberedMove
<1> QED BY <1>3, <1>4

LEMMA PartialStep ==
  ASSUME IInv, Partial
  PROVE  IInv'
<1>1. PICK observed \in AppFrames, slow \in BOOLEAN :
        /\ pending # None
        /\ frame' = [frame EXCEPT ![pending.window] = observed]
        /\ left' = [left EXCEPT ![pending.window] = observed]
        /\ Remember(pending.window, pending.geometry, observed)
        /\ late' = Later(slow)
        /\ pending' = None
        /\ UNCHANGED open
  BY DEF Partial
<1> QED BY <1>1, LaterType, RememberedMove

LEMMA GoneStep ==
  ASSUME IInv, Gone
  PROVE  IInv'
<1>1. /\ pending # None /\ pending.window \notin open /\ Forget(pending.window)
      /\ pending' = None /\ UNCHANGED <<open, frame, late, left>>
  BY DEF Gone, desktop
<1>2. frame' \in [Windows -> Frames] /\ left' \in [Windows -> Frames \cup {None}]
  BY <1>1 DEF IInv, TypeOK
<1> QED BY <1>1, <1>2, ForgetStep

LEMMA FailedStep ==
  ASSUME IInv, Failed
  PROVE  IInv'
<1>1. /\ late' \in [Windows -> AppFrames \cup {None}] /\ pending' = None
      /\ UNCHANGED <<open, frame, records, nextSequence, left, dropped, settled>>
  BY LaterType DEF Failed
<1> QED BY <1>1 DEF IInv, TypeOK, RestoreIsUsers, WayBack, HistoryBounded, InFlight,
                    LeftAgrees, Remembered

LEMMA RestartStep ==
  ASSUME IInv, Restart
  PROVE  IInv'
<1>1. /\ records' = [w \in Windows |-> None] /\ nextSequence' = 0 /\ dropped' = Windows
      /\ pending' = None /\ UNCHANGED <<open, frame, late, left, settled>>
  BY DEF Restart, desktop
<1>2. TypeOK'
  BY <1>1, ConstantsOK DEF IInv, TypeOK
<1>3. Remembered' = {}
  BY <1>1 DEF Remembered
<1>4. HistoryBounded'
  BY <1>3, FewerRecords DEF IInv
<1>5. RestoreIsUsers' /\ WayBack' /\ InFlight' /\ LeftAgrees'
  BY <1>1, <1>2, <1>3 DEF RestoreIsUsers, WayBack, InFlight, LeftAgrees, TypeOK
<1> QED BY <1>2, <1>4, <1>5 DEF IInv

\* The desktop touches no record, and brings no window to an App frame that is
\* not astray.
LEMMA DesktopStep ==
  ASSUME IInv, UserMoves \/ Close \/ Opens \/ Settles
  PROVE  IInv'
<1>1. /\ UNCHANGED <<records, nextSequence, pending, dropped>>
      /\ settled \subseteq settled' /\ settled' \subseteq Windows /\ open' \subseteq Windows
      /\ frame' \in [Windows -> Frames] /\ late' \in [Windows -> AppFrames \cup {None}]
      /\ left' \in [Windows -> Frames \cup {None}]
      /\ \A w \in Windows : left'[w] \in {left[w], None}
  <2>1. TypeOK
    BY DEF IInv
  <2>2. CASE UserMoves
    BY <2>1, <2>2 DEF UserMoves, TypeOK, Frames
  <2>3. CASE Close
    BY <2>1, <2>3 DEF Close, TypeOK
  <2>4. CASE Opens
    BY <2>1, <2>4 DEF Opens, TypeOK, Frames
  <2>5. CASE Settles
    BY <2>1, <2>5 DEF Settles, TypeOK, Frames
  <2> QED BY <2>2, <2>3, <2>4, <2>5
<1>2. \A w \in open' \ settled' :
        (w \in open /\ frame'[w] = frame[w]) \/ frame'[w] \in UserFrames
  <2>1. TypeOK
    BY DEF IInv
  <2>2. CASE UserMoves
    BY <2>1, <2>2 DEF UserMoves, TypeOK
  <2>3. CASE Close
    BY <2>1, <2>3 DEF Close, TypeOK
  <2>4. CASE Opens
    BY <2>1, <2>4 DEF Opens, TypeOK
  <2>5. CASE Settles
    BY <2>1, <2>5 DEF Settles, TypeOK
  <2> QED BY <2>2, <2>3, <2>4, <2>5
<1>3. TypeOK'
  BY <1>1 DEF IInv, TypeOK
<1>4. RestoreIsUsers' /\ HistoryBounded' /\ InFlight' /\ LeftAgrees'
  BY <1>1 DEF IInv, RestoreIsUsers, HistoryBounded, InFlight, LeftAgrees, Remembered, Astray
<1>5. WayBack'
  BY <1>1, <1>2, ConstantsOK DEF IInv, WayBack
<1> QED BY <1>3, <1>4, <1>5 DEF IInv

LEMMA InitialInvariant == Init => IInv
<1> SUFFICES ASSUME Init PROVE IInv
  OBVIOUS
<1>1. TypeOK
  BY ConstantsOK DEF Init, TypeOK, Frames
<1>2. Remembered = {}
  BY DEF Init, Remembered
<1>3. HistoryBounded
  BY <1>2, FS_EmptySet, ConstantsOK DEF HistoryBounded
<1>4. \A w \in Windows : frame[w] \notin AppFrames
  BY ConstantsOK DEF Init
<1>5. RestoreIsUsers /\ WayBack /\ InFlight /\ LeftAgrees
  BY <1>1, <1>2, <1>4 DEF Init, RestoreIsUsers, WayBack, InFlight, LeftAgrees, TypeOK
<1> QED BY <1>1, <1>3, <1>5 DEF IInv

-----------------------------------------------------------------------------
\* The inductive invariant holds through every move, failure, restart and step
\* of the desktop.
THEOREM Invariance == Spec => []IInv
<1>1. IInv /\ [Next]_vars => IInv'
  <2> SUFFICES ASSUME IInv, [Next]_vars PROVE IInv'
    OBVIOUS
  <2>1. CASE UNCHANGED vars
    BY <2>1 DEF vars, IInv, TypeOK, RestoreIsUsers, WayBack, HistoryBounded, InFlight,
                LeftAgrees, Remembered, Astray
  <2> QED BY <2>1, DiscoverStep, PlacedStep, PartialStep, FailedStep, GoneStep,
             RestartStep, DesktopStep DEF Next
<1> QED BY <1>1, InitialInvariant, PTL DEF Spec

\* Records, sequence numbers and the action in flight keep their types.
THEOREM TypeCorrectness == Spec => []TypeOK
  BY Invariance, PTL DEF IInv

\* The restore point on record is a frame the user gave the window, whatever
\* moves, partial moves and failures came after it.
THEOREM RestorePointIsUsers == Spec => []RestoreIsUsers
  BY Invariance, PTL DEF IInv

\* Restore points are the user's frames, in a history of bounded size.
THEOREM RestorePointsStaySound == Spec => []RestorePointsAreSound
  BY Invariance, PTL DEF IInv, RestorePointsAreSound

\* A window the App left somewhere can be restored.
THEOREM AlwaysAWayBack == Spec => []WayBack
  BY Invariance, PTL DEF IInv

\* The history never holds more than Capacity windows.
THEOREM BoundedHistory == Spec => []HistoryBounded
  BY Invariance, PTL DEF IInv

\* A window found away from where the App left it is not restored and starts a
\* new history.
THEOREM MovedByHandStartsOver == Spec => ManualMoveWins
<1>1. IInv /\ [Next]_vars =>
        [\A w \in Windows :
           (/\ pending = None /\ pending' # None /\ pending'.window = w
            /\ left[w] # None /\ <<left[w], frame[w]>> \notin Near)
           => pending'.target # None /\ records'[w] = None]_vars
  <2> SUFFICES ASSUME IInv, Next, NEW w \in Windows,
                      pending = None, pending' # None, pending'.window = w,
                      left[w] # None, <<left[w], frame[w]>> \notin Near
               PROVE  pending'.target # None /\ records'[w] = None
    OBVIOUS
  <2>1. Discover
    BY DEF Next, Placed, Partial, Failed, Gone, Restart, UserMoves, Close, Opens, Settles
  <2>2. PICK v \in open, target \in AppFrames \cup {None}, refuse \in BOOLEAN :
          /\ records' = [records EXCEPT ![v] = Current(v)]
          /\ pending' = IF (target = None /\ Current(v) = None) \/ (target # None /\ refuse)
                        THEN None
                        ELSE [window |-> v, geometry |-> frame[v], target |-> target]
    BY <2>1 DEF Discover
  <2>3. pending' = [window |-> v, geometry |-> frame[v], target |-> target]
        /\ (target = None => Current(v) # None)
    BY <2>2
  <2>4. v = w /\ pending'.target = target
    BY <2>3
  <2>5. Current(w) = None
    BY DEF IInv, LeftAgrees, Current
  <2> QED BY <2>2, <2>3, <2>4, <2>5 DEF IInv, TypeOK
<1> QED BY <1>1, Invariance, PTL DEF Spec, ManualMoveWins

-----------------------------------------------------------------------------
\* Whatever the executor follows, it is a behaviour of both parts: the theorems about
\* each hold of execute_action as a whole.
THEOREM ExecutorFollowsBoth == ExecutorSpec => Spec /\ PlacementSpec
<1>1. ExecutorInit => Init /\ PlacementInit
  BY DEF ExecutorInit
<1>2. [ExecutorNext]_executorVars => [Next]_vars /\ [PlacementNext]_placementVars
  BY DEF ExecutorNext, executorVars
<1>3. QED
  BY <1>1, <1>2, PTL DEF ExecutorSpec, Spec, PlacementSpec

-----------------------------------------------------------------------------
(* Placement, when an action is repeated.                                  *)

Sized(f) == f.width > 0 /\ f.height > 0

(***************************************************************************)
(* Usable areas that do not overlap, of displays of which a percent is a   *)
(* pixel and of which halves and thirds differ by more than the tolerance. *)
(***************************************************************************)
OrdinaryDesktops ==
  \A layout \in Layouts :
    /\ \A d, e \in DOMAIN layout :
         d # e /\ Sized(layout[d]) /\ Sized(layout[e]) =>
           ~(SpansOverlapX(layout[d], layout[e]) /\ SpansOverlapY(layout[d], layout[e]))
    /\ \A d \in DOMAIN layout : Sized(layout[d]) =>
         /\ layout[d].width >= 100 /\ layout[d].width >= 6 * (Tolerance + 2)
         /\ layout[d].height >= 100 /\ layout[d].height >= 6 * (Tolerance + 2)

LEMMA ThreeLess ==
  ASSUME NEW a \in Int, NEW b \in Int, NEW c \in Int, NEW k \in Int, NEW m \in Int, NEW n \in Int
  PROVE  LexLess(<<a, b, c>>, <<k, m, n>>) <=>
           a < k \/ (a = k /\ b < m) \/ (a = k /\ b = m /\ c < n)
<1> DEFINE s == <<a, b, c>>
           t == <<k, m, n>>
<1>1. /\ DOMAIN s = {1, 2, 3} /\ s[1] = a /\ s[2] = b /\ s[3] = c
      /\ t[1] = k /\ t[2] = m /\ t[3] = n
  OBVIOUS
<1> HIDE DEF s, t
<1>2. /\ (\A j \in 1 .. 1 - 1 : s[j] = t[j])
      /\ (\A j \in 1 .. 2 - 1 : s[j] = t[j]) <=> s[1] = t[1]
      /\ (\A j \in 1 .. 3 - 1 : s[j] = t[j]) <=> s[1] = t[1] /\ s[2] = t[2]
  <2>1. 1 .. 1 - 1 = {} /\ 1 .. 2 - 1 = {1} /\ 1 .. 3 - 1 = {1, 2}
    OBVIOUS
  <2>2. QED
    BY <2>1
<1>3. LexLess(s, t) <=> \/ s[1] < t[1]
                        \/ s[2] < t[2] /\ s[1] = t[1]
                        \/ s[3] < t[3] /\ s[1] = t[1] /\ s[2] = t[2]
  BY <1>1, <1>2 DEF LexLess
<1>4. QED
  BY <1>1, <1>3 DEF s, t

LEMMA FourLess ==
  ASSUME NEW u \in Int, NEW v \in Int,
         NEW a \in Int, NEW b \in Int, NEW c \in Int, NEW k \in Int, NEW m \in Int, NEW n \in Int
  PROVE  LexLess(<<u>> \o <<a, b, c>>, <<v>> \o <<k, m, n>>) <=>
           u < v \/ (u = v /\ LexLess(<<a, b, c>>, <<k, m, n>>))
<1> DEFINE s == <<u>> \o <<a, b, c>>
           t == <<v>> \o <<k, m, n>>
<1>1. /\ DOMAIN s = {1, 2, 3, 4} /\ s[1] = u /\ s[2] = a /\ s[3] = b /\ s[4] = c
      /\ t[1] = v /\ t[2] = k /\ t[3] = m /\ t[4] = n
  <2>1. ASSUME NEW h \in Int, NEW i \in Int, NEW j \in Int, NEW l \in Int
        PROVE  LET q == <<h>> \o <<i, j, l>>
               IN  DOMAIN q = {1, 2, 3, 4} /\ q[1] = h /\ q[2] = i /\ q[3] = j /\ q[4] = l
    <3> DEFINE p == <<h>>
               r == <<i, j, l>>
               q == p \o r
    <3>1. p \in Seq(Int) /\ Len(p) = 1 /\ p[1] = h
      OBVIOUS
    <3>2. r \in Seq(Int) /\ Len(r) = 3 /\ r[1] = i /\ r[2] = j /\ r[3] = l
      OBVIOUS
    <3> HIDE DEF p, r
    <3>3. q \in Seq(Int) /\ Len(q) = 4
      <4>1. q \in Seq(Int)
        BY <3>1, <3>2, ConcatProperties
      <4>2. Len(q) = Len(p) + Len(r)
        BY <3>1, <3>2, ConcatProperties
      <4>3. QED
        BY <3>1, <3>2, <4>1, <4>2
    <3>4. DOMAIN q = 1 .. 4 /\ 1 .. 4 = {1, 2, 3, 4}
      <4>1. DOMAIN q = 1 .. Len(q)
        BY <3>3
      <4>2. QED
        BY <3>3, <4>1
    <3>5. \A z \in 1 .. Len(p) + Len(r) : q[z] = IF z <= Len(p) THEN p[z] ELSE r[z - Len(p)]
      BY <3>1, <3>2, ConcatProperties
    <3> HIDE DEF q
    <3>6. DOMAIN q = {1, 2, 3, 4} /\ q[1] = h /\ q[2] = i /\ q[3] = j /\ q[4] = l
      BY <3>1, <3>2, <3>4, <3>5
    <3>7. QED
      BY <3>6 DEF p, r, q
  <2>2. QED
    BY <2>1
<1> HIDE DEF s, t
<1>2. /\ (\A j \in 1 .. 1 - 1 : s[j] = t[j])
      /\ (\A j \in 1 .. 2 - 1 : s[j] = t[j]) <=> s[1] = t[1]
      /\ (\A j \in 1 .. 3 - 1 : s[j] = t[j]) <=> s[1] = t[1] /\ s[2] = t[2]
      /\ (\A j \in 1 .. 4 - 1 : s[j] = t[j]) <=> s[1] = t[1] /\ s[2] = t[2] /\ s[3] = t[3]
  <2>1. 1 .. 1 - 1 = {} /\ 1 .. 2 - 1 = {1} /\ 1 .. 3 - 1 = {1, 2} /\ 1 .. 4 - 1 = {1, 2, 3}
    OBVIOUS
  <2>2. QED
    BY <2>1
<1>3. LexLess(s, t) <=> \/ s[1] < t[1]
                        \/ s[2] < t[2] /\ s[1] = t[1]
                        \/ s[3] < t[3] /\ s[1] = t[1] /\ s[2] = t[2]
                        \/ s[4] < t[4] /\ s[1] = t[1] /\ s[2] = t[2] /\ s[3] = t[3]
  BY <1>1, <1>2 DEF LexLess
<1>4. QED
  BY <1>1, <1>3, ThreeLess DEF s, t

LEMMA CenterInside ==
  ASSUME NEW a \in Rect, NEW f \in Rect, Within(f, a), Sized(f)
  PROVE  Contains(a, CenterX(f), CenterY(f)) /\ CenterX(f) \in Int /\ CenterY(f) \in Int
<1>1. /\ f.x \in Int /\ f.y \in Int /\ f.width \in Nat \ {0} /\ f.height \in Nat \ {0}
      /\ a.x \in Int /\ a.y \in Int /\ a.width \in Nat /\ a.height \in Nat
  BY DEF Rect, Sized
<1>2. /\ f.width \div 2 \in Nat /\ f.width \div 2 < f.width
      /\ f.height \div 2 \in Nat /\ f.height \div 2 < f.height
  BY <1>1, Halves
<1>3. QED
  BY <1>1, <1>2 DEF Within, Contains, Right, Bottom, CenterX, CenterY

LEMMA OneContains ==
  ASSUME OrdinaryDesktops, displays \in Layouts, NEW d \in Usable, NEW e \in Usable,
         NEW x \in Int, NEW y \in Int, Contains(displays[d], x, y), Contains(displays[e], x, y)
  PROVE  d = e
<1>1. displays[d] \in Rect /\ displays[e] \in Rect
  BY UsableAreas
<1>2. Sized(displays[d]) /\ Sized(displays[e]) /\ d \in DOMAIN displays /\ e \in DOMAIN displays
  BY DEF Usable, Sized
<1>3. SpansOverlapX(displays[d], displays[e]) /\ SpansOverlapY(displays[d], displays[e])
  <2>1. \A a, b \in Rect : Contains(a, x, y) /\ Contains(b, x, y) =>
          SpansOverlapX(a, b) /\ SpansOverlapY(a, b)
    <3>1. TAKE a, b \in Rect
    <3>2. /\ a.x \in Int /\ a.y \in Int /\ a.width \in Nat /\ a.height \in Nat
          /\ b.x \in Int /\ b.y \in Int /\ b.width \in Nat /\ b.height \in Nat
      BY DEF Rect
    <3>3. QED
      BY <3>2 DEF Contains, SpansOverlapX, SpansOverlapY, Right, Bottom
  <2>2. QED
    BY <1>1, <2>1
<1>4. QED
  BY <1>2, <1>3 DEF OrdinaryDesktops

LEMMA OrderIs ==
  ASSUME displays \in Layouts, NEW d \in Usable
  PROVE  d \in Int /\ displays[d].x \in Int /\ displays[d].y \in Int
<1>1. displays \in Seq(Rect) /\ d \in DOMAIN displays
  BY LayoutsOK DEF Usable
<1>2. d \in Int
  BY <1>1
<1>3. QED
  BY <1>2, UsableAreas DEF Rect

\* A window within a display is that display's.
LEMMA OwnerIs ==
  ASSUME OrdinaryDesktops, displays \in Layouts, NEW d \in Usable, NEW f,
         Lies(f, displays[d]), Sized(f)
  PROVE  Owners(f) = {d}
<1> DEFINE containing == {e \in Usable : Contains(displays[e], CenterX(f), CenterY(f))}
<1>1. displays[d] \in Rect
  BY UsableAreas
<1>2. Contains(displays[d], CenterX(f), CenterY(f)) /\ CenterX(f) \in Int /\ CenterY(f) \in Int
  BY <1>1, CenterInside DEF Lies
<1>3. containing = {d}
  BY <1>2, OneContains
<1>4. Owners(f) = Least([e \in containing |-> Order(e)])
  BY <1>3 DEF Owners
<1>5. ~LexLess(Order(d), Order(d))
  BY OrderIs, ThreeLess DEF Order
<1> DEFINE keys == [e \in containing |-> Order(e)]
<1>6. DOMAIN keys = {d} /\ keys[d] = Order(d)
  BY <1>3
<1> HIDE DEF keys
<1>7. Least(keys) = {d}
  BY <1>5, <1>6 DEF Least
<1>8. QED
  BY <1>4, <1>7 DEF keys

LEMMA OrderDecides ==
  ASSUME displays \in Layouts, NEW d \in Usable, NEW e \in Usable,
         ~LexLess(Order(d), Order(e)), ~LexLess(Order(e), Order(d))
  PROVE  d = e
<1> DEFINE xd == displays[d].x
           yd == displays[d].y
           xe == displays[e].x
           ye == displays[e].y
<1>1. d \in Int /\ xd \in Int /\ yd \in Int
  BY OrderIs
<1>2. e \in Int /\ xe \in Int /\ ye \in Int
  BY OrderIs
<1>3. Order(d) = <<xd, yd, d>> /\ Order(e) = <<xe, ye, e>>
  BY DEF Order
<1> HIDE DEF xd, yd, xe, ye
<1>4. LexLess(<<xd, yd, d>>, <<xe, ye, e>>) <=>
        xd < xe \/ (xd = xe /\ yd < ye) \/ (xd = xe /\ yd = ye /\ d < e)
  BY <1>1, <1>2, ThreeLess
<1>5. LexLess(<<xe, ye, e>>, <<xd, yd, d>>) <=>
        xe < xd \/ (xe = xd /\ ye < yd) \/ (xe = xd /\ ye = yd /\ e < d)
  BY <1>1, <1>2, ThreeLess
<1>6. ~LexLess(<<xd, yd, d>>, <<xe, ye, e>>) /\ ~LexLess(<<xe, ye, e>>, <<xd, yd, d>>)
  BY <1>3
<1>7. QED
  BY <1>1, <1>2, <1>4, <1>5, <1>6

\* ... even when a number goes first.
LEMMA NumberedDecides ==
  ASSUME displays \in Layouts, NEW d \in Usable, NEW e \in Usable, NEW u \in Int, NEW v \in Int,
         ~LexLess(<<u>> \o Order(d), <<v>> \o Order(e)), ~LexLess(<<v>> \o Order(e), <<u>> \o Order(d))
  PROVE  d = e
<1> DEFINE xd == displays[d].x
           yd == displays[d].y
           xe == displays[e].x
           ye == displays[e].y
<1>1. d \in Int /\ xd \in Int /\ yd \in Int
  BY OrderIs
<1>2. e \in Int /\ xe \in Int /\ ye \in Int
  BY OrderIs
<1>3. Order(d) = <<xd, yd, d>> /\ Order(e) = <<xe, ye, e>>
  BY DEF Order
<1> HIDE DEF xd, yd, xe, ye
<1>4. LexLess(<<u>> \o <<xd, yd, d>>, <<v>> \o <<xe, ye, e>>) <=>
        u < v \/ (u = v /\ LexLess(<<xd, yd, d>>, <<xe, ye, e>>))
  BY <1>1, <1>2, FourLess
<1>5. LexLess(<<v>> \o <<xe, ye, e>>, <<u>> \o <<xd, yd, d>>) <=>
        v < u \/ (v = u /\ LexLess(<<xe, ye, e>>, <<xd, yd, d>>))
  BY <1>1, <1>2, FourLess
<1>6. ~LexLess(Order(d), Order(e)) /\ ~LexLess(Order(e), Order(d))
  BY <1>3, <1>4, <1>5
<1>7. QED
  BY <1>6, OrderDecides

\* A window belongs to one display at most, wherever it is.
LEMMA OneOwner ==
  ASSUME displays \in Layouts, NEW f \in Rect, NEW d \in Owners(f), NEW e \in Owners(f)
  PROVE  d = e
<1> DEFINE containing == {c \in Usable : Contains(displays[c], CenterX(f), CenterY(f))}
           overlap(c) == OverlapArea(displays[c], f)
           distance(c) == DistanceSquared(displays[c], CenterX(f), CenterY(f))
           inside == [c \in containing |-> Order(c)]
           overlapping == [c \in Usable |-> <<-overlap(c)>> \o Order(c)]
           near == [c \in Usable |-> <<distance(c)>> \o Order(c)]
<1>1. Owners(f) \in {Least(inside), Least(overlapping), Least(near)}
  BY DEF Owners
<1>2. /\ f.x \in Int /\ f.y \in Int /\ f.width \in Nat /\ f.height \in Nat
      /\ CenterX(f) \in Int /\ CenterY(f) \in Int
  <2>1. f.x \in Int /\ f.y \in Int /\ f.width \in Nat /\ f.height \in Nat
    BY DEF Rect
  <2>2. f.width \div 2 \in Nat /\ f.height \div 2 \in Nat
    BY <2>1, Halves
  <2>3. QED
    BY <2>1, <2>2 DEF CenterX, CenterY
<1>3. \A c \in Usable : overlap(c) \in Int /\ -overlap(c) \in Int /\ distance(c) \in Int
  <2>1. TAKE c \in Usable
  <2> DEFINE a == displays[c]
  <2>2. a.x \in Int /\ a.y \in Int /\ a.width \in Nat /\ a.height \in Nat
    BY UsableAreas DEF Rect
  <2>3. /\ Right(a) \in Int /\ Bottom(a) \in Int /\ Right(f) \in Int /\ Bottom(f) \in Int
    BY <1>2, <2>2 DEF Right, Bottom
  <2> HIDE DEF a
  <2>4. \A p, q, r, s \in Int : Span(p, q, r, s) \in Int
    BY DEF Span, Larger, Smaller
  <2>5. \A p, q, r \in Int : Clamp(p, q, r) \in Int
    BY DEF Clamp, Larger, Smaller
  <2>6. \A p, q \in Int : p * q \in Int /\ p - q \in Int /\ p + q \in Int /\ -p \in Int
    OBVIOUS
  <2>7. OverlapArea(a, f) \in Int
    <3>1. Span(a.x, Right(a), f.x, Right(f)) \in Int /\ Span(a.y, Bottom(a), f.y, Bottom(f)) \in Int
      BY <1>2, <2>2, <2>3, <2>4
    <3>2. QED
      BY <2>6, <3>1 DEF OverlapArea
  <2>8. DistanceSquared(a, CenterX(f), CenterY(f)) \in Int
    <3> DEFINE dx == CenterX(f) - Clamp(CenterX(f), a.x, Right(a) - 1)
               dy == CenterY(f) - Clamp(CenterY(f), a.y, Bottom(a) - 1)
    <3>1. Right(a) - 1 \in Int /\ Bottom(a) - 1 \in Int
      BY <2>3
    <3>2. Clamp(CenterX(f), a.x, Right(a) - 1) \in Int /\ Clamp(CenterY(f), a.y, Bottom(a) - 1) \in Int
      BY <1>2, <2>2, <2>5, <3>1
    <3>3. dx \in Int /\ dy \in Int
      BY <1>2, <2>6, <3>2
    <3>4. DistanceSquared(a, CenterX(f), CenterY(f)) = dx * dx + dy * dy
      BY DEF DistanceSquared
    <3> HIDE DEF dx, dy
    <3>5. QED
      BY <2>6, <3>3, <3>4
  <2>9. QED
    BY <2>6, <2>7, <2>8 DEF a
<1>4. Owners(f) \subseteq Usable
  BY OwnersUsable
<1> HIDE DEF overlap, distance
<1>5. CASE Owners(f) = Least(inside)
  <2>1. d \in containing /\ e \in containing
    BY <1>5 DEF Least
  <2>2. ~LexLess(inside[e], inside[d]) /\ ~LexLess(inside[d], inside[e])
    BY <1>5 DEF Least
  <2>3. inside[e] = Order(e) /\ inside[d] = Order(d)
    BY <2>1
  <2>4. QED
    BY <1>4, <2>2, <2>3, OrderDecides
<1>6. CASE Owners(f) = Least(overlapping)
  <2>1. ~LexLess(overlapping[e], overlapping[d]) /\ ~LexLess(overlapping[d], overlapping[e])
    BY <1>6 DEF Least
  <2>2. overlapping[e] = <<-overlap(e)>> \o Order(e) /\ overlapping[d] = <<-overlap(d)>> \o Order(d)
    BY <1>4
  <2>3. QED
    BY <1>3, <1>4, <2>1, <2>2, NumberedDecides
<1>7. CASE Owners(f) = Least(near)
  <2>1. ~LexLess(near[e], near[d]) /\ ~LexLess(near[d], near[e])
    BY <1>7 DEF Least
  <2>2. near[e] = <<distance(e)>> \o Order(e) /\ near[d] = <<distance(d)>> \o Order(d)
    BY <1>4
  <2>3. QED
    BY <1>3, <1>4, <2>1, <2>2, NumberedDecides
<1>8. QED
  BY <1>1, <1>5, <1>6, <1>7

(***************************************************************************)
(* Zones of ordinary areas.                                                *)
(***************************************************************************)
Roomy(a) ==
  /\ a \in Rect
  /\ a.width >= 100 /\ a.width >= 6 * (Tolerance + 2)
  /\ a.height >= 100 /\ a.height >= 6 * (Tolerance + 2)

LEMMA UsableIsRoomy ==
  ASSUME OrdinaryDesktops, displays \in Layouts, NEW d \in Usable
  PROVE  Roomy(displays[d])
<1>1. displays[d] \in Rect /\ d \in DOMAIN displays /\ Sized(displays[d])
  BY UsableAreas DEF Usable, Sized
<1>2. QED
  BY <1>1 DEF Roomy, OrdinaryDesktops

\* One percent more of an ordinary length is a pixel more.
LEMMA PercentGrows ==
  ASSUME NEW n \in Nat, n >= 100, NEW p \in 0 .. 100, NEW q \in 1 .. 100, p + q <= 100
  PROVE  /\ Percent(p, n) \in Nat /\ Percent(p + q, n) \in Nat
         /\ Percent(p, n) < Percent(p + q, n) /\ Percent(p + q, n) <= n
<1>1. \A k, m \in Nat : k + 100 <= m => k \div 100 \in Nat /\ m \div 100 \in Nat
                                         /\ k \div 100 < m \div 100
  BY SMT
<1>2. \A k, m \in Nat : k <= 100 * m => k \div 100 <= m
  BY SMT
<1> DEFINE k == n * p
           m == n * (p + q)
<1>3. k \in Nat /\ m \in Nat
  <2>1. p \in Nat /\ p + q \in Nat
    OBVIOUS
  <2>2. QED
    BY <2>1, ProductIsNat
<1>4. m = k + n * q /\ n * q \in Nat
  <2>1. \A x, y, z \in Nat : x * (y + z) = x * y + x * z /\ x * z \in Nat
    OBVIOUS
  <2>2. QED
    BY <2>1
<1>5. n * q >= 100
  <2>1. \A x, y \in Nat : y >= 1 => x * y >= x
    <3>1. SUFFICES ASSUME NEW x \in Nat, NEW y \in Nat, y >= 1 PROVE x * y >= x
      OBVIOUS
    <3>2. x * y = x + x * (y - 1) /\ y - 1 \in Nat
      BY <3>1
    <3>3. x * (y - 1) \in Nat
      BY <3>2, ProductIsNat
    <3>4. QED
      BY <3>2, <3>3
  <2>2. q \in Nat /\ q >= 1
    OBVIOUS
  <2>3. n * q >= n /\ n * q \in Nat
    BY <2>1, <2>2, ProductIsNat
  <2>4. QED
    BY <2>3
<1>6. m <= 100 * n
  <2>1. \A x, y \in Nat : y <= 100 => x * y <= 100 * x
    <3>1. SUFFICES ASSUME NEW x \in Nat, NEW y \in Nat, y <= 100 PROVE x * y <= 100 * x
      OBVIOUS
    <3>2. 100 * x = x * y + x * (100 - y) /\ 100 - y \in Nat
      BY <3>1
    <3>3. x * (100 - y) \in Nat
      BY <3>2, ProductIsNat
    <3>4. x * y \in Nat
      BY ProductIsNat
    <3>5. QED
      BY <3>2, <3>3, <3>4
  <2>2. p + q \in Nat /\ p + q <= 100
    OBVIOUS
  <2>3. QED
    BY <2>1, <2>2
<1>7. Percent(p, n) = k \div 100 /\ Percent(p + q, n) = m \div 100
  BY DEF Percent
<1> HIDE DEF k, m
<1>8. k + 100 <= m
  BY <1>3, <1>4, <1>5
<1>9. QED
  BY <1>1, <1>2, <1>3, <1>6, <1>7, <1>8

LEMMA BuiltInSized ==
  ASSUME NEW a, Roomy(a), NEW zone \in BuiltIn
  PROVE  Sized(BuiltInRect(zone, a))
<1>1. /\ a.x \in Int /\ a.y \in Int /\ a.width \in Nat /\ a.height \in Nat
      /\ a.width >= 100 /\ a.height >= 100
  BY DEF Rect, Roomy
<1>2. /\ a.width \div 2 \in Nat /\ a.width \div 2 > 0
      /\ a.height \div 2 \in Nat /\ a.height \div 2 > 0
      /\ a.width \div 3 \in Nat /\ a.width \div 3 > 0 /\ 3 * (a.width \div 3) <= a.width
  BY <1>1, SMT
<1>3. zone \in {"left-half", "right-half", "top-half", "bottom-half", "top-left",
                "top-right", "bottom-left", "bottom-right", "left-third",
                "center-third", "right-third", "left-two-thirds",
                "right-two-thirds", "maximize"}
  BY DEF BuiltIn, AllZones
<1>4. BuiltInRect(zone, a).width \in {a.width \div 2, a.width \div 3, a.width,
         a.width - a.width \div 3, a.width - a.width \div 3 - a.width \div 3}
  BY <1>3 DEF BuiltInRect, LeftFraction, RightFraction, TopHalf, BottomHalf, CenterThird,
              LeftTwoThirds, RightTwoThirds, Rectangle
<1>5. BuiltInRect(zone, a).height \in {a.height \div 2, a.height}
  BY <1>3 DEF BuiltInRect, LeftFraction, RightFraction, TopHalf, BottomHalf, CenterThird,
              LeftTwoThirds, RightTwoThirds, Rectangle
<1>6. QED
  BY <1>1, <1>2, <1>4, <1>5 DEF Sized

LEMMA CustomSized ==
  ASSUME NEW a, Roomy(a), NEW z \in ZoneDefinition,
         z.x + z.width <= 100, z.y + z.height <= 100
  PROVE  Sized(RectInArea(z, a))
<1> DEFINE west   == Clamp(a.x + Percent(z.x, a.width), a.x, Right(a))
           top    == Clamp(a.y + Percent(z.y, a.height), a.y, Bottom(a))
           right  == Clamp(a.x + Percent(z.x + z.width, a.width), west, Right(a))
           bottom == Clamp(a.y + Percent(z.y + z.height, a.height), top, Bottom(a))
           p1 == Percent(z.x, a.width)
           p2 == Percent(z.x + z.width, a.width)
           p3 == Percent(z.y, a.height)
           p4 == Percent(z.y + z.height, a.height)
<1>1. /\ a.x \in Int /\ a.y \in Int /\ a.width \in Nat /\ a.height \in Nat
      /\ a.width >= 100 /\ a.height >= 100
  BY DEF Rect, Roomy
<1>2. z.x \in 0 .. 100 /\ z.y \in 0 .. 100 /\ z.width \in 1 .. 100 /\ z.height \in 1 .. 100
  BY DEF ZoneDefinition
<1>3. p1 \in Nat /\ p2 \in Nat /\ p1 < p2 /\ p2 <= a.width
  BY <1>1, <1>2, PercentGrows
<1>4. p3 \in Nat /\ p4 \in Nat /\ p3 < p4 /\ p4 <= a.height
  BY <1>1, <1>2, PercentGrows
<1>5. RectInArea(z, a) = Rectangle(west, top, right - west, bottom - top)
  BY DEF RectInArea
<1>6. /\ west = Clamp(a.x + p1, a.x, Right(a)) /\ right = Clamp(a.x + p2, west, Right(a))
      /\ top = Clamp(a.y + p3, a.y, Bottom(a)) /\ bottom = Clamp(a.y + p4, top, Bottom(a))
  OBVIOUS
<1> HIDE DEF west, top, right, bottom, p1, p2, p3, p4
<1>7. west = a.x + p1 /\ right = a.x + p2
  BY <1>1, <1>3, <1>6 DEF Clamp, Smaller, Larger, Right
<1>8. top = a.y + p3 /\ bottom = a.y + p4
  BY <1>1, <1>4, <1>6 DEF Clamp, Smaller, Larger, Bottom
<1>9. right - west > 0 /\ bottom - top > 0
  BY <1>1, <1>3, <1>4, <1>7, <1>8
<1>10. QED
  BY <1>5, <1>9 DEF Sized, Rectangle

LEMMA ZoneSized ==
  ASSUME NEW a, Roomy(a), NEW zone \in BuiltIn \cup DOMAIN CustomZones
  PROVE  Sized(ZoneRect(zone, a))
<1>1. CASE zone \in BuiltIn
  BY <1>1, BuiltInSized DEF ZoneRect
<1>2. CASE zone \notin BuiltIn
  <2>1. /\ CustomZones[zone] \in ZoneDefinition
        /\ CustomZones[zone].x + CustomZones[zone].width <= 100
        /\ CustomZones[zone].y + CustomZones[zone].height <= 100
    BY <1>2, LayoutsOK
  <2>2. QED
    BY <1>2, <2>1, CustomSized DEF ZoneRect
<1>3. QED
  BY <1>1, <1>2

\* A window in a zone of a display is that display's.
LEMMA ZoneOwner ==
  ASSUME OrdinaryDesktops, displays \in Layouts, NEW d \in Usable,
         NEW zone \in BuiltIn \cup DOMAIN CustomZones
  PROVE  Owners(ZoneRect(zone, displays[d])) = {d}
<1>1. displays[d] \in Rect /\ Roomy(displays[d])
  BY UsableAreas, UsableIsRoomy
<1>2. Lies(ZoneRect(zone, displays[d]), displays[d])
  BY <1>1, ZoneInside
<1>3. Sized(ZoneRect(zone, displays[d]))
  BY <1>1, ZoneSized
<1>4. QED
  BY <1>2, <1>3, OwnerIs

\* Only a repeated half takes a window to another display, and only to one of its row.
LEMMA ZoneStep ==
  ASSUME OrdinaryDesktops, PlacementTypeOK, MoveToZone
  PROVE  \A d \in Owners(geometry), e \in Owners(geometry') :
           \/ d = e
           \/ /\ key' \in {"left-half", "right-half"}
              /\ SpansOverlapY(displays[d], displays[e])
<1>1. displays \in Layouts /\ geometry \in Rect
  BY DEF PlacementTypeOK
<1>2. PICK d \in Owners(geometry), zone \in BuiltIn \cup DOMAIN CustomZones :
        IF Crossing(zone, d) = {}
        THEN Place(zone, ZoneRect(zone, displays[d]))
        ELSE \E e \in Crossing(zone, d) : Place(zone, ZoneRect(Landing(zone), displays[e]))
  BY DEF MoveToZone
<1>3. d \in Usable
  BY OwnersUsable
<1>4. \A c \in Owners(geometry) : c = d
  BY <1>1, OneOwner
<1>5. CASE Crossing(zone, d) = {}
  <2>1. geometry' = ZoneRect(zone, displays[d])
    BY <1>2, <1>5 DEF Place
  <2>2. Owners(geometry') = {d}
    BY <1>1, <1>3, <2>1, ZoneOwner
  <2>3. QED
    BY <1>4, <2>2
<1>6. CASE Crossing(zone, d) # {}
  <2>1. PICK e \in Crossing(zone, d) : Place(zone, ZoneRect(Landing(zone), displays[e]))
    BY <1>2, <1>6
  <2>2. zone \in {"left-half", "right-half"} /\ e \in Neighbours(d, zone = "left-half")
    BY <2>1 DEF Crossing
  <2>3. e \in Usable
    BY <2>2, NeighboursUsable
  <2>4. SpansOverlapY(displays[d], displays[e])
    BY <2>2 DEF Neighbours, Least
  <2>5. Landing(zone) \in BuiltIn \cup DOMAIN CustomZones
    BY <2>2 DEF Landing, BuiltIn, AllZones
  <2>6. key' = zone /\ geometry' = ZoneRect(Landing(zone), displays[e])
    BY <2>1 DEF Place
  <2>7. Owners(geometry') = {e}
    BY <1>1, <2>3, <2>5, <2>6, ZoneOwner
  <2>8. QED
    BY <1>4, <2>2, <2>4, <2>6, <2>7
<1>7. QED
  BY <1>5, <1>6

\* "The neighbour must overlap vertically": no zone, built in or the user's, takes a
\* window from one row of displays to another, wherever the window was.
THEOREM ZonesKeepTheRow ==
  ASSUME OrdinaryDesktops
  PROVE  PlacementSpec => ZonesStayInRow
<1>1. PlacementTypeOK /\ [PlacementNext]_placementVars =>
        [key' \in BuiltIn \cup DOMAIN CustomZones =>
           \A d \in Owners(geometry), e \in Owners(geometry') :
             \/ d = e
             \/ /\ key' \in {"left-half", "right-half"}
                /\ SpansOverlapY(displays[d], displays[e])]_placementVars
  <2>1. SUFFICES ASSUME PlacementTypeOK, PlacementNext, key' \in BuiltIn \cup DOMAIN CustomZones
                 PROVE  \A d \in Owners(geometry), e \in Owners(geometry') :
                          \/ d = e
                          \/ /\ key' \in {"left-half", "right-half"}
                             /\ SpansOverlapY(displays[d], displays[e])
    OBVIOUS
  <2>2. key' \notin Others
    BY <2>1, LayoutsOK DEF Others, BuiltIn, AllZones
  <2>3. MoveToZone
    BY <2>1, <2>2 DEF PlacementNext, MoveToNextDisplay, MoveToPreviousDisplay, MoveToDisplay,
                      Center, UserDrags, DisplaysChange, Place, Others
  <2>4. QED
    BY <2>1, <2>3, ZoneStep
<1>2. PlacementSpec => []PlacementTypeOK
  BY PlacementTypeCorrectness
<1>3. QED
  BY <1>1, <1>2, PTL DEF PlacementSpec, ZonesStayInRow

(***************************************************************************)
(* The built-in zones of an ordinary area differ.                          *)
(***************************************************************************)
\* The frame that reaches from (west, north) to (east, south) in an area.
Reaches(f, a, west, north, east, south) ==
  /\ f.x = a.x + west /\ f.y = a.y + north
  /\ Right(f) = a.x + east /\ Bottom(f) = a.y + south

\* What each zone reaches.
ZoneReaches(zone, f, a, Half, Row, Third) ==
  /\ zone = "left-half" => Reaches(f, a, 0, 0, Half, a.height)
  /\ zone = "right-half" => Reaches(f, a, a.width - Half, 0, a.width, a.height)
  /\ zone = "top-half" => Reaches(f, a, 0, 0, a.width, Row)
  /\ zone = "bottom-half" => Reaches(f, a, 0, a.height - Row, a.width, a.height)
  /\ zone = "top-left" => Reaches(f, a, 0, 0, Half, Row)
  /\ zone = "top-right" => Reaches(f, a, a.width - Half, 0, a.width, Row)
  /\ zone = "bottom-left" => Reaches(f, a, 0, a.height - Row, Half, a.height)
  /\ zone = "bottom-right" => Reaches(f, a, a.width - Half, a.height - Row, a.width, a.height)
  /\ zone = "left-third" => Reaches(f, a, 0, 0, Third, a.height)
  /\ zone = "center-third" => Reaches(f, a, Third, 0, a.width - Third, a.height)
  /\ zone = "right-third" => Reaches(f, a, a.width - Third, 0, a.width, a.height)
  /\ zone = "left-two-thirds" => Reaches(f, a, 0, 0, a.width - Third, a.height)
  /\ zone = "right-two-thirds" => Reaches(f, a, Third, 0, a.width, a.height)
  /\ zone = "maximize" => Reaches(f, a, 0, 0, a.width, a.height)

LEMMA ZoneReachesIt ==
  ASSUME NEW a \in Rect, NEW zone \in BuiltIn
  PROVE  ZoneReaches(zone, BuiltInRect(zone, a), a, a.width \div 2, a.height \div 2, a.width \div 3)
<1> DEFINE Half == a.width \div 2
           Row == a.height \div 2
           Third == a.width \div 3
<1>1. /\ a.x \in Int /\ a.y \in Int /\ a.width \in Nat /\ a.height \in Nat
      /\ Half \in Nat /\ Row \in Nat /\ Third \in Nat
  BY Halves, Thirds DEF Rect
<1>2. zone = "left-half" => Reaches(BuiltInRect(zone, a), a, 0, 0, Half, a.height)
  <2>1. HAVE zone = "left-half"
  <2>2. BuiltInRect(zone, a) = Rectangle(a.x, a.y, Half, a.height)
    BY <1>1, <2>1 DEF BuiltInRect, LeftFraction, Rectangle
  <2>3. QED
    BY <1>1, <2>2 DEF Reaches, Rectangle, Right, Bottom
<1>3. zone = "right-half" => Reaches(BuiltInRect(zone, a), a, a.width - Half, 0, a.width, a.height)
  <2>1. HAVE zone = "right-half"
  <2>2. BuiltInRect(zone, a) = Rectangle(a.x + a.width - Half, a.y, Half, a.height)
    BY <1>1, <2>1 DEF BuiltInRect, RightFraction, Right, Rectangle
  <2>3. QED
    BY <1>1, <2>2 DEF Reaches, Rectangle, Right, Bottom
<1>4. zone = "top-half" => Reaches(BuiltInRect(zone, a), a, 0, 0, a.width, Row)
  <2>1. HAVE zone = "top-half"
  <2>2. BuiltInRect(zone, a) = Rectangle(a.x, a.y, a.width, Row)
    BY <1>1, <2>1 DEF BuiltInRect, TopHalf, Rectangle
  <2>3. QED
    BY <1>1, <2>2 DEF Reaches, Rectangle, Right, Bottom
<1>5. zone = "bottom-half" => Reaches(BuiltInRect(zone, a), a, 0, a.height - Row, a.width, a.height)
  <2>1. HAVE zone = "bottom-half"
  <2>2. BuiltInRect(zone, a) = Rectangle(a.x, a.y + a.height - Row, a.width, Row)
    BY <1>1, <2>1 DEF BuiltInRect, BottomHalf, Bottom, Rectangle
  <2>3. QED
    BY <1>1, <2>2 DEF Reaches, Rectangle, Right, Bottom
<1>6. zone = "top-left" => Reaches(BuiltInRect(zone, a), a, 0, 0, Half, Row)
  <2>1. HAVE zone = "top-left"
  <2>2. BuiltInRect(zone, a) = Rectangle(a.x, a.y, Half, Row)
    BY <1>1, <2>1 DEF BuiltInRect, TopHalf, LeftFraction, Rectangle
  <2>3. QED
    BY <1>1, <2>2 DEF Reaches, Rectangle, Right, Bottom
<1>7. zone = "top-right" => Reaches(BuiltInRect(zone, a), a, a.width - Half, 0, a.width, Row)
  <2>1. HAVE zone = "top-right"
  <2>2. BuiltInRect(zone, a) = Rectangle(a.x + a.width - Half, a.y, Half, Row)
    BY <1>1, <2>1 DEF BuiltInRect, TopHalf, RightFraction, Right, Rectangle
  <2>3. QED
    BY <1>1, <2>2 DEF Reaches, Rectangle, Right, Bottom
<1>8. zone = "bottom-left" => Reaches(BuiltInRect(zone, a), a, 0, a.height - Row, Half, a.height)
  <2>1. HAVE zone = "bottom-left"
  <2>2. BuiltInRect(zone, a) = Rectangle(a.x, a.y + a.height - Row, Half, Row)
    BY <1>1, <2>1 DEF BuiltInRect, BottomHalf, LeftFraction, Bottom, Rectangle
  <2>3. QED
    BY <1>1, <2>2 DEF Reaches, Rectangle, Right, Bottom
<1>9. zone = "bottom-right" => Reaches(BuiltInRect(zone, a), a, a.width - Half, a.height - Row, a.width, a.height)
  <2>1. HAVE zone = "bottom-right"
  <2>2. BuiltInRect(zone, a) = Rectangle(a.x + a.width - Half, a.y + a.height - Row, Half, Row)
    BY <1>1, <2>1 DEF BuiltInRect, BottomHalf, RightFraction, Bottom, Right, Rectangle
  <2>3. QED
    BY <1>1, <2>2 DEF Reaches, Rectangle, Right, Bottom
<1>10. zone = "left-third" => Reaches(BuiltInRect(zone, a), a, 0, 0, Third, a.height)
  <2>1. HAVE zone = "left-third"
  <2>2. BuiltInRect(zone, a) = Rectangle(a.x, a.y, Third, a.height)
    BY <1>1, <2>1 DEF BuiltInRect, LeftFraction, Rectangle
  <2>3. QED
    BY <1>1, <2>2 DEF Reaches, Rectangle, Right, Bottom
<1>11. zone = "center-third" => Reaches(BuiltInRect(zone, a), a, Third, 0, a.width - Third, a.height)
  <2>1. HAVE zone = "center-third"
  <2>2. BuiltInRect(zone, a) = Rectangle(a.x + Third, a.y, a.width - Third - Third, a.height)
    BY <1>1, <2>1 DEF BuiltInRect, CenterThird, Rectangle
  <2>3. QED
    BY <1>1, <2>2 DEF Reaches, Rectangle, Right, Bottom
<1>12. zone = "right-third" => Reaches(BuiltInRect(zone, a), a, a.width - Third, 0, a.width, a.height)
  <2>1. HAVE zone = "right-third"
  <2>2. BuiltInRect(zone, a) = Rectangle(a.x + a.width - Third, a.y, Third, a.height)
    BY <1>1, <2>1 DEF BuiltInRect, RightFraction, Right, Rectangle
  <2>3. QED
    BY <1>1, <2>2 DEF Reaches, Rectangle, Right, Bottom
<1>13. zone = "left-two-thirds" => Reaches(BuiltInRect(zone, a), a, 0, 0, a.width - Third, a.height)
  <2>1. HAVE zone = "left-two-thirds"
  <2>2. BuiltInRect(zone, a) = Rectangle(a.x, a.y, a.width - Third, a.height)
    BY <1>1, <2>1 DEF BuiltInRect, LeftTwoThirds, Rectangle
  <2>3. QED
    BY <1>1, <2>2 DEF Reaches, Rectangle, Right, Bottom
<1>14. zone = "right-two-thirds" => Reaches(BuiltInRect(zone, a), a, Third, 0, a.width, a.height)
  <2>1. HAVE zone = "right-two-thirds"
  <2>2. BuiltInRect(zone, a) = Rectangle(a.x + Third, a.y, a.width - Third, a.height)
    BY <1>1, <2>1 DEF BuiltInRect, RightTwoThirds, Rectangle
  <2>3. QED
    BY <1>1, <2>2 DEF Reaches, Rectangle, Right, Bottom
<1>15. zone = "maximize" => Reaches(BuiltInRect(zone, a), a, 0, 0, a.width, a.height)
  <2>1. HAVE zone = "maximize"
  <2>2. BuiltInRect(zone, a) = a
    BY <2>1 DEF BuiltInRect
  <2>3. QED
    BY <1>1, <2>2 DEF Reaches, Right, Bottom
<1> HIDE DEF Half, Row, Third
<1>16. ZoneReaches(zone, BuiltInRect(zone, a), a, Half, Row, Third)
  BY <1>2, <1>3, <1>4, <1>5, <1>6, <1>7, <1>8, <1>9, <1>10, <1>11, <1>12, <1>13, <1>14, <1>15 DEF ZoneReaches
<1>17. QED
  BY <1>16 DEF Half, Row, Third

LEMMA ZonesDiffer ==
  ASSUME NEW a, Roomy(a), NEW y \in BuiltIn, NEW z \in BuiltIn,
         NearlyEquals(BuiltInRect(y, a), BuiltInRect(z, a))
  PROVE  y = z
<1> DEFINE Half == a.width \div 2
           Row == a.height \div 2
           Third == a.width \div 3
           f == BuiltInRect(y, a)
           g == BuiltInRect(z, a)
<1>1. /\ a \in Rect /\ a.x \in Int /\ a.y \in Int /\ a.width \in Nat /\ a.height \in Nat
      /\ Tolerance \in Nat /\ a.width >= 6 * (Tolerance + 2) /\ a.height >= 6 * (Tolerance + 2)
  BY LayoutsOK DEF Rect, Roomy
<1>2. /\ Half \in Nat /\ Row \in Nat /\ Third \in Nat
      /\ 2 * Half <= a.width /\ a.width <= 2 * Half + 1
      /\ 2 * Row <= a.height /\ a.height <= 2 * Row + 1
      /\ 3 * Third <= a.width /\ a.width <= 3 * Third + 2
  BY <1>1, SMT
<1>3. ZoneReaches(y, f, a, Half, Row, Third) /\ ZoneReaches(z, g, a, Half, Row, Third)
  BY <1>1, ZoneReachesIt
<1>4. /\ Abs(f.x - g.x) <= Tolerance /\ Abs(f.y - g.y) <= Tolerance
      /\ Abs(Right(f) - Right(g)) <= Tolerance /\ Abs(Bottom(f) - Bottom(g)) <= Tolerance
  BY DEF NearlyEquals
<1>5. z \in {"left-half", "right-half", "top-half", "bottom-half", "top-left", "top-right", "bottom-left", "bottom-right", "left-third", "center-third", "right-third", "left-two-thirds", "right-two-thirds", "maximize"} /\ y \in {"left-half", "right-half", "top-half", "bottom-half", "top-left", "top-right", "bottom-left", "bottom-right", "left-third", "center-third", "right-third", "left-two-thirds", "right-two-thirds", "maximize"}
  BY DEF BuiltIn, AllZones
<1> HIDE DEF Half, Row, Third, f, g
<1> USE DEF Reaches, Abs
<1>6. CASE y = "left-half"
  BY <1>1, <1>2, <1>3, <1>4, <1>5, <1>6 DEF ZoneReaches
<1>7. CASE y = "right-half"
  BY <1>1, <1>2, <1>3, <1>4, <1>5, <1>7 DEF ZoneReaches
<1>8. CASE y = "top-half"
  BY <1>1, <1>2, <1>3, <1>4, <1>5, <1>8 DEF ZoneReaches
<1>9. CASE y = "bottom-half"
  BY <1>1, <1>2, <1>3, <1>4, <1>5, <1>9 DEF ZoneReaches
<1>10. CASE y = "top-left"
  BY <1>1, <1>2, <1>3, <1>4, <1>5, <1>10 DEF ZoneReaches
<1>11. CASE y = "top-right"
  BY <1>1, <1>2, <1>3, <1>4, <1>5, <1>11 DEF ZoneReaches
<1>12. CASE y = "bottom-left"
  BY <1>1, <1>2, <1>3, <1>4, <1>5, <1>12 DEF ZoneReaches
<1>13. CASE y = "bottom-right"
  BY <1>1, <1>2, <1>3, <1>4, <1>5, <1>13 DEF ZoneReaches
<1>14. CASE y = "left-third"
  BY <1>1, <1>2, <1>3, <1>4, <1>5, <1>14 DEF ZoneReaches
<1>15. CASE y = "center-third"
  BY <1>1, <1>2, <1>3, <1>4, <1>5, <1>15 DEF ZoneReaches
<1>16. CASE y = "right-third"
  BY <1>1, <1>2, <1>3, <1>4, <1>5, <1>16 DEF ZoneReaches
<1>17. CASE y = "left-two-thirds"
  BY <1>1, <1>2, <1>3, <1>4, <1>5, <1>17 DEF ZoneReaches
<1>18. CASE y = "right-two-thirds"
  BY <1>1, <1>2, <1>3, <1>4, <1>5, <1>18 DEF ZoneReaches
<1>19. CASE y = "maximize"
  BY <1>1, <1>2, <1>3, <1>4, <1>5, <1>19 DEF ZoneReaches
<1>20. QED
  BY <1>5, <1>6, <1>7, <1>8, <1>9, <1>10, <1>11, <1>12, <1>13, <1>14, <1>15, <1>16, <1>17, <1>18, <1>19

\* A frame nearly equals itself.
LEMMA NearlyItself ==
  ASSUME NEW f \in Rect
  PROVE  NearlyEquals(f, f)
<1>1. f.x \in Int /\ f.y \in Int /\ Right(f) \in Int /\ Bottom(f) \in Int /\ Tolerance \in Nat
  BY LayoutsOK DEF Rect, Right, Bottom
<1>2. \A m \in Int : Abs(m - m) = 0
  BY DEF Abs
<1>3. QED
  BY <1>1, <1>2 DEF NearlyEquals

\* A window in a zone is known to be in that zone, and is taken to the same one.
LEMMA KnownZoneMoves ==
  ASSUME NEW a, Roomy(a), NEW b \in Rect, NEW zone \in BuiltIn
  PROVE  MoveWindowToDisplay(BuiltInRect(zone, a), a, b) = BuiltInRect(zone, b)
<1> DEFINE f == BuiltInRect(zone, a)
<1>1. PICK i \in DOMAIN AllZones : AllZones[i] = zone
  BY DEF BuiltIn
<1>2. f \in Rect
  BY BuiltInInside DEF Lies, Roomy
<1>3. NearlyEquals(f, f)
  BY <1>2, NearlyItself
<1>4. \A j \in DOMAIN AllZones : NearlyEquals(f, BuiltInRect(AllZones[j], a)) => AllZones[j] = zone
  <2>1. TAKE j \in DOMAIN AllZones
  <2>2. AllZones[j] \in BuiltIn
    BY DEF BuiltIn
  <2>3. QED
    BY <2>2, ZonesDiffer
<1>5. i \in KnownZones(f, a) /\ KnownZones(f, a) \subseteq DOMAIN AllZones
  BY <1>1, <1>3 DEF KnownZones
<1>6. \A j \in KnownZones(f, a) : AllZones[j] = zone
  BY <1>4 DEF KnownZones
<1> DEFINE first == CHOOSE j \in KnownZones(f, a) : \A k \in KnownZones(f, a) : j <= k
<1>7. KnownZones(f, a) # {} /\ KnownZones(f, a) \in SUBSET Nat
  BY <1>5 DEF AllZones
<1>8. first \in KnownZones(f, a)
  BY <1>7, FirstExists
<1>9. AllZones[first] = zone
  BY <1>6, <1>8
<1>10. MoveWindowToDisplay(f, a, b) = BuiltInRect(AllZones[first], b)
  BY <1>7 DEF MoveWindowToDisplay
<1> HIDE DEF first
<1>11. QED
  BY <1>9, <1>10

(***************************************************************************)
(* The displays' places in their order.                                    *)
(***************************************************************************)
LEMMA OrderIsTransitive ==
  ASSUME displays \in Layouts, NEW c \in Usable, NEW d \in Usable, NEW e \in Usable,
         LexLess(Order(c), Order(d)), LexLess(Order(d), Order(e))
  PROVE  LexLess(Order(c), Order(e)) /\ c # e
<1> DEFINE xc == displays[c].x
           yc == displays[c].y
           xd == displays[d].x
           yd == displays[d].y
           xe == displays[e].x
           ye == displays[e].y
<1>1. c \in Int /\ xc \in Int /\ yc \in Int
  BY OrderIs
<1>2. d \in Int /\ xd \in Int /\ yd \in Int
  BY OrderIs
<1>3. e \in Int /\ xe \in Int /\ ye \in Int
  BY OrderIs
<1>4. Order(c) = <<xc, yc, c>> /\ Order(d) = <<xd, yd, d>> /\ Order(e) = <<xe, ye, e>>
  BY DEF Order
<1>5. c = e => xc = xe /\ yc = ye
  OBVIOUS
<1> HIDE DEF xc, yc, xd, yd, xe, ye
<1>6. xc < xd \/ (xc = xd /\ yc < yd) \/ (xc = xd /\ yc = yd /\ c < d)
  BY <1>1, <1>2, <1>4, ThreeLess
<1>7. xd < xe \/ (xd = xe /\ yd < ye) \/ (xd = xe /\ yd = ye /\ d < e)
  BY <1>2, <1>3, <1>4, ThreeLess
<1>8. xc < xe \/ (xc = xe /\ yc < ye) \/ (xc = xe /\ yc = ye /\ c < e)
  BY <1>1, <1>2, <1>3, <1>6, <1>7
<1>9. LexLess(<<xc, yc, c>>, <<xe, ye, e>>)
  BY <1>1, <1>3, <1>8, ThreeLess
<1>10. c # e
  BY <1>1, <1>2, <1>6, <1>7, <1>5
<1>11. QED
  BY <1>4, <1>9, <1>10

LEMMA UsableIsFinite ==
  ASSUME displays \in Layouts
  PROVE  IsFiniteSet(Usable) /\ Cardinality(Usable) \in Nat
<1>1. displays \in Seq(Rect)
  BY LayoutsOK
<1>2. Usable \subseteq 1 .. Len(displays) /\ Len(displays) \in Nat
  BY <1>1 DEF Usable
<1>3. IsFiniteSet(1 .. Len(displays))
  BY <1>2, FS_Interval
<1>4. QED
  BY <1>2, <1>3, FS_Subset, FS_CardinalityType

\* The displays before one.
Before(d) == {e \in Usable : LexLess(Order(e), Order(d))}

LEMMA PositionIs ==
  ASSUME displays \in Layouts, NEW d \in Usable
  PROVE  /\ Position(d) = Cardinality(Before(d)) /\ IsFiniteSet(Before(d))
         /\ Position(d) \in Nat /\ Position(d) < Cardinality(Usable)
         /\ d \notin Before(d) /\ Before(d) \subseteq Usable
<1>1. d \notin Before(d)
  <2>1. ASSUME d \in Before(d)
        PROVE  FALSE
    <3>1. LexLess(Order(d), Order(d))
      BY <2>1 DEF Before
    <3>2. QED
      BY <3>1, OrderIsTransitive
  <2>2. QED
    BY <2>1
<1>2. Before(d) \subseteq Usable
  BY DEF Before
<1>3. IsFiniteSet(Before(d)) /\ Cardinality(Before(d)) \in Nat
  BY <1>2, UsableIsFinite, FS_Subset, FS_CardinalityType
<1>4. Cardinality(Before(d)) < Cardinality(Usable)
  <2>1. Before(d) # Usable
    BY <1>1
  <2>2. Cardinality(Before(d)) <= Cardinality(Usable)
        /\ (Cardinality(Before(d)) = Cardinality(Usable) => Before(d) = Usable)
    BY <1>2, UsableIsFinite, FS_Subset
  <2>3. QED
    BY <1>3, <2>1, <2>2, UsableIsFinite
<1>5. QED
  BY <1>1, <1>2, <1>3, <1>4 DEF Position, Before

LEMMA BeforeIsFirst ==
  ASSUME displays \in Layouts, NEW d \in Usable, NEW e \in Usable, LexLess(Order(d), Order(e))
  PROVE  Position(d) < Position(e)
<1>1. Before(d) \subseteq Before(e) /\ d \in Before(e) /\ d \notin Before(d)
  <2>1. \A c \in Before(d) : c \in Before(e)
    <3>1. TAKE c \in Before(d)
    <3>2. c \in Usable /\ LexLess(Order(c), Order(d))
      BY DEF Before
    <3>3. LexLess(Order(c), Order(e))
      BY <3>2, OrderIsTransitive
    <3>4. QED
      BY <3>2, <3>3 DEF Before
  <2>2. QED
    BY <2>1, PositionIs DEF Before
<1>2. Position(e) = Cardinality(Before(e)) /\ IsFiniteSet(Before(e)) /\ Position(e) \in Nat
  BY PositionIs
<1>3. Position(d) = Cardinality(Before(d)) /\ Position(d) \in Nat
  BY PositionIs
<1>4. /\ Cardinality(Before(d)) <= Cardinality(Before(e))
      /\ Cardinality(Before(d)) = Cardinality(Before(e)) => Before(d) = Before(e)
  BY <1>1, <1>2, FS_Subset
<1>5. QED
  BY <1>1, <1>2, <1>3, <1>4

\* Two displays have two places.
LEMMA PositionDecides ==
  ASSUME displays \in Layouts, NEW d \in Usable, NEW e \in Usable, Position(d) = Position(e)
  PROVE  d = e
<1>1. Position(d) \in Nat
  BY PositionIs
<1>2. ~LexLess(Order(d), Order(e)) /\ ~LexLess(Order(e), Order(d))
  <2>1. ASSUME LexLess(Order(d), Order(e))
        PROVE  FALSE
    BY <1>1, <2>1, BeforeIsFirst
  <2>2. ASSUME LexLess(Order(e), Order(d))
        PROVE  FALSE
    BY <1>1, <2>2, BeforeIsFirst
  <2>3. QED
    BY <2>1, <2>2
<1>3. QED
  BY <1>2, OrderDecides

(***************************************************************************)
(* Going round.                                                            *)
(***************************************************************************)
LEMMA ModulusOfMultiple ==
  ASSUME NEW n \in Nat \ {0}, NEW k \in Int
  PROVE  (k * n) % n = 0
  BY SMT

LEMMA MultipleOfModulus ==
  ASSUME NEW n \in Nat \ {0}, NEW m \in Int, m % n = 0
  PROVE  \E k \in Int : m = k * n
  BY SMT

LEMMA NextPlace ==
  ASSUME NEW n \in Nat \ {0}, NEW p \in 0 .. n - 1
  PROVE  /\ (p + 1) % n = IF p + 1 < n THEN p + 1 ELSE 0
         /\ (p + n - 1) % n = IF p = 0 THEN n - 1 ELSE p - 1
  BY SMT

\* What goes from each place to the next, goes all the way.
LEMMA StepByStep ==
  ASSUME NEW first \in Nat, NEW last \in Nat, NEW S, first \in S,
         \A j \in first .. last - 1 : j \in S => j + 1 \in S
  PROVE  \A j \in first .. last : j \in S
<1>1. SUFFICES ASSUME NEW m \in first .. last, m \notin S
               PROVE  FALSE
  OBVIOUS
<1> DEFINE Bad == {j \in first .. last : j \notin S}
<1>2. Bad \in SUBSET Nat /\ Bad # {}
  BY <1>1
<1>3. PICK j \in Bad : \A k \in Bad : j <= k
  BY <1>2, FirstExists
<1>4. j \in first .. last /\ j \notin S /\ j # first
  BY <1>3
<1>5. j - 1 \in first .. last - 1 /\ (j - 1) + 1 = j
  BY <1>4
<1>6. j - 1 \in first .. last /\ j - 1 < j
  BY <1>4
<1>7. j - 1 \notin Bad
  BY <1>3, <1>6
<1>8. j - 1 \in S
  BY <1>6, <1>7
<1>9. QED
  BY <1>4, <1>5, <1>8

\* MoveToNextDisplay or MoveToPreviousDisplay takes a window from f to g.
LapStep(action, f, g) == \E d \in Owners(f), e \in Usable :
  /\ Cardinality(Usable) > 1
  /\ Position(e) = IF action = "next"
                   THEN (Position(d) + 1) % Cardinality(Usable)
                   ELSE (Position(d) + Cardinality(Usable) - 1) % Cardinality(Usable)
  /\ g = MoveWindowToDisplay(f, displays[d], displays[e])

\* From which display to which, and that a zone stays the zone.
LEMMA LapStepIs ==
  ASSUME OrdinaryDesktops, displays \in Layouts, NEW f \in Rect, NEW g, Sized(g), NEW action,
         LapStep(action, f, g)
  PROVE  \E d \in Usable, e \in Usable :
           /\ Owners(f) = {d} /\ Owners(g) = {e}
           /\ Position(e) = IF action = "next"
                            THEN IF Position(d) + 1 < Cardinality(Usable) THEN Position(d) + 1 ELSE 0
                            ELSE IF Position(d) = 0 THEN Cardinality(Usable) - 1 ELSE Position(d) - 1
           /\ \A zone \in BuiltIn : f = BuiltInRect(zone, displays[d]) => g = BuiltInRect(zone, displays[e])
<1> DEFINE n == Cardinality(Usable)
<1>1. PICK d \in Owners(f), e \in Usable :
        /\ n > 1
        /\ Position(e) = IF action = "next" THEN (Position(d) + 1) % n ELSE (Position(d) + n - 1) % n
        /\ g = MoveWindowToDisplay(f, displays[d], displays[e])
  BY DEF LapStep
<1>2. d \in Usable /\ Owners(f) = {d}
  BY <1>1, OwnersUsable, OneOwner
<1>3. /\ displays[d] \in Rect /\ displays[d].width > 0 /\ displays[d].height > 0
      /\ displays[e] \in Rect
  BY <1>2, UsableAreas
<1>4. Lies(g, displays[e])
  BY <1>1, <1>3, MovedInside
<1>5. Owners(g) = {e}
  BY <1>4, OwnerIs
<1>6. Position(d) \in 0 .. n - 1 /\ n \in Nat \ {0}
  BY <1>1, <1>2, PositionIs, UsableIsFinite
<1>7. Position(e) = IF action = "next"
                    THEN IF Position(d) + 1 < n THEN Position(d) + 1 ELSE 0
                    ELSE IF Position(d) = 0 THEN n - 1 ELSE Position(d) - 1
  <2> DEFINE p == Position(d)
  <2>1. p \in 0 .. n - 1
    BY <1>6
  <2> HIDE DEF p, n
  <2>2. (p + 1) % n = (IF p + 1 < n THEN p + 1 ELSE 0) /\ (p + n - 1) % n = (IF p = 0 THEN n - 1 ELSE p - 1)
    BY <1>6, <2>1, NextPlace
  <2>3. QED
    BY <1>1, <2>2 DEF p
<1>8. Roomy(displays[d])
  BY <1>2, UsableIsRoomy
<1>9. \A zone \in BuiltIn : f = BuiltInRect(zone, displays[d]) => g = BuiltInRect(zone, displays[e])
  BY <1>1, <1>3, <1>8, KnownZoneMoves
<1>10. QED
  BY <1>2, <1>5, <1>7, <1>9

LapTrail(action, w) == \A i \in 1 .. Len(w) - 1 : LapStep(action, w[i], w[i + 1])

\* The display that owns a frame.
Home(f) == CHOOSE d \in Usable : Owners(f) = {d}

LEMMA HomeIs == ASSUME NEW f, NEW d \in Usable, Owners(f) = {d} PROVE Home(f) = d
  BY DEF Home

\* What LapStepIs says, of homes.
LEMMA LapHomes ==
  ASSUME OrdinaryDesktops, displays \in Layouts, NEW w \in Seq(Rect), Len(w) > 1,
         \A i \in DOMAIN w : Sized(w[i]), NEW action, LapTrail(action, w)
  PROVE  /\ \A i \in 1 .. Len(w) : Home(w[i]) \in Usable /\ Owners(w[i]) = {Home(w[i])}
         /\ \A i \in 1 .. Len(w) - 1 :
              /\ Position(Home(w[i + 1])) =
                   IF action = "next"
                   THEN IF Position(Home(w[i])) + 1 < Cardinality(Usable) THEN Position(Home(w[i])) + 1 ELSE 0
                   ELSE IF Position(Home(w[i])) = 0 THEN Cardinality(Usable) - 1 ELSE Position(Home(w[i])) - 1
              /\ \A zone \in BuiltIn : w[i] = BuiltInRect(zone, displays[Home(w[i])])
                                         => w[i + 1] = BuiltInRect(zone, displays[Home(w[i + 1])])
<1>1. ASSUME NEW i \in 1 .. Len(w) - 1
      PROVE  /\ Home(w[i]) \in Usable /\ Owners(w[i]) = {Home(w[i])}
             /\ Home(w[i + 1]) \in Usable /\ Owners(w[i + 1]) = {Home(w[i + 1])}
             /\ Position(Home(w[i + 1])) =
                   IF action = "next"
                   THEN IF Position(Home(w[i])) + 1 < Cardinality(Usable) THEN Position(Home(w[i])) + 1 ELSE 0
                   ELSE IF Position(Home(w[i])) = 0 THEN Cardinality(Usable) - 1 ELSE Position(Home(w[i])) - 1
             /\ \A zone \in BuiltIn : w[i] = BuiltInRect(zone, displays[Home(w[i])])
                                         => w[i + 1] = BuiltInRect(zone, displays[Home(w[i + 1])])
  <2>1. i \in DOMAIN w /\ i + 1 \in DOMAIN w /\ w[i] \in Rect /\ w[i + 1] \in Rect
    <3>1. i \in 1 .. Len(w) /\ i + 1 \in 1 .. Len(w)
      OBVIOUS
    <3>2. QED
      BY <3>1
  <2> DEFINE f == w[i]
             g == w[i + 1]
  <2>2. f \in Rect /\ Sized(g) /\ LapStep(action, f, g)
    BY <2>1 DEF LapTrail
  <2> HIDE DEF f, g
  <2>3. PICK d \in Usable, e \in Usable :
           /\ Owners(f) = {d} /\ Owners(g) = {e}
           /\ Position(e) = IF action = "next"
                            THEN IF Position(d) + 1 < Cardinality(Usable) THEN Position(d) + 1 ELSE 0
                            ELSE IF Position(d) = 0 THEN Cardinality(Usable) - 1 ELSE Position(d) - 1
           /\ \A zone \in BuiltIn : f = BuiltInRect(zone, displays[d]) => g = BuiltInRect(zone, displays[e])
    BY <2>2, LapStepIs
  <2>4. Home(f) = d /\ Home(g) = e
    BY <2>3, HomeIs
  <2>5. QED
    BY <2>3, <2>4 DEF f, g
<1>2. \A i \in 1 .. Len(w) : i \in 1 .. Len(w) - 1 \/ (i - 1 \in 1 .. Len(w) - 1 /\ (i - 1) + 1 = i)
  OBVIOUS
<1>3. \A i \in 1 .. Len(w) : Home(w[i]) \in Usable /\ Owners(w[i]) = {Home(w[i])}
  <2>1. TAKE i \in 1 .. Len(w)
  <2>2. CASE i \in 1 .. Len(w) - 1
    BY <1>1, <2>2
  <2>3. CASE i - 1 \in 1 .. Len(w) - 1 /\ (i - 1) + 1 = i
    <3>1. Home(w[(i - 1) + 1]) \in Usable /\ Owners(w[(i - 1) + 1]) = {Home(w[(i - 1) + 1])}
      BY <1>1, <2>3
    <3>2. QED
      BY <2>3, <3>1
  <2>4. QED
    BY <1>2, <2>2, <2>3
<1>4. QED
  BY <1>1, <1>3

\* A multiple of n that is less than n is nothing.
LEMMA SmallMultiple ==
  ASSUME NEW n \in Nat \ {0}, NEW k \in Int, -n < k * n, k * n < n
  PROVE  k = 0
<1>1. k < 1
  <2>1. ASSUME k >= 1 PROVE FALSE
    <3>1. k - 1 \in Nat /\ k * n = (k - 1) * n + n
      BY <2>1
    <3>2. (k - 1) * n \in Nat
      BY <3>1, ProductIsNat
    <3>3. QED
      BY <3>1, <3>2
  <2>2. QED
    BY <2>1
<1>2. k > -1
  <2>1. ASSUME k <= -1 PROVE FALSE
    <3>1. (-1) - k \in Nat /\ ((-1) - k) * n = (-n) - k * n /\ k * n \in Int
      BY <2>1
    <3>2. ((-1) - k) * n \in Nat
      BY <3>1, ProductIsNat
    <3>3. QED
      BY <3>1, <3>2
  <2>2. QED
    BY <2>1
<1>3. QED
  BY <1>1, <1>2

\* Places that follow each other round a table of n differ by the steps between.
LEMMA RoundTheTable ==
  ASSUME NEW n \in Nat \ {0}, NEW m \in Nat, NEW p \in [1 .. m -> 0 .. n - 1], NEW onwards \in BOOLEAN,
         \A i \in 1 .. m - 1 : p[i + 1] = IF onwards THEN IF p[i] + 1 < n THEN p[i] + 1 ELSE 0
                                                     ELSE IF p[i] = 0 THEN n - 1 ELSE p[i] - 1,
         NEW i \in 1 .. m, NEW j \in i .. m
  PROVE  \E k \in Int : p[j] = p[i] + (IF onwards THEN j - i ELSE i - j) + k * n
<1> DEFINE S == {h \in i .. m : \E k \in Int : p[h] = p[i] + (IF onwards THEN h - i ELSE i - h) + k * n}
<1>1. i \in S
  <2>1. 0 \in Int /\ p[i] = p[i] + 0 + 0 * n
    OBVIOUS
  <2>2. i \in i .. m /\ i - i = 0
    OBVIOUS
  <2>3. QED
    BY <2>1, <2>2
<1>2. ASSUME NEW h \in i .. m - 1, h \in S
      PROVE  h + 1 \in S
  <2>1. PICK k \in Int : p[h] = p[i] + (IF onwards THEN h - i ELSE i - h) + k * n
    BY <1>2
  <2>2. h \in 1 .. m - 1 /\ h \in 1 .. m /\ h + 1 \in 1 .. m /\ h + 1 \in i .. m
    OBVIOUS
  <2>3. p[h] \in 0 .. n - 1 /\ p[h + 1] \in 0 .. n - 1 /\ p[i] \in 0 .. n - 1
    BY <2>2
  <2>4. p[h + 1] = IF onwards THEN IF p[h] + 1 < n THEN p[h] + 1 ELSE 0
                              ELSE IF p[h] = 0 THEN n - 1 ELSE p[h] - 1
    BY <2>2
  <2>5. k * n \in Int /\ (k + 1) * n = k * n + n /\ (k - 1) * n = k * n - n
    OBVIOUS
  <2> DEFINE a == p[h]
             b == p[h + 1]
             c == p[i]
             far == k * n
  <2>6. \E l \in {k - 1, k, k + 1} : b = c + (IF onwards THEN (h + 1) - i ELSE i - (h + 1)) + l * n
    <3>1. CASE onwards
      <4>1. a = c + (h - i) + far /\ b = IF a + 1 < n THEN a + 1 ELSE 0
        BY <2>1, <2>4, <3>1
      <4>2. (k - 1) * n = far - n /\ a \in 0 .. n - 1 /\ c \in Int /\ far \in Int
        BY <2>3, <2>5
      <4> HIDE DEF a, b, c, far
      <4>3. CASE a + 1 < n
        <5>1. b = c + ((h + 1) - i) + far
          BY <4>1, <4>2, <4>3
        <5>2. QED
          BY <3>1, <5>1 DEF far
      <4>4. CASE ~(a + 1 < n)
        <5>1. b = c + ((h + 1) - i) + (far - n)
          BY <4>1, <4>2, <4>4
        <5>2. QED
          BY <3>1, <4>2, <5>1
      <4>5. QED
        BY <4>3, <4>4
    <3>2. CASE ~onwards
      <4>1. a = c + (i - h) + far /\ b = IF a = 0 THEN n - 1 ELSE a - 1
        BY <2>1, <2>4, <3>2
      <4>2. (k + 1) * n = far + n /\ a \in 0 .. n - 1 /\ c \in Int /\ far \in Int
        BY <2>3, <2>5
      <4> HIDE DEF a, b, c, far
      <4>3. CASE a # 0
        <5>1. b = c + (i - (h + 1)) + far
          BY <4>1, <4>2, <4>3
        <5>2. QED
          BY <3>2, <5>1 DEF far
      <4>4. CASE a = 0
        <5>1. b = c + (i - (h + 1)) + (far + n)
          BY <4>1, <4>2, <4>4
        <5>2. QED
          BY <3>2, <4>2, <5>1
      <4>5. QED
        BY <4>3, <4>4
    <3>3. QED
      BY <3>1, <3>2
  <2>7. \E l \in Int : p[h + 1] = p[i] + (IF onwards THEN (h + 1) - i ELSE i - (h + 1)) + l * n
    BY <2>6
  <2>8. QED
    BY <2>2, <2>7
<1> HIDE DEF S
<1>3. \A h \in i .. m - 1 : h \in S => h + 1 \in S
  BY <1>2
<1>4. i \in Nat /\ m \in Nat
  OBVIOUS
<1>5. \A h \in i .. m : h \in S
  BY <1>1, <1>3, <1>4, StepByStep
<1>6. QED
  BY <1>5 DEF S

\* ... and the same place comes back every n steps, and only then.
LEMMA SamePlaceAgain ==
  ASSUME NEW n \in Nat \ {0}, NEW m \in Nat, NEW p \in [1 .. m -> 0 .. n - 1], NEW onwards \in BOOLEAN,
         \A i \in 1 .. m - 1 : p[i + 1] = IF onwards THEN IF p[i] + 1 < n THEN p[i] + 1 ELSE 0
                                                     ELSE IF p[i] = 0 THEN n - 1 ELSE p[i] - 1,
         NEW i \in 1 .. m, NEW j \in i .. m
  PROVE  /\ p[i] = p[j] <=> (j - i) % n = 0
         /\ p[i] = p[j] <=> (i - j) % n = 0
<1>1. PICK k \in Int : p[j] = p[i] + (IF onwards THEN j - i ELSE i - j) + k * n
  BY RoundTheTable
<1>2. p[i] \in 0 .. n - 1 /\ p[j] \in 0 .. n - 1 /\ i \in Int /\ j \in Int
  OBVIOUS
<1> DEFINE a == p[i]
           b == p[j]
<1>3. a \in 0 .. n - 1 /\ b \in 0 .. n - 1 /\ b = a + (IF onwards THEN j - i ELSE i - j) + k * n
  BY <1>1, <1>2
<1> HIDE DEF a, b
<1>4. k * n \in Int /\ (-k) * n = -(k * n) /\ -k \in Int
  OBVIOUS
<1>5. ASSUME a = b
      PROVE  (j - i) % n = 0 /\ (i - j) % n = 0
  <2> DEFINE far == k * n
             back == (-k) * n
  <2>1. far \in Int /\ back = -far /\ b = a + (IF onwards THEN j - i ELSE i - j) + far
    BY <1>3, <1>4
  <2>2. far % n = 0 /\ back % n = 0
    BY <1>4, ModulusOfMultiple
  <2> HIDE DEF far, back
  <2>3. (j - i = far /\ i - j = back) \/ (j - i = back /\ i - j = far)
    <3>1. CASE onwards
      BY <1>2, <1>3, <1>5, <2>1, <3>1
    <3>2. CASE ~onwards
      BY <1>2, <1>3, <1>5, <2>1, <3>2
    <3>3. QED
      BY <3>1, <3>2
  <2>4. QED
    BY <2>2, <2>3
<1>6. ASSUME NEW q \in Int, q * n \in {j - i, i - j}
      PROVE  a = b
  <2>1. b - a \in {q * n + k * n, k * n - q * n}
    <3>1. q * n \in Int
      OBVIOUS
    <3>2. QED
      BY <1>2, <1>3, <1>4, <1>6, <3>1
  <2>2. (q + k) * n = q * n + k * n /\ (k - q) * n = k * n - q * n /\ q + k \in Int /\ k - q \in Int
    OBVIOUS
  <2>3. PICK l \in {q + k, k - q} : b - a = l * n
    BY <2>1, <2>2
  <2>4. l \in Int /\ -n < l * n /\ l * n < n
    <3>1. -n < b - a /\ b - a < n
      <4>1. a \in 0 .. n - 1 /\ b \in 0 .. n - 1
        BY <1>3
      <4>2. QED
        BY <4>1
    <3>2. l \in Int
      BY <2>2, <2>3
    <3>3. QED
      BY <2>3, <3>1, <3>2
  <2>5. l = 0
    BY <2>4, SmallMultiple
  <2>6. QED
    BY <1>3, <2>3, <2>5
<1>7. ASSUME (j - i) % n = 0
      PROVE  a = b
  <2>1. j - i \in Int
    BY <1>2
  <2>2. PICK q \in Int : j - i = q * n
    BY <1>7, <2>1, MultipleOfModulus
  <2>3. QED
    BY <1>6, <2>2
<1>8. ASSUME (i - j) % n = 0
      PROVE  a = b
  <2>1. i - j \in Int
    BY <1>2
  <2>2. PICK q \in Int : i - j = q * n
    BY <1>8, <2>1, MultipleOfModulus
  <2>3. QED
    BY <1>6, <2>2
<1>9. QED
  BY <1>5, <1>7, <1>8 DEF a, b

LEMMA LapIsRegular ==
  ASSUME OrdinaryDesktops, displays \in Layouts, NEW w \in Seq(Rect), Len(w) > 1,
         \A i \in DOMAIN w : Sized(w[i]), NEW action, LapTrail(action, w)
  PROVE  /\ \A i, j \in DOMAIN w :
              (Owners(w[i]) = Owners(w[j])) <=> ((j - i) % Cardinality(Usable) = 0)
         /\ \A i \in DOMAIN w :
              (i + Cardinality(Usable) \in DOMAIN w /\
                \E d \in Usable, zone \in BuiltIn : w[i] = BuiltInRect(zone, displays[d]))
                => w[i + Cardinality(Usable)] = w[i]
<1> DEFINE n == Cardinality(Usable)
           m == Len(w)
           p == [i \in 1 .. m |-> Position(Home(w[i]))]
<1>1. \A i \in 1 .. m : Home(w[i]) \in Usable /\ Owners(w[i]) = {Home(w[i])}
  BY LapHomes
<1>2. \A i \in 1 .. m - 1 :
        /\ Position(Home(w[i + 1])) =
             IF action = "next"
             THEN IF Position(Home(w[i])) + 1 < n THEN Position(Home(w[i])) + 1 ELSE 0
             ELSE IF Position(Home(w[i])) = 0 THEN n - 1 ELSE Position(Home(w[i])) - 1
        /\ \A zone \in BuiltIn : w[i] = BuiltInRect(zone, displays[Home(w[i])])
                                   => w[i + 1] = BuiltInRect(zone, displays[Home(w[i + 1])])
  BY LapHomes
<1>3. DOMAIN w = 1 .. m /\ m \in Nat /\ n \in Nat
  BY UsableIsFinite
<1>4. \A i \in 1 .. m : Position(Home(w[i])) \in Nat /\ Position(Home(w[i])) < n
  BY <1>1, PositionIs
<1>5. n \in Nat \ {0}
  <2>1. 1 \in 1 .. m
    BY <1>3
  <2>2. QED
    BY <1>3, <1>4, <2>1
<1>6. p \in [1 .. m -> 0 .. n - 1]
  BY <1>3, <1>4
<1> DEFINE onwards == action = "next"
<1>7. \A i \in 1 .. m - 1 : p[i + 1] = IF onwards THEN IF p[i] + 1 < n THEN p[i] + 1 ELSE 0
                                                  ELSE IF p[i] = 0 THEN n - 1 ELSE p[i] - 1
  <2>1. TAKE i \in 1 .. m - 1
  <2>2. i \in 1 .. m /\ i + 1 \in 1 .. m
    BY <1>3
  <2>3. p[i] = Position(Home(w[i])) /\ p[i + 1] = Position(Home(w[i + 1]))
    BY <2>2
  <2>4. QED
    BY <1>2, <2>3
<1>8. \A i, j \in 1 .. m : Home(w[i]) = Home(w[j]) <=> p[i] = p[j]
  <2>1. TAKE i, j \in 1 .. m
  <2>2. p[i] = Position(Home(w[i])) /\ p[j] = Position(Home(w[j]))
    OBVIOUS
  <2>3. Home(w[i]) \in Usable /\ Home(w[j]) \in Usable
    BY <1>1
  <2>4. QED
    BY <2>2, <2>3, PositionDecides
<1>9. onwards \in BOOLEAN
  OBVIOUS
<1> HIDE DEF p, onwards, n, m
<1>10. ASSUME NEW i \in 1 .. m, NEW j \in i .. m
       PROVE  /\ p[i] = p[j] <=> (j - i) % n = 0
              /\ p[i] = p[j] <=> (i - j) % n = 0
  BY <1>3, <1>5, <1>6, <1>7, <1>9, SamePlaceAgain
<1>11. ASSUME NEW i \in 1 .. m, NEW j \in 1 .. m
       PROVE  p[i] = p[j] <=> (j - i) % n = 0
  <2>1. j \in i .. m \/ i \in j .. m
    BY <1>3
  <2>2. CASE j \in i .. m
    BY <1>10, <2>2
  <2>3. CASE i \in j .. m
    <3>1. p[j] = p[i] <=> (j - i) % n = 0
      BY <1>10, <2>3
    <3>2. QED
      BY <3>1
  <2>4. QED
    BY <2>1, <2>2, <2>3
<1>12. \A i, j \in DOMAIN w : (Owners(w[i]) = Owners(w[j])) <=> ((j - i) % n = 0)
  <2>1. TAKE i, j \in DOMAIN w
  <2>2. i \in 1 .. m /\ j \in 1 .. m
    BY <1>3
  <2>3. Owners(w[i]) = {Home(w[i])} /\ Owners(w[j]) = {Home(w[j])}
    BY <1>1, <2>2 DEF m
  <2>4. Home(w[i]) = Home(w[j]) <=> p[i] = p[j]
    BY <1>8, <2>2
  <2>5. p[i] = p[j] <=> (j - i) % n = 0
    BY <1>11, <2>2
  <2>6. QED
    BY <2>3, <2>4, <2>5
<1>13. ASSUME NEW i \in DOMAIN w, i + n \in DOMAIN w, NEW d \in Usable, NEW zone \in BuiltIn,
              w[i] = BuiltInRect(zone, displays[d])
       PROVE  w[i + n] = w[i]
  <2> DEFINE S == {j \in i .. m : w[j] = BuiltInRect(zone, displays[Home(w[j])])}
  <2>1. i \in 1 .. m /\ i + n \in 1 .. m /\ i + n \in i .. m /\ i \in i .. m /\ i \in Nat
    BY <1>3, <1>13
  <2>2. Owners(w[i]) = {d}
    <3>1. ZoneRect(zone, displays[d]) = BuiltInRect(zone, displays[d])
      BY DEF ZoneRect
    <3>2. QED
      BY <1>13, <3>1, ZoneOwner
  <2>3. Home(w[i]) = d
    BY <2>2, HomeIs
  <2>4. i \in S
    BY <1>13, <2>1, <2>3
  <2>5. \A j \in i .. m - 1 : j \in S => j + 1 \in S
    <3>1. TAKE j \in i .. m - 1
    <3>2. j \in 1 .. m - 1 /\ j + 1 \in i .. m
      BY <1>3, <2>1
    <3>3. w[j] = BuiltInRect(zone, displays[Home(w[j])])
            => w[j + 1] = BuiltInRect(zone, displays[Home(w[j + 1])])
      BY <1>2, <3>2
    <3>4. QED
      BY <3>2, <3>3
  <2> HIDE DEF S
  <2>6. \A j \in i .. m : j \in S
    BY <1>3, <2>1, <2>4, <2>5, StepByStep
  <2>7. w[i + n] = BuiltInRect(zone, displays[Home(w[i + n])])
    BY <2>1, <2>6 DEF S
  <2>8. Home(w[i]) = Home(w[i + n])
    <3>1. (1 * n) % n = 0 /\ (i + n) - i = 1 * n
      <4>1. 1 \in Int
        OBVIOUS
      <4>2. QED
        BY <1>5, <2>1, <4>1, ModulusOfMultiple
    <3>2. p[i] = p[i + n]
      BY <1>11, <2>1, <3>1
    <3>3. QED
      BY <1>8, <2>1, <3>2
  <2>9. QED
    BY <1>13, <2>3, <2>7, <2>8
<1>14. QED
  BY <1>12, <1>13 DEF n

(***************************************************************************)
(* Marching outward.                                                       *)
(***************************************************************************)
\* MoveToZone takes a window from f to g, for a half.
HalfStep(zone, f, g) == \E d \in Owners(f) :
  IF NearlyEquals(f, ZoneRect(zone, displays[d])) /\ Neighbours(d, zone = "left-half") # {}
  THEN \E e \in Neighbours(d, zone = "left-half") : g = ZoneRect(Landing(zone), displays[e])
  ELSE g = ZoneRect(zone, displays[d])

\* Exactly a half of a display.
Half(f) == \E d \in Usable : f \in {BuiltInRect("left-half", displays[d]), BuiltInRect("right-half", displays[d])}

\* g lies beyond f, on the side of the zone.
Beyond(zone, f, g) == IF zone = "left-half" THEN Right(g) <= f.x ELSE Right(f) <= g.x

LEMMA HalvesReach ==
  ASSUME NEW a \in Rect
  PROVE  /\ BuiltInRect("left-half", a).x = a.x
         /\ Right(BuiltInRect("left-half", a)) <= BuiltInRect("right-half", a).x
         /\ Right(BuiltInRect("right-half", a)) = Right(a)
<1>1. "left-half" \in BuiltIn /\ "right-half" \in BuiltIn
  BY DEF BuiltIn, AllZones
<1> DEFINE f == BuiltInRect("left-half", a)
           g == BuiltInRect("right-half", a)
           half == a.width \div 2
           row == a.height \div 2
           third == a.width \div 3
<1>2. ZoneReaches("left-half", f, a, half, row, third) /\ ZoneReaches("right-half", g, a, half, row, third)
  BY <1>1, ZoneReachesIt
<1>3. a.x \in Int /\ a.width \in Nat /\ half \in Nat /\ 2 * half <= a.width
  BY Halves DEF Rect
<1> HIDE DEF f, g, half, row, third
<1>4. Reaches(f, a, 0, 0, half, a.height) /\ Reaches(g, a, a.width - half, 0, a.width, a.height)
  BY <1>2 DEF ZoneReaches
<1>5. f.x = a.x /\ Right(f) <= g.x /\ Right(g) = Right(a)
  BY <1>3, <1>4 DEF Reaches, Right
<1>6. QED
  BY <1>5 DEF f, g

LEMMA HalfStepIs ==
  ASSUME displays \in Layouts, NEW f, NEW g, NEW zone \in {"left-half", "right-half"}, HalfStep(zone, f, g)
  PROVE  Half(g) /\ g \in Rect
<1>1. PICK d \in Owners(f) :
        IF NearlyEquals(f, ZoneRect(zone, displays[d])) /\ Neighbours(d, zone = "left-half") # {}
        THEN \E e \in Neighbours(d, zone = "left-half") : g = ZoneRect(Landing(zone), displays[e])
        ELSE g = ZoneRect(zone, displays[d])
  BY DEF HalfStep
<1>2. \E e \in Usable, z \in {"left-half", "right-half"} : g = ZoneRect(z, displays[e])
  <2>1. d \in Usable /\ Landing(zone) \in {"left-half", "right-half"}
    BY OwnersUsable DEF Landing
  <2>2. QED
    BY <1>1, <2>1, NeighboursUsable
<1>3. PICK e \in Usable, z \in {"left-half", "right-half"} : g = ZoneRect(z, displays[e])
  BY <1>2
<1>4. z \in BuiltIn /\ displays[e] \in Rect
  BY UsableAreas DEF BuiltIn, AllZones
<1>5. g = BuiltInRect(z, displays[e])
  BY <1>3, <1>4 DEF ZoneRect
<1>6. QED
  BY <1>4, <1>5, BuiltInInside DEF Half, Lies

\* From a half, the next one is the same, or lies beyond.
LEMMA HalfGoesBeyond ==
  ASSUME OrdinaryDesktops, displays \in Layouts, NEW f, NEW g, NEW zone \in {"left-half", "right-half"},
         Half(f), HalfStep(zone, f, g)
  PROVE  f = g \/ Beyond(zone, f, g)
<1>1. PICK d \in Usable : f \in {BuiltInRect("left-half", displays[d]), BuiltInRect("right-half", displays[d])}
  BY DEF Half
<1>2. /\ "left-half" \in BuiltIn /\ "right-half" \in BuiltIn /\ "left-half" # "right-half"
      /\ Landing("left-half") = "right-half" /\ Landing("right-half") = "left-half"
  BY DEF BuiltIn, AllZones, Landing
<1>3. \A z \in {"left-half", "right-half"}, e \in Usable :
        ZoneRect(z, displays[e]) = BuiltInRect(z, displays[e])
  BY <1>2 DEF ZoneRect
<1>4. Owners(f) = {d}
  BY <1>1, <1>2, <1>3, ZoneOwner
<1>5. IF NearlyEquals(f, ZoneRect(zone, displays[d])) /\ Neighbours(d, zone = "left-half") # {}
      THEN \E e \in Neighbours(d, zone = "left-half") : g = ZoneRect(Landing(zone), displays[e])
      ELSE g = ZoneRect(zone, displays[d])
  BY <1>4 DEF HalfStep
<1>6. displays[d] \in Rect /\ Roomy(displays[d])
  BY UsableAreas, UsableIsRoomy
<1>7. ZoneRect(zone, displays[d]) = BuiltInRect(zone, displays[d])
  BY <1>3
<1> DEFINE other == Landing(zone)
<1>8. zone \in BuiltIn /\ other \in BuiltIn /\ other # zone /\ other \in {"left-half", "right-half"}
  BY <1>2
<1>9. CASE f = BuiltInRect(zone, displays[d])
  <2>1. f \in Rect
    BY <1>6, <1>8, <1>9, BuiltInInside DEF Lies
  <2>2. NearlyEquals(f, ZoneRect(zone, displays[d]))
    BY <1>7, <1>9, <2>1, NearlyItself
  <2>3. CASE Neighbours(d, zone = "left-half") = {}
    BY <1>5, <1>7, <1>9, <2>3
  <2>4. CASE Neighbours(d, zone = "left-half") # {}
    <3>1. PICK e \in Neighbours(d, zone = "left-half") : g = ZoneRect(other, displays[e])
      BY <1>5, <2>2, <2>4
    <3>2. e \in Usable
      BY NeighboursUsable
    <3>3. displays[e] \in Rect /\ g = BuiltInRect(other, displays[e])
      BY <1>3, <1>8, <3>1, <3>2, UsableAreas
    <3>4. IF zone = "left-half" THEN displays[d].x - Right(displays[e]) >= 0
                                ELSE displays[e].x - Right(displays[d]) >= 0
      BY <3>1 DEF Neighbours, Least
    <3>5. /\ displays[d].x \in Int /\ displays[e].x \in Int
          /\ Right(displays[d]) \in Int /\ Right(displays[e]) \in Int
      BY <1>6, <3>3 DEF Rect, Right
    <3>6. CASE zone = "left-half"
      <4>1. f.x = displays[d].x /\ Right(g) = Right(displays[e])
        BY <1>2, <1>6, <1>9, <3>3, <3>6, HalvesReach
      <4>2. QED
        BY <3>4, <3>5, <3>6, <4>1 DEF Beyond
    <3>7. CASE zone = "right-half"
      <4>1. Right(f) = Right(displays[d]) /\ g.x = displays[e].x
        BY <1>2, <1>6, <1>9, <3>3, <3>7, HalvesReach
      <4>2. QED
        BY <1>2, <3>4, <3>5, <3>7, <4>1 DEF Beyond
    <3>8. QED
      BY <3>6, <3>7
  <2>5. QED
    BY <2>3, <2>4
<1>10. CASE f = BuiltInRect(other, displays[d])
  <2>1. ~NearlyEquals(f, ZoneRect(zone, displays[d]))
    BY <1>6, <1>7, <1>8, <1>10, ZonesDiffer
  <2>2. g = BuiltInRect(zone, displays[d])
    BY <1>5, <1>7, <2>1
  <2>3. Right(BuiltInRect("left-half", displays[d])) <= BuiltInRect("right-half", displays[d]).x
    BY <1>6, HalvesReach
  <2>4. QED
    BY <1>2, <1>10, <2>2, <2>3 DEF Beyond
<1>11. f = BuiltInRect(zone, displays[d]) \/ f = BuiltInRect(other, displays[d])
  BY <1>1, <1>2
<1>12. QED
  BY <1>9, <1>10, <1>11

HalfTrail(zone, w) == \A i \in 1 .. Len(w) - 1 : HalfStep(zone, w[i], w[i + 1])

LEMMA HalvesAreRegular ==
  ASSUME OrdinaryDesktops, displays \in Layouts, NEW w \in Seq(Rect),
         NEW zone \in {"left-half", "right-half"}, HalfTrail(zone, w)
  PROVE  \A i, j \in DOMAIN w : 2 <= i /\ i < j => w[i] = w[j] \/ Beyond(zone, w[i], w[j])
<1> DEFINE m == Len(w)
<1>1. SUFFICES ASSUME NEW i \in DOMAIN w, NEW j \in DOMAIN w, 2 <= i, i < j
               PROVE  w[i] = w[j] \/ Beyond(zone, w[i], w[j])
  OBVIOUS
<1>2. DOMAIN w = 1 .. m /\ m \in Nat
  OBVIOUS
<1>3. i \in 1 .. m /\ j \in i .. m /\ i \in i .. m /\ i \in Nat /\ i - 1 \in 1 .. m - 1 /\ (i - 1) + 1 = i
  BY <1>1, <1>2
<1> DEFINE S == {k \in i .. m : /\ w[k] \in Rect /\ Half(w[k])
                                /\ w[i] = w[k] \/ Beyond(zone, w[i], w[k])}
<1>4. w[i] \in Rect /\ Half(w[i])
  <2>1. HalfStep(zone, w[i - 1], w[i])
    BY <1>3 DEF HalfTrail
  <2>2. QED
    BY <2>1, HalfStepIs
<1>5. i \in S
  BY <1>3, <1>4
<1>6. ASSUME NEW k \in i .. m - 1, k \in S
      PROVE  k + 1 \in S
  <2>1. k + 1 \in i .. m /\ k \in 1 .. m - 1
    BY <1>2, <1>3
  <2> DEFINE e == w[i]
             f == w[k]
             g == w[k + 1]
  <2>2. HalfStep(zone, f, g)
    BY <2>1 DEF HalfTrail
  <2>3. f \in Rect /\ Half(f) /\ (e = f \/ Beyond(zone, e, f)) /\ e \in Rect
    BY <1>4, <1>6
  <2> HIDE DEF e, f, g
  <2>4. Half(g) /\ g \in Rect
    BY <2>2, HalfStepIs
  <2>5. f = g \/ Beyond(zone, f, g)
    BY <2>2, <2>3, HalfGoesBeyond
  <2>6. Beyond(zone, e, f) /\ Beyond(zone, f, g) => Beyond(zone, e, g)
    <3>1. /\ e.x \in Int /\ f.x \in Int /\ g.x \in Int
          /\ e.width \in Nat /\ f.width \in Nat /\ g.width \in Nat
      BY <2>3, <2>4 DEF Rect
    <3>2. \A a, b, c \in Int : \A p, q, r \in Nat :
            /\ b + q <= a /\ c + r <= b => c + r <= a
            /\ a + p <= b /\ b + q <= c => a + p <= c
      OBVIOUS
    <3>3. CASE zone = "left-half"
      BY <3>1, <3>2, <3>3 DEF Beyond, Right
    <3>4. CASE zone # "left-half"
      BY <3>1, <3>2, <3>4 DEF Beyond, Right
    <3>5. QED
      BY <3>3, <3>4
  <2>7. e = g \/ Beyond(zone, e, g)
    BY <2>3, <2>5, <2>6
  <2>8. QED
    BY <2>1, <2>4, <2>7 DEF e, f, g
<1> HIDE DEF S
<1>7. \A k \in i .. m - 1 : k \in S => k + 1 \in S
  BY <1>6
<1>8. \A k \in i .. m : k \in S
  BY <1>2, <1>3, <1>5, <1>7, StepByStep
<1>9. QED
  BY <1>3, <1>8 DEF S

(***************************************************************************)
(* The walk of an action that is repeated.                                 *)
(***************************************************************************)
LEMMA SameDisplays ==
  ASSUME displays' = displays
  PROVE  /\ Usable' = Usable
         /\ \A f : Owners(f)' = Owners(f)
         /\ \A d : Position(d)' = Position(d)
         /\ \A d, leftwards : Neighbours(d, leftwards)' = Neighbours(d, leftwards)
<1>1. Usable' = Usable
  BY DEF Usable
<1>2. \A f : Owners(f)' = Owners(f)
  <2>1. SUFFICES ASSUME NEW f PROVE Owners(f)' = Owners(f)
    OBVIOUS
  <2>2. QED
    BY DEF Owners, Usable, Order
<1>3. \A d : Position(d)' = Position(d)
  <2>1. SUFFICES ASSUME NEW d PROVE Position(d)' = Position(d)
    OBVIOUS
  <2>2. QED
    BY DEF Position, Usable, Order
<1>4. \A d, leftwards : Neighbours(d, leftwards)' = Neighbours(d, leftwards)
  <2>1. SUFFICES ASSUME NEW d, NEW leftwards PROVE Neighbours(d, leftwards)' = Neighbours(d, leftwards)
    OBVIOUS
  <2>2. QED
    BY DEF Neighbours, Usable
<1>5. QED
  BY <1>1, <1>2, <1>3, <1>4

LEMMA SameSteps ==
  ASSUME displays' = displays
  PROVE  /\ \A action, f, g : LapStep(action, f, g)' <=> LapStep(action, f, g)
         /\ \A zone, f, g : HalfStep(zone, f, g)' <=> HalfStep(zone, f, g)
<1>1. ASSUME NEW action, NEW f, NEW g
      PROVE  LapStep(action, f, g)' <=> LapStep(action, f, g)
  BY SameDisplays DEF LapStep
<1>2. ASSUME NEW zone, NEW f, NEW g
      PROVE  HalfStep(zone, f, g)' <=> HalfStep(zone, f, g)
  BY SameDisplays DEF HalfStep
<1>3. QED
  BY <1>1, <1>2

Laps == {"next", "previous"}
SideHalves == {"left-half", "right-half"}

\* What a walk is: frames of a size, each one press of the action from the one before,
\* and the last one the window's.
WalkIInv ==
  /\ key = "none" => walk = <<>>
  /\ key # "none" => Len(walk) > 1 /\ walk[Len(walk)] = geometry
  /\ \A i \in DOMAIN walk : Sized(walk[i])
  /\ key \in Laps => LapTrail(key, walk)
  /\ key \in SideHalves => HalfTrail(key, walk)

LEMMA WalkGoesOn ==
  ASSUME PlacementTypeOK, WalkIInv, Sized(geometry), NEW action \in Keys \ {"none"}, NEW target \in Rect,
         Sized(target), Place(action, target),
         action \in Laps => LapStep(action, geometry, target),
         action \in SideHalves => HalfStep(action, geometry, target)
  PROVE  WalkIInv'
<1>1. /\ geometry' = target /\ key' = action /\ displays' = displays
      /\ walk' = (IF key = action THEN walk ELSE <<geometry>>) \o <<target>>
  BY DEF Place
<1> DEFINE base == IF key = action THEN walk ELSE <<geometry>>
           next == <<target>>
           w == base \o next
<1>2. base \in Seq(Rect) /\ next \in Seq(Rect) /\ Len(next) = 1 /\ next[1] = target
  BY DEF PlacementTypeOK
<1>3. Len(base) >= 1 /\ base[Len(base)] = geometry /\ \A i \in DOMAIN base : Sized(base[i])
  <2>1. CASE key = action
    BY <2>1 DEF WalkIInv
  <2>2. CASE key # action
    <3>1. base = <<geometry>>
      BY <2>2
    <3>2. QED
      BY <3>1
  <2>3. QED
    BY <2>1, <2>2
<1>4. /\ action \in Laps => LapTrail(action, base)
      /\ action \in SideHalves => HalfTrail(action, base)
  <2>1. CASE key = action
    BY <2>1 DEF WalkIInv
  <2>2. CASE key # action
    <3>1. base = <<geometry>>
      BY <2>2
    <3>2. Len(base) = 1
      BY <3>1
    <3> HIDE DEF base
    <3>3. 1 .. Len(base) - 1 = {}
      BY <3>2
    <3>4. QED
      BY <3>3 DEF LapTrail, HalfTrail
  <2>3. QED
    BY <2>1, <2>2
<1>5. walk' = w
  BY <1>1
<1> HIDE DEF base, next
<1>6. Len(w) = Len(base) + 1
  BY <1>2, ConcatProperties
<1>7. w \in Seq(Rect)
  BY <1>2, ConcatProperties
<1>8. \A i \in 1 .. Len(base) + 1 : w[i] = IF i <= Len(base) THEN base[i] ELSE target
  <2>1. \A i \in 1 .. Len(base) + Len(next) : w[i] = IF i <= Len(base) THEN base[i] ELSE next[i - Len(base)]
    BY <1>2, ConcatProperties
  <2>2. \A i \in 1 .. Len(base) + 1 : ~(i <= Len(base)) => i - Len(base) = 1
    BY <1>2
  <2>3. QED
    BY <1>2, <2>1, <2>2
<1> HIDE DEF w
<1>9. Len(base) \in Nat /\ DOMAIN w = 1 .. Len(base) + 1 /\ DOMAIN base = 1 .. Len(base)
  BY <1>2, <1>6, <1>7
<1>10. Len(w) > 1 /\ w[Len(w)] = target
  BY <1>3, <1>6, <1>8, <1>9
<1>11. \A i \in DOMAIN w : Sized(w[i])
  BY <1>3, <1>8, <1>9
<1>12. \A i \in 1 .. Len(w) - 1 :
         \/ i \in 1 .. Len(base) - 1 /\ w[i] = base[i] /\ w[i + 1] = base[i + 1]
         \/ w[i] = geometry /\ w[i + 1] = target
  <2>1. TAKE i \in 1 .. Len(w) - 1
  <2>2. i \in 1 .. Len(base) /\ i \in 1 .. Len(base) + 1 /\ i + 1 \in 1 .. Len(base) + 1
    BY <1>6, <1>9
  <2>3. CASE i = Len(base)
    BY <1>3, <1>8, <1>9, <2>2, <2>3
  <2>4. CASE i # Len(base)
    <3>1. i \in 1 .. Len(base) - 1 /\ i + 1 <= Len(base)
      <4>1. \A m \in Nat : \A k \in 1 .. m : k # m => k \in 1 .. m - 1 /\ k + 1 <= m
        OBVIOUS
      <4>2. QED
        BY <1>9, <2>2, <2>4, <4>1
    <3>2. QED
      BY <1>8, <1>9, <2>2, <3>1
  <2>5. QED
    BY <2>3, <2>4
<1>13. action \in Laps => LapTrail(action, w)
  <2>1. SUFFICES ASSUME action \in Laps, NEW i \in 1 .. Len(w) - 1
                 PROVE  LapStep(action, w[i], w[i + 1])
    BY DEF LapTrail
  <2>2. QED
    BY <1>4, <1>12, <2>1 DEF LapTrail
<1>14. action \in SideHalves => HalfTrail(action, w)
  <2>1. SUFFICES ASSUME action \in SideHalves, NEW i \in 1 .. Len(w) - 1
                 PROVE  HalfStep(action, w[i], w[i + 1])
    BY DEF HalfTrail
  <2>2. QED
    BY <1>4, <1>12, <2>1 DEF HalfTrail
<1>15. (key \in Laps => LapTrail(key, walk))'
  <2>1. SUFFICES ASSUME action \in Laps, NEW i \in 1 .. Len(walk') - 1
                 PROVE  LapStep(key, walk[i], walk[i + 1])'
    BY <1>1 DEF LapTrail, Laps
  <2>2. LapStep(key', walk'[i], walk'[i + 1])
    BY <1>1, <1>5, <1>13, <2>1 DEF LapTrail
  <2>3. QED
    BY <1>1, <2>2, SameSteps
<1>16. (key \in SideHalves => HalfTrail(key, walk))'
  <2>1. SUFFICES ASSUME action \in SideHalves, NEW i \in 1 .. Len(walk') - 1
                 PROVE  HalfStep(key, walk[i], walk[i + 1])'
    BY <1>1 DEF HalfTrail, SideHalves
  <2>2. HalfStep(key', walk'[i], walk'[i + 1])
    BY <1>1, <1>5, <1>14, <2>1 DEF HalfTrail
  <2>3. QED
    BY <1>1, <2>2, SameSteps
<1>17. (key # "none" => Len(walk) > 1 /\ walk[Len(walk)] = geometry)'
  BY <1>1, <1>5, <1>10
<1>18. (\A i \in DOMAIN walk : Sized(walk[i]))'
  BY <1>5, <1>11
<1>19. (key = "none" => walk = <<>>)'
  BY <1>1
<1>20. QED
  BY <1>15, <1>16, <1>17, <1>18, <1>19 DEF WalkIInv

\* What PlacementIsSound and the actions give WalkGoesOn.
LEMMA WalkInvariant ==
  ASSUME PlacementTypeOK, PlacementTypeOK', WalkIInv, Sized(geometry), Sized(geometry)',
         [PlacementNext]_placementVars
  PROVE  WalkIInv'
<1>1. displays \in Layouts /\ geometry \in Rect /\ geometry' \in Rect
  BY DEF PlacementTypeOK
<1>2. ASSUME NEW action \in Keys \ {"none"}, NEW target, Place(action, target),
             action \in Laps => LapStep(action, geometry, target),
             action \in SideHalves => HalfStep(action, geometry, target)
      PROVE  WalkIInv'
  <2>1. geometry' = target
    BY <1>2 DEF Place
  <2>2. target \in Rect /\ Sized(target)
    BY <1>1, <2>1 DEF Sized
  <2>3. QED
    BY <1>2, <2>2, WalkGoesOn
<1>3. BuiltIn \cap Laps = {} /\ "none" \notin BuiltIn /\ SideHalves \subseteq BuiltIn
  BY DEF BuiltIn, AllZones, Laps, SideHalves
<1>4. Laps \subseteq Others /\ "none" \in Others /\ BuiltIn \cap Others = {}
      /\ DOMAIN CustomZones \cap Others = {} /\ DOMAIN CustomZones \cap BuiltIn = {}
  BY LayoutsOK DEF Laps, Others, BuiltIn, AllZones
<1>5. CASE MoveToZone
  <2>1. PICK d \in Owners(geometry), zone \in BuiltIn \cup DOMAIN CustomZones :
          IF Crossing(zone, d) = {}
          THEN Place(zone, ZoneRect(zone, displays[d]))
          ELSE \E e \in Crossing(zone, d) : Place(zone, ZoneRect(Landing(zone), displays[e]))
    BY <1>5 DEF MoveToZone
  <2>2. zone \in Keys \ {"none"} /\ zone \notin Laps
    BY <1>4 DEF Keys
  <2>3. zone \in SideHalves =>
          Crossing(zone, d) = IF NearlyEquals(geometry, ZoneRect(zone, displays[d]))
                              THEN Neighbours(d, zone = "left-half") ELSE {}
    BY DEF Crossing, SideHalves
  <2>4. CASE Crossing(zone, d) = {}
    <3>1. zone \in SideHalves => HalfStep(zone, geometry, ZoneRect(zone, displays[d]))
      BY <2>3, <2>4 DEF HalfStep
    <3>2. QED
      BY <1>2, <2>1, <2>2, <2>4, <3>1
  <2>5. CASE Crossing(zone, d) # {}
    <3>1. PICK e \in Crossing(zone, d) : Place(zone, ZoneRect(Landing(zone), displays[e]))
      BY <2>1, <2>5
    <3>2. zone \in SideHalves => HalfStep(zone, geometry, ZoneRect(Landing(zone), displays[e]))
      BY <2>3, <2>5, <3>1 DEF HalfStep
    <3>3. QED
      BY <1>2, <2>2, <3>1, <3>2
  <2>6. QED
    BY <2>4, <2>5
<1>6. ASSUME NEW action \in Others \ {"none"}
      PROVE  action \in Keys \ {"none"} /\ action \notin SideHalves
  BY <1>3, <1>4, <1>6 DEF Keys
<1>7. CASE MoveToNextDisplay
  <2>1. PICK d \in Owners(geometry), e \in Usable :
          /\ Cardinality(Usable) > 1
          /\ Position(e) = (Position(d) + 1) % Cardinality(Usable)
          /\ Place("next", MoveWindowToDisplay(geometry, displays[d], displays[e]))
    BY <1>7 DEF MoveToNextDisplay
  <2>2. LapStep("next", geometry, MoveWindowToDisplay(geometry, displays[d], displays[e]))
    BY <2>1 DEF LapStep
  <2>3. "next" \in Others \ {"none"}
    BY DEF Others
  <2>4. QED
    BY <1>2, <1>6, <2>1, <2>2, <2>3
<1>8. CASE MoveToPreviousDisplay
  <2>1. PICK d \in Owners(geometry), e \in Usable :
          /\ Cardinality(Usable) > 1
          /\ Position(e) = (Position(d) + Cardinality(Usable) - 1) % Cardinality(Usable)
          /\ Place("previous", MoveWindowToDisplay(geometry, displays[d], displays[e]))
    BY <1>8 DEF MoveToPreviousDisplay
  <2>2. LapStep("previous", geometry, MoveWindowToDisplay(geometry, displays[d], displays[e]))
    BY <2>1 DEF LapStep
  <2>3. "previous" \in Others \ {"none"}
    BY DEF Others
  <2>4. QED
    BY <1>2, <1>6, <2>1, <2>2, <2>3
<1>9. CASE MoveToDisplay
  <2>1. PICK d \in Owners(geometry), direction \in {"left", "right", "up", "down"} :
          \E e \in InDirection(d, direction) :
            Place(direction, MoveWindowToDisplay(geometry, displays[d], displays[e]))
    BY <1>9 DEF MoveToDisplay
  <2>2. PICK e \in InDirection(d, direction) :
          Place(direction, MoveWindowToDisplay(geometry, displays[d], displays[e]))
    BY <2>1
  <2>3. direction \in Others \ {"none"} /\ direction \notin Laps
    BY DEF Others, Laps
  <2>4. QED
    BY <1>2, <1>6, <2>2, <2>3
<1>10. CASE Center
  <2>1. PICK d \in Owners(geometry) : Place("center", Centered(geometry, displays[d]))
    BY <1>10 DEF Center
  <2>2. "center" \in Others \ {"none"} /\ "center" \notin Laps
    BY DEF Others, Laps
  <2>3. QED
    BY <1>2, <1>6, <2>1, <2>2
<1>11. ASSUME key' = "none", walk' = <<>>
       PROVE  WalkIInv'
  <2>1. "none" \notin Laps /\ "none" \notin SideHalves
    BY DEF Laps, SideHalves
  <2>2. QED
    BY <1>11, <2>1 DEF WalkIInv
<1>12. CASE UserDrags \/ DisplaysChange
  BY <1>11, <1>12 DEF UserDrags, DisplaysChange
<1>13. CASE UNCHANGED placementVars
  <2>1. UNCHANGED <<displays, geometry, key, walk>>
    BY <1>13 DEF placementVars
  <2>2. (key \in Laps => LapTrail(key, walk))'
    BY <2>1, SameSteps DEF WalkIInv, LapTrail
  <2>3. (key \in SideHalves => HalfTrail(key, walk))'
    BY <2>1, SameSteps DEF WalkIInv, HalfTrail
  <2>4. /\ (key = "none" => walk = <<>>)'
        /\ (key # "none" => Len(walk) > 1 /\ walk[Len(walk)] = geometry)'
        /\ (\A i \in DOMAIN walk : Sized(walk[i]))'
    BY <2>1 DEF WalkIInv
  <2>5. QED
    BY <2>2, <2>3, <2>4 DEF WalkIInv
<1>14. QED
  BY <1>5, <1>7, <1>8, <1>9, <1>10, <1>12, <1>13 DEF PlacementNext

LEMMA WalksAreRegular ==
  ASSUME OrdinaryDesktops, PlacementTypeOK, WalkIInv
  PROVE  RepeatsGoOn
<1>1. displays \in Layouts /\ walk \in Seq(Rect)
  BY DEF PlacementTypeOK
<1>2. ASSUME key \in Laps
      PROVE  LapVisitsAll /\ LapRestoresZone
  <2>1. Len(walk) > 1 /\ (\A i \in DOMAIN walk : Sized(walk[i])) /\ LapTrail(key, walk)
    BY <1>2 DEF WalkIInv, Laps
  <2>2. /\ \A i, j \in DOMAIN walk :
              (Owners(walk[i]) = Owners(walk[j])) <=> ((j - i) % Cardinality(Usable) = 0)
        /\ \A i \in DOMAIN walk :
              (i + Cardinality(Usable) \in DOMAIN walk /\
                \E d \in Usable, zone \in BuiltIn : walk[i] = BuiltInRect(zone, displays[d]))
                => walk[i + Cardinality(Usable)] = walk[i]
    BY <1>1, <2>1, LapIsRegular
  <2>3. QED
    BY <2>2 DEF LapVisitsAll, LapRestoresZone
<1>3. ASSUME key \in SideHalves
      PROVE  HalvesMarchOutward
  <2>1. HalfTrail(key, walk)
    BY <1>3 DEF WalkIInv
  <2>2. key \in {"left-half", "right-half"}
    BY <1>3 DEF SideHalves
  <2>3. \A i, j \in DOMAIN walk : 2 <= i /\ i < j => walk[i] = walk[j] \/ Beyond(key, walk[i], walk[j])
    BY <1>1, <2>1, <2>2, HalvesAreRegular
  <2>4. QED
    BY <2>2, <2>3 DEF HalvesMarchOutward, Beyond
<1>4. QED
  BY <1>2, <1>3 DEF RepeatsGoOn, LapVisitsAll, LapRestoresZone, HalvesMarchOutward, Laps, SideHalves

\* "Explicit next/previous display actions ... wrap and preserve the window's layout",
\* "the outer edge stays put": pressed again and again, a display action goes round
\* the displays and brings a zone back, a half goes outward to the last display and
\* stays there.
THEOREM RepeatedActionsGoOn ==
  ASSUME OrdinaryDesktops
  PROVE  PlacementSpec /\ []Sized(geometry) => []RepeatsGoOn
<1>1. PlacementInit => WalkIInv
  BY DEF PlacementInit, WalkIInv, Laps, SideHalves
<1>2. PlacementTypeOK /\ PlacementTypeOK' /\ Sized(geometry) /\ Sized(geometry)' /\ WalkIInv
        /\ [PlacementNext]_placementVars => WalkIInv'
  BY WalkInvariant
<1>3. PlacementTypeOK /\ WalkIInv => RepeatsGoOn
  BY WalksAreRegular
<1>4. PlacementSpec => []PlacementTypeOK
  BY PlacementTypeCorrectness
<1>5. QED
  BY <1>1, <1>2, <1>3, <1>4, PTL DEF PlacementSpec
=============================================================================
