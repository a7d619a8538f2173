\* Founders, authors and newcomers, in every interleaving.
CONSTANTS
    a = a  b = b  h = h  t = t  t2 = t2  x = x  x2 = x2  x22 = x22  x3 = x3
    old = old  new = new
    r1 = r1  r2 = r2  r3 = r3  r4 = r4  r5 = r5  r6 = r6  r7 = r7  r8 = r8
    Requests = {r1, r2, r3, r4, r5, r6, r7, r8}
    Subjects = {a, b}
    Handles = {h}
    Titles = {t, t2}
    Slugs = {x, x2, x22, x3}
    MaxSuffix = 3
    SlugAt <- MCSlugAt
    Texts = {old, new}
    NoText = NoText
    MaxOpen = 2
    Req <- MCReq
SPECIFICATION Spec
SYMMETRY MCSymmetry
INVARIANTS SuffixesHaveNoGaps
PROPERTIES OnlyOverlapsCollide
CHECK_DEADLOCK FALSE
