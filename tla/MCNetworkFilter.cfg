SPECIFICATION NetSpec
CONSTANTS
  a = a
  b = b
  c = c
  n1 = n1
  n2 = n2
  Sandboxes = {a, b, c}
  Names = {n1, n2}
  Prefix <- MCPrefix
  Tail <- MCTail
  NoVeth = NoVeth
INVARIANT FilterStays
