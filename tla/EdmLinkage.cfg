SPECIFICATION LinkSpec
CONSTANTS
  Clients = {c1, c2}
  Editors = {c1, c2}
  Treaties = {t1, t2}
  Edms = {x}
  MayCrash = TRUE
  Nothing = Nothing
SYMMETRY LinkageSymmetry
INVARIANT LostLinksAreConcurrent
PROPERTY ViewsAreCurrent
