SPECIFICATION Spec
CONSTANTS
    Creator = c
    Ally = {}
    Target = {t1}
    Admin = admin
    Date = {1, 3}
    Expire = 2
    Retention = 1
    MaxAge = 5
    Session = {s1, s2}
    None = None
PROPERTY FirstResultStands
